------------------------------ MODULE MCFleet ------------------------------
(* A small instance of Fleet for TLC. *)
EXTENDS Fleet, TLC

CONSTANTS h1, h2, h3, j1, j2

\* Two hosts share a jump host; the third has its own, or is reached directly.
TwoRoutings ==
    {h1 :> j1 @@ h2 :> j1 @@ h3 :> j2, h1 :> j1 @@ h2 :> j1 @@ h3 :> None}
=============================================================================
