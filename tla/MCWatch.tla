------------------------------ MODULE MCWatch ------------------------------
(* Small instances of Watch for TLC. *)
EXTENDS Watch, TLC

CONSTANTS h1, h2, quiet, fails

JumpAndBastion == h1 :> "jump" @@ h2 :> "bastion"
DirectAndHop == h1 :> "direct" @@ h2 :> "exec-hop"

AllRoutes == {JumpAndBastion, DirectAndHop}

Unlimited == [count |-> None, untilSuccess |-> FALSE, all |-> FALSE]
Finite == [count |-> 2, untilSuccess |-> TRUE, all |-> TRUE]

AllOptions == {Unlimited, Finite}

\* The tool ends everywhere, or not on h1.
SomeEndless == {{}, {h1}}
=============================================================================
