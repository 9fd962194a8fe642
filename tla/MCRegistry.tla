----------------------------- MODULE MCRegistry -----------------------------
(* Small instances of Registry for TLC.  The entries of the two images share a  *)
(* blob; in the repeating ones, a manifest has two entries with the same blob.  *)
EXTENDS Registry, TLC

CONSTANTS i1, i2, m1, m2, b1, b2, e1, e2, e3, p1, p2

TwoImages == (i1 :> {m1, m2}) @@ (i2 :> {m2})
TwoManifests == (m1 :> {e1}) @@ (m2 :> {e2})
Distinct == (e1 :> b1) @@ (e2 :> b2)

OneImage == i1 :> {m1}
TwoTools == m1 :> {e1, e2, e3}
Repeating == (e1 :> b1) @@ (e2 :> b2) @@ (e3 :> b2)

Interchangeable == Permutations(Procs)
=============================================================================
