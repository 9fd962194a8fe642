----------------------------- MODULE MCToolbox -----------------------------
(* Small instances of Toolbox for TLC. *)
EXTENDS Toolbox, TLC

CONSTANTS t1, t2, v1, v2, p1, p2

Interchangeable ==
    Permutations(Tools) \cup Permutations(Versions) \cup Permutations(Procs)
=============================================================================
