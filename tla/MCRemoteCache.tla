--------------------------- MODULE MCRemoteCache ---------------------------
(* Small instances of RemoteCache for TLC. *)
EXTENDS RemoteCache, TLC

CONSTANTS c1, c2, v1, v2, p1, p2

RunWarm == c1 :> "run" @@ c2 :> "warm"
TtyFleet == c1 :> "tty" @@ c2 :> "fleet"

\* Builds and process ids are interchangeable; clients differ by their command.
BuildsAndPids == Permutations(Versions) \cup Permutations(Pids)

=============================================================================
