----------------------------- MODULE MCExecHop -----------------------------
(* Small instances of ExecHop for TLC. *)
EXTENDS ExecHop, TLC

CONSTANTS h1, h2, h3, h4

\* h1 behind the entry host, h2 behind h1 and so on: four hosts are one too many.
Chain == h1 :> Entry @@ h2 :> h1 @@ h3 :> h2 @@ h4 :> h3

\* h2 and h3 behind each other.
Cycle == h1 :> Entry @@ h2 :> h3 @@ h3 :> h2 @@ h4 :> h1

AllConfigs == {Chain, Cycle}
OnlyChain == {Chain}

File1(source, wanted) == [source |-> source, wanted |-> wanted, waits |-> FALSE]

AllJobs ==
    {File1("local", w) : w \in {Entry} \cup Hosts}
        \cup {File1("ssh", w) : w \in {Local, h1}}
        \cup {File1("hop", w) : w \in {Local, Entry, h1}}
        \cup [source : {"tcp"}, wanted : {h1, h2}, waits : BOOLEAN]

OnlyTunnel == [source : {"tcp"}, wanted : {h1}, waits : {FALSE}]

AllFaults == FaultKinds
=============================================================================
