------------------------------ MODULE ExecHop ------------------------------
(***************************************************************************)
(* One `binport cp` of a file, or one connection of `binport tunnel`, that *)
(* reaches its host through binport-hop helpers.                           *)
(*                                                                         *)
(* The client resolves the chain of exec-hop hosts and runs a helper on    *)
(* the entry host; every helper dials the next host and runs there the     *)
(* next helper or, at the end, the command: the upload shell of cp or      *)
(* `binport-hop --connect`.  Process i of the chain reads what process     *)
(* i-1 (0 is the client) feeds it and writes to process i-1.  A chain of   *)
(* length 0 is a cp to a plain SSH host.                                   *)
(*                                                                         *)
(* A file and a TCP stream are numbers of chunks, and links keep their     *)
(* order; which version of the source each chunk was read from is          *)
(* remembered.  Headers, installation of the helper and uname are part of  *)
(* the step that dials: they share no state with the rest, and the         *)
(* content-addressed upload is RemoteCache.                                *)
(***************************************************************************)
EXTENDS Naturals, Sequences, FiniteSets, SequencesExt

CONSTANTS
    Hosts,      \* managed hosts with BinportStrategy exec-hop
    Entry,      \* a host without: the end of every chain
    Local,      \* the destination of a cp to this machine
    Configs,    \* the ProxyJump of each exec-hop host
    Jobs,       \* what the command may be asked, see JobKinds
    MaxHops,    \* MAX_EXEC_HOPS
    Cap,        \* chunks in flight on one link
    Sizes,      \* sizes a file may have, in chunks
    MaxEdits,   \* changes of the source file while it is copied
    Faults,     \* what may go wrong
    None

FaultKinds == {"read_error", "tcp_error", "connection_lost", "refused", "script_fails"}

\* source: where cp reads ("tcp" for a tunnel); wanted: where it writes, or the
\* host of the tunnel; waits: whether the TCP client closes only after the server.
JobKinds ==
    [source : {"local", "ssh", "hop"}, wanted : Hosts \cup {Entry, Local}, waits : {FALSE}]
        \cup [source : {"tcp"}, wanted : Hosts, waits : BOOLEAN]

ASSUME ExecHopAssumption ==
    /\ Entry \notin Hosts
    /\ Local \notin Hosts \cup {Entry}
    /\ Configs \subseteq [Hosts -> Hosts \cup {Entry}]
    /\ Jobs \subseteq JobKinds
    /\ MaxHops \in Nat \ {0}
    /\ Cap \in Nat \ {0}
    /\ Sizes \subseteq Nat
    /\ MaxEdits \in Nat
    /\ Faults \subseteq FaultKinds
    /\ None \notin Nat

ASSUME AbsenceAssumption == None \notin {"ok", "error"}

VARIABLES
    via, job,   \* the configuration and the request
    main,       \* "size", "download", "resolve", "start", "await" or "done"
    result,     \* "ok" or "error"
    route,      \* the hosts resolved so far, nearest to the entry first
    \* the source file
    size,       \* its size now
    edits,      \* how often it changed: the number of its version
    seen,       \* the sizes of its versions, the first being version 0
    read,       \* the versions the command met: when it learned the size, at each
                \* chunk it read and at the end of the file
    total,      \* the answer of `wc -c`, or the metadata when the upload starts
    staged,     \* size of binport-cp-PID-N.part, or None
    sent,       \* chunks of the input an upload has read
    \* the destination
    dest,       \* size of what the command put there, or None: untouched
    temp,       \* size of the temporary next to it, or None
    \* the chain; process 0 is the client
    st,         \* where process i is
    code,       \* its exit status
    req,        \* the request it was sent: next target and what remains
    host,       \* where it runs
    up, eof,    \* chunks in its stdin, and whether the end follows them
    down,       \* chunks in its stdout
    feeder,     \* "copy", "done" (the end was sent), "failed" or "none"
    left,       \* chunks the feeder still has to move, where it counts them
    lost,       \* the link whose connection broke, 0 for a download
    \* the TCP connection of a tunnel
    cli, srv    \* what each end has left to send, has got, closed and seen closed

jobVars == <<via, job>>
fileVars == <<size, seen, edits, read>>
destVars == <<dest, temp>>
linkVars == <<up, eof, down>>
procVars == <<st, code, req, host, feeder, left>>
tcpVars == <<cli, srv>>
vars == <<jobVars, main, result, route, fileVars, total, staged, sent, destVars,
          procVars, linkVars, lost, tcpVars>>

Procs == 1 .. MaxHops + 1

\* The process that runs the command itself.
Tip == Len(route) + 1

Tunnel == job.source = "tcp"

Ends == [left : Nat, got : Nat, closed : BOOLEAN, eof : BOOLEAN]

TypeOK ==
    /\ via \in Configs
    /\ job \in Jobs
    /\ main \in {"size", "download", "resolve", "start", "await", "done"}
    /\ result \in {None, "ok", "error"}
    /\ route \in Seq(Hosts)
    /\ size \in Nat
    /\ seen \in Seq(Nat)
    /\ edits \in 0 .. MaxEdits
    /\ read \in Seq(Nat)
    /\ total \in Nat \cup {None}
    /\ staged \in Nat \cup {None}
    /\ sent \in Nat
    /\ dest \in Nat \cup {None}
    /\ temp \in Nat \cup {None}
    /\ st \in [Procs -> {"absent", "new", "run", "eof", "leave", "exited"}]
    /\ code \in [Procs -> {0, 1}]
    /\ req \in [Procs -> {None} \cup [target : Hosts, remaining : Seq(Hosts)]]
    /\ host \in [Procs -> Hosts \cup {Entry, None}]
    /\ up \in [Procs -> 0 .. Cap]
    /\ eof \in [Procs -> BOOLEAN]
    /\ down \in [Procs -> 0 .. Cap]
    /\ feeder \in [{0} \cup Procs -> {"none", "copy", "done", "failed"}]
    /\ left \in Nat
    /\ lost \in {0, None} \cup Procs
    /\ cli \in Ends
    /\ srv \in Ends

Init ==
    /\ via \in Configs
    /\ job \in Jobs
    /\ main = IF job.source \in {"ssh", "hop"} THEN "size" ELSE "resolve"
    /\ result = None
    /\ route = <<>>
    /\ size \in Sizes
    /\ seen = <<size>>
    /\ edits = 0
    /\ read = <<>>
    /\ total = None
    /\ staged = None
    /\ sent = 0
    /\ dest = None
    /\ temp = None
    /\ st = [i \in Procs |-> "absent"]
    /\ code = [i \in Procs |-> 0]
    /\ req = [i \in Procs |-> None]
    /\ host = [i \in Procs |-> None]
    /\ up = [i \in Procs |-> 0]
    /\ eof = [i \in Procs |-> FALSE]
    /\ down = [i \in Procs |-> 0]
    /\ feeder = [i \in {0} \cup Procs |-> "none"]
    /\ left = 0
    /\ lost = None
    /\ cli = [left |-> IF Tunnel THEN size ELSE 0, got |-> 0, closed |-> FALSE, eof |-> FALSE]
    /\ srv = [left |-> IF Tunnel THEN 1 ELSE 0, got |-> 0, closed |-> FALSE, eof |-> FALSE]

-----------------------------------------------------------------------------
\* The source file

Input == IF staged # None THEN staged ELSE size

\* Somebody rewrites the source in place, truncates it or lets it grow, while it is
\* copied.  The new version may have the size of the old one.
Edit ==
    /\ ~Tunnel
    /\ main # "done"
    /\ staged = None \/ main = "download"
    /\ edits < MaxEdits
    /\ \E n \in Sizes : size' = n /\ seen' = Append(seen, n)
    /\ edits' = edits + 1
    /\ UNCHANGED <<jobVars, main, result, route, read, total, staged, sent, destVars,
                   procVars, linkVars, lost, tcpVars>>

\* A read of the source meets the version it has then.
Meet == read' = Append(read, edits) /\ UNCHANGED <<size, seen, edits>>

\* An upload reads the source only when it has no staged copy of it.
MeetLocal == IF job.source = "local" THEN Meet ELSE UNCHANGED fileVars

\* Wrong variant: the error is returned before the staged file is removed.
StopAtOnce(outcome, kept) ==
    /\ main' = "done"
    /\ result' = outcome
    /\ staged' = IF outcome = "ok" THEN kept ELSE staged
    /\ UNCHANGED <<jobVars, route, fileVars, total, sent>>

\* The command returns.  copy removes the staged file whatever the result.
Stop(outcome, kept) ==
    /\ main' = "done"
    /\ result' = outcome
    /\ staged' = kept
    /\ UNCHANGED <<jobVars, route, fileVars, total, sent>>

chainVars == <<procVars, linkVars, tcpVars>>

AskSize ==
    /\ main = "size"
    /\ main' = "download"
    /\ total' = size
    /\ staged' = 0
    /\ Meet
    /\ UNCHANGED <<jobVars, result, route, sent, destVars, chainVars, lost>>

DownloadChunk ==
    /\ main = "download"
    /\ staged < size
    /\ staged' = staged + 1
    /\ Meet
    /\ UNCHANGED <<jobVars, main, result, route, total, sent, destVars, chainVars, lost>>

\* The remote cat met the end of the file.  Only an exec-hop download compares
\* what came with what was announced.
DownloadEnds ==
    /\ main = "download"
    /\ staged >= size
    /\ \/ /\ job.source = "hop" => staged = total
          /\ main' = "resolve"
          /\ Meet
          /\ UNCHANGED <<jobVars, result, route, total, staged, sent>>
       \/ /\ job.source = "hop" /\ staged # total
          /\ Stop("error", None)
    /\ UNCHANGED <<destVars, chainVars, lost>>

\* The first connection, `wc` or cat fails: a status, after which the staged file goes.
DownloadFails ==
    /\ main \in {"size", "download"}
    /\ "read_error" \in Faults
    /\ Stop("error", None)
    /\ UNCHANGED <<destVars, chainVars, lost>>

\* The connection to the entry host or to the plain host breaks: no status.  An
\* exec-hop download leaves by `?`, before its remove_file.
DownloadBreaks ==
    /\ main = "download"
    /\ lost = None
    /\ "connection_lost" \in Faults
    /\ lost' = 0
    /\ Stop("error", IF job.source = "hop" THEN staged ELSE None)
    /\ UNCHANGED <<destVars, chainVars>>

\* write_local_file: fs::copy to NAME.binport-part-PID, then the rename.
CopyToPart ==
    /\ main = "resolve"
    /\ job.wanted = Local
    /\ temp = None
    /\ temp' = staged
    /\ UNCHANGED <<jobVars, main, result, route, fileVars, total, staged, sent, dest,
                   chainVars, lost>>

RenamePart ==
    /\ main = "resolve"
    /\ job.wanted = Local
    /\ temp # None
    /\ dest' = temp
    /\ temp' = None
    /\ Stop("ok", None)
    /\ UNCHANGED <<chainVars, lost>>

LocalWriteFails ==
    /\ main = "resolve"
    /\ job.wanted = Local
    /\ "script_fails" \in Faults
    /\ Stop("error", None)
    /\ UNCHANGED <<destVars, chainVars, lost>>

-----------------------------------------------------------------------------
\* The chain

\* One turn of resolve_host_chain.  A host met before, or a route that is too
\* long, ends the command before anything is dialled.
Resolve ==
    /\ main = "resolve"
    /\ job.wanted # Local
    /\ LET current == IF route = <<>> THEN job.wanted ELSE via[Head(route)] IN
       \/ /\ current = Entry
          /\ main' = "start"
          /\ UNCHANGED <<jobVars, result, route, fileVars, total, staged, sent>>
       \/ /\ current # Entry
          /\ current \in Range(route) \/ Len(route) = MaxHops
          /\ Stop("error", None)
       \/ /\ current # Entry
          /\ current \notin Range(route) /\ Len(route) < MaxHops
          /\ route' = <<current>> \o route
          /\ UNCHANGED <<jobVars, main, result, fileVars, total, staged, sent>>
    /\ UNCHANGED <<destVars, chainVars, lost>>

\* Wrong variant: the next target is read but not taken from the list.
Onward(rest) ==
    IF rest = <<>> THEN None ELSE [target |-> Head(rest), remaining |-> rest]

\* The request for the next helper, which is without what it takes from the list.
NextRequest(rest) ==
    IF rest = <<>> THEN None ELSE [target |-> Head(rest), remaining |-> Tail(rest)]

\* The client connects to the entry host and executes there the helper, with the
\* request header ahead of the payload, or the upload shell itself.
Start ==
    /\ main = "start"
    /\ main' = "await"
    /\ total' = IF Tunnel THEN None ELSE Input
    /\ MeetLocal
    /\ st' = [st EXCEPT ![1] = IF route = <<>> THEN "run" ELSE "new"]
    /\ host' = [host EXCEPT ![1] = Entry]
    /\ req' = [req EXCEPT ![1] = NextRequest(route)]
    /\ temp' = IF route = <<>> THEN 0 ELSE None
    /\ feeder' = [feeder EXCEPT ![0] = "copy"]
    /\ UNCHANGED <<jobVars, result, route, staged, sent, dest, code, left, linkVars, lost,
                   tcpVars>>

StartFails ==
    /\ main = "start"
    /\ "refused" \in Faults
    /\ Stop("error", None)
    /\ UNCHANGED <<destVars, chainVars, lost>>

Rest(i) == req[i].remaining

mainVars == <<jobVars, main, result, route, fileVars, total, staged, sent>>

\* A helper read its request and reached its target.  With hosts remaining it
\* starts itself there with the next request; otherwise it runs the command.
Connect(i) ==
    /\ st[i] = "new"
    /\ req[i] # None
    /\ host' = [host EXCEPT ![i + 1] = req[i].target]
    /\ req' = [req EXCEPT ![i + 1] = NextRequest(Rest(i))]
    /\ st' = [st EXCEPT ![i] = "run",
                        ![i + 1] = IF Rest(i) = <<>> /\ ~Tunnel THEN "run" ELSE "new"]
    /\ feeder' = [feeder EXCEPT ![i] = "copy"]
    /\ \/ /\ Rest(i) = <<>> /\ ~Tunnel
          /\ temp' = 0
          /\ left' = total
       \/ /\ Rest(i) # <<>> \/ Tunnel
          /\ UNCHANGED <<temp, left>>
    /\ UNCHANGED <<mainVars, dest, code, linkVars, lost, tcpVars>>

\* binport-hop --connect reached the service.
Dial ==
    /\ Tunnel
    /\ st[Tip] = "new"
    /\ req[Tip] = None
    /\ st' = [st EXCEPT ![Tip] = "run"]
    /\ feeder' = [feeder EXCEPT ![Tip] = "copy"]
    /\ UNCHANGED <<mainVars, destVars, code, req, host, left, linkVars, lost, tcpVars>>

\* Process i is on its way out with an exit status.
Leaves(i, status) ==
    /\ st' = [st EXCEPT ![i] = "leave"]
    /\ code' = [code EXCEPT ![i] = status]

ConnectFails(i) ==
    /\ st[i] = "new"
    /\ "refused" \in Faults
    /\ Leaves(i, 1)
    /\ UNCHANGED <<mainVars, destVars, req, host, feeder, left, linkVars, lost, tcpVars>>

-----------------------------------------------------------------------------
\* Towards the command

\* A process that is writing to a full stdout does not poll its child.
Blocked(i) == i > 0 /\ down[i + 1] > 0 /\ down[i] = Cap

\* The helper that runs the upload command passes on as many chunks as announced.
Counts(i) == ~Tunnel /\ i > 0 /\ i = Tip - 1

\* Whether the feeder of helper i met the end of what it has to pass on.
FeederEnds(i) == IF Counts(i) THEN left = 0 ELSE up[i] = 0 /\ eof[i]

Feeding(i) == i < Tip /\ st[i] = "run" /\ feeder[i] = "copy" /\ ~Blocked(i)

\* The client reads a chunk of the file, or of its TCP client, and sends it.
Send ==
    /\ main = "await"
    /\ feeder[0] = "copy"
    /\ up[1] < Cap
    /\ up' = [up EXCEPT ![1] = @ + 1]
    /\ \/ /\ ~Tunnel /\ sent < Input
          /\ sent' = sent + 1
          /\ UNCHANGED cli
       \/ /\ Tunnel /\ cli.left > 0
          /\ cli' = [cli EXCEPT !.left = @ - 1]
          /\ UNCHANGED sent
    /\ MeetLocal
    /\ UNCHANGED <<jobVars, main, result, route, total, staged, destVars, procVars, eof, down,
                   lost, srv>>

\* The end of the input: the TCP client shuts down its side when it is done, or
\* when the server was.
SendEof ==
    /\ main = "await"
    /\ feeder[0] = "copy"
    /\ IF Tunnel THEN cli.left = 0 /\ (job.waits => cli.eof) ELSE sent >= Input
    /\ cli' = [cli EXCEPT !.closed = Tunnel]
    /\ eof' = [eof EXCEPT ![1] = TRUE]
    /\ feeder' = [feeder EXCEPT ![0] = "done"]
    /\ MeetLocal
    /\ UNCHANGED <<jobVars, main, result, route, total, staged, sent, destVars, st, code, req,
                   host, left, up, down, lost, srv>>

\* The read of the file or of the TCP client fails.  The feeders of
\* execute_with_prefix_file and relay_tcp leave by `?`: no end of input is sent.  The
\* upload to a plain host sends it in any case, and the remote cat takes it for the end.
LocalReadFails ==
    /\ main = "await"
    /\ feeder[0] = "copy"
    /\ (IF Tunnel THEN "tcp_error" ELSE "read_error") \in Faults
    /\ feeder' = [feeder EXCEPT ![0] = "failed"]
    /\ eof' = [eof EXCEPT ![1] = @ \/ route = <<>>]
    /\ UNCHANGED <<mainVars, destVars, st, code, req, host, left, up, down, lost, tcpVars>>

\* Wrong variant: the channel to the child has no bound.
ForwardUpAtOnce(i) ==
    /\ Feeding(i)
    /\ ~FeederEnds(i)
    /\ up[i] > 0
    /\ up' = [up EXCEPT ![i] = @ - 1, ![i + 1] = @ + 1]
    /\ left' = IF Counts(i) THEN left - 1 ELSE left
    /\ UNCHANGED <<mainVars, destVars, st, code, req, host, feeder, eof, down, lost, tcpVars>>

ForwardUp(i) ==
    /\ Feeding(i)
    /\ ~FeederEnds(i)
    /\ up[i] > 0
    /\ up[i + 1] < Cap
    /\ up' = [up EXCEPT ![i] = @ - 1, ![i + 1] = @ + 1]
    /\ left' = IF Counts(i) THEN left - 1 ELSE left
    /\ UNCHANGED <<mainVars, destVars, st, code, req, host, feeder, eof, down, lost, tcpVars>>

\* Wrong variant: the feeder drops its sender without the empty message.
ForwardNoEof(i) ==
    /\ Feeding(i)
    /\ FeederEnds(i)
    /\ feeder' = [feeder EXCEPT ![i] = "done"]
    /\ UNCHANGED <<mainVars, destVars, st, code, req, host, left, linkVars, lost, tcpVars>>

ForwardEof(i) ==
    /\ Feeding(i)
    /\ FeederEnds(i)
    /\ eof' = [eof EXCEPT ![i + 1] = TRUE]
    /\ feeder' = [feeder EXCEPT ![i] = "done"]
    /\ UNCHANGED <<mainVars, destVars, st, code, req, host, left, up, down, lost, tcpVars>>

\* Wrong variant: the end of input is sent whatever the feeder met.
ShortStdinWithEof(i) ==
    /\ Feeding(i)
    /\ Counts(i)
    /\ left > 0
    /\ up[i] = 0
    /\ eof[i]
    /\ eof' = [eof EXCEPT ![i + 1] = TRUE]
    /\ feeder' = [feeder EXCEPT ![i] = "failed"]
    /\ UNCHANGED <<mainVars, destVars, st, code, req, host, left, up, down, lost, tcpVars>>

\* "hop stdin payload ended before the declared length": no end of input either.
ShortStdin(i) ==
    /\ Feeding(i)
    /\ Counts(i)
    /\ left > 0
    /\ up[i] = 0
    /\ eof[i]
    /\ feeder' = [feeder EXCEPT ![i] = "failed"]
    /\ UNCHANGED <<mainVars, destVars, st, code, req, host, left, linkVars, lost, tcpVars>>

\* The upload shell: cat >"$tmp" && mv -f -- "$tmp" "$dest".
CatChunk ==
    /\ ~Tunnel
    /\ st[Tip] = "run"
    /\ up[Tip] > 0
    /\ up' = [up EXCEPT ![Tip] = @ - 1]
    /\ temp' = temp + 1
    /\ UNCHANGED <<mainVars, dest, procVars, eof, down, lost, tcpVars>>

CatEnds ==
    /\ ~Tunnel
    /\ st[Tip] = "run"
    /\ up[Tip] = 0
    /\ eof[Tip]
    /\ st' = [st EXCEPT ![Tip] = "eof"]
    /\ UNCHANGED <<mainVars, destVars, code, req, host, feeder, left, linkVars, lost, tcpVars>>

Move ==
    /\ ~Tunnel
    /\ st[Tip] = "eof"
    /\ dest' = temp
    /\ temp' = None
    /\ Leaves(Tip, 0)
    /\ UNCHANGED <<mainVars, req, host, feeder, left, linkVars, lost, tcpVars>>

\* The trap is cleared before the exit: the temporary stays.
ScriptFails ==
    /\ ~Tunnel
    /\ st[Tip] \in {"run", "eof"}
    /\ "script_fails" \in Faults
    /\ Leaves(Tip, 1)
    /\ UNCHANGED <<mainVars, destVars, req, host, feeder, left, linkVars, lost, tcpVars>>

\* run_connect copies its stdin to the service, and shuts the socket down for
\* writing at the end of it.
Upstream ==
    /\ Tunnel
    /\ st[Tip] = "run"
    /\ feeder[Tip] = "copy"
    /\ \/ /\ up[Tip] > 0
          /\ up' = [up EXCEPT ![Tip] = @ - 1]
          /\ srv' = [srv EXCEPT !.got = @ + 1]
          /\ UNCHANGED feeder
       \/ /\ up[Tip] = 0
          /\ eof[Tip]
          /\ srv' = [srv EXCEPT !.eof = TRUE]
          /\ feeder' = [feeder EXCEPT ![Tip] = "done"]
          /\ UNCHANGED up
    /\ UNCHANGED <<mainVars, destVars, st, code, req, host, left, eof, down, lost, cli>>

-----------------------------------------------------------------------------
\* Back from the command

Downstream ==
    /\ Tunnel
    /\ st[Tip] = "run"
    /\ srv.left > 0
    /\ down[Tip] < Cap
    /\ srv' = [srv EXCEPT !.left = @ - 1]
    /\ down' = [down EXCEPT ![Tip] = @ + 1]
    /\ UNCHANGED <<mainVars, destVars, procVars, up, eof, lost, cli>>

\* The service shuts down its side, whether it has met the end of input or not.
ServiceCloses ==
    /\ Tunnel
    /\ st[Tip] = "run"
    /\ srv.left = 0
    /\ ~srv.closed
    /\ srv' = [srv EXCEPT !.closed = TRUE]
    /\ UNCHANGED <<mainVars, destVars, procVars, linkVars, lost, cli>>

\* The end of downstream ends run_connect, also when upstream is still copying:
\* dropping the socket closes the other direction with it.
DownstreamEnds ==
    /\ Tunnel
    /\ st[Tip] = "run"
    /\ srv.closed
    /\ srv' = [srv EXCEPT !.eof = TRUE]
    /\ Leaves(Tip, 0)
    /\ UNCHANGED <<mainVars, destVars, req, host, feeder, left, linkVars, lost, cli>>

ForwardDown(i) ==
    /\ i < Tip
    /\ st[i] = "run"
    /\ down[i + 1] > 0
    /\ down[i] < Cap
    /\ down' = [down EXCEPT ![i] = @ + 1, ![i + 1] = @ - 1]
    /\ UNCHANGED <<mainVars, destVars, procVars, up, eof, lost, tcpVars>>

Receive ==
    /\ main = "await"
    /\ Tunnel
    /\ down[1] > 0
    /\ down' = [down EXCEPT ![1] = @ - 1]
    /\ cli' = [cli EXCEPT !.got = @ + 1]
    /\ UNCHANGED <<mainVars, destVars, procVars, up, eof, lost, srv>>

\* The write to the TCP client fails, or its shutdown at the end: relay_tcp returns by
\* `?` and drops the execution, which the library may or may not take for a reason to
\* close the channel; the feeder meets the end of its channel.
ReceiveFails ==
    /\ main = "await"
    /\ Tunnel
    /\ down[1] > 0 \/ st[1] = "exited"
    /\ "tcp_error" \in Faults
    /\ Stop("error", None)
    /\ feeder' = [feeder EXCEPT ![0] = IF @ = "copy" THEN "failed" ELSE @]
    /\ eof' \in {eof, [eof EXCEPT ![1] = TRUE]}
    /\ cli' = [cli EXCEPT !.eof = TRUE]
    /\ UNCHANGED <<destVars, st, code, req, host, left, up, down, lost, srv>>

\* The connection to the service breaks: run_connect returns the error of the write, or
\* that of the read with its read of stdin still pending.
ServiceFails ==
    /\ Tunnel
    /\ st[Tip] = "run"
    /\ "tcp_error" \in Faults
    /\ Leaves(Tip, 1)
    /\ \/ /\ feeder[Tip] = "copy" /\ up[Tip] > 0
          /\ feeder' = [feeder EXCEPT ![Tip] = "failed"]
       \/ UNCHANGED feeder
    /\ UNCHANGED <<mainVars, destVars, req, host, left, linkVars, lost, tcpVars>>

-----------------------------------------------------------------------------
\* Endings

\* A tokio runtime is dropped only after the blocking read of stdin returned.
PendingRead(i) == feeder[i] = "copy" /\ up[i] = 0 /\ ~eof[i]

\* Process i is gone, and with it its connection to the child: the child's stdin ends.
Exit(i) ==
    /\ st[i] = "leave"
    /\ ~PendingRead(i)
    /\ st' = [st EXCEPT ![i] = "exited"]
    /\ eof' = [j \in Procs |-> eof[j] \/ j = i + 1]
    /\ UNCHANGED <<mainVars, destVars, code, req, host, feeder, left, up, down, lost, tcpVars>>

\* Wrong variant: the loop ends with the execution and drains nothing.
ChildHasExited(i) == i < Tip /\ st[i] = "run" /\ st[i + 1] = "exited"

\* The execution is complete and what it had written is passed on.
ChildIsOver(i) == i < Tip /\ st[i] = "run" /\ st[i + 1] = "exited" /\ down[i + 1] = 0

\* A relay takes its child's status at once; the helper of an upload first waits
\* for its feeder, whose next send fails.
ChildExited(i) ==
    /\ ChildIsOver(i)
    /\ \/ /\ ~Counts(i)
          /\ Leaves(i, code[i + 1])
       \/ /\ Counts(i)
          /\ feeder[i] = "done" \/ (feeder[i] = "copy" /\ left = 0)
          /\ Leaves(i, code[i + 1])
       \/ /\ Counts(i)
          /\ \/ feeder[i] = "failed"
             \/ feeder[i] = "copy" /\ left > 0 /\ (up[i] > 0 \/ eof[i])
          /\ Leaves(i, 1)
    /\ UNCHANGED <<mainVars, destVars, req, host, feeder, left, linkVars, lost, tcpVars>>

\* The client has the helper's status.  A feeder with chunks left fails on its
\* send, also when the announced length was complete.
Finish ==
    /\ main = "await"
    /\ st[1] = "exited"
    /\ down[1] = 0
    /\ LET fed == feeder[0] = "done" \/ (feeder[0] = "copy" /\ sent >= Input)
       IN  Stop(IF code[1] = 0 /\ (Tunnel \/ fed) THEN "ok" ELSE "error", None)
    /\ cli' = [cli EXCEPT !.eof = Tunnel]
    /\ UNCHANGED <<destVars, procVars, linkVars, lost, srv>>

\* The connection under link i breaks: what was on its way may be lost, the
\* process sees the end of its stdin, and the one above fails.
LinkBreaks(i) ==
    /\ "connection_lost" \in Faults
    /\ lost = None
    /\ main = "await"
    /\ st[i] \in {"new", "run", "eof"}
    /\ i > 1 => st[i - 1] = "run"
    /\ lost' = i
    /\ eof' = [eof EXCEPT ![i] = TRUE]
    /\ \E n \in 0 .. up[i] : up' = [up EXCEPT ![i] = n]
    /\ down' = [down EXCEPT ![i] = 0]
    /\ \/ /\ i = 1
          /\ Stop("error", None)
          /\ cli' = [cli EXCEPT !.eof = Tunnel]
          /\ UNCHANGED <<st, code>>
       \/ /\ i > 1
          /\ Leaves(i - 1, 1)
          /\ UNCHANGED <<mainVars, cli>>
    /\ UNCHANGED <<destVars, req, host, feeder, left, srv>>

\* A helper whose output has nowhere to go fails on the write.
WriteFails(i) ==
    /\ st[i] = "run"
    /\ lost = i
    /\ down[i] > 0 \/ (i < Tip /\ down[i + 1] > 0)
    /\ Leaves(i, 1)
    /\ down' = [down EXCEPT ![i] = 0]
    /\ UNCHANGED <<mainVars, destVars, req, host, feeder, left, up, eof, lost, tcpVars>>

File ==
    \/ Edit \/ AskSize \/ DownloadChunk \/ DownloadEnds \/ DownloadFails
    \/ DownloadBreaks \/ CopyToPart \/ RenamePart \/ LocalWriteFails

Client ==
    \/ Resolve \/ Start \/ StartFails \/ Send \/ SendEof \/ LocalReadFails
    \/ Receive \/ ReceiveFails \/ Finish

Helper(i) ==
    \/ Connect(i) \/ ConnectFails(i) \/ ForwardUp(i) \/ ForwardEof(i) \/ ShortStdin(i)
    \/ ForwardDown(i) \/ ChildExited(i) \/ WriteFails(i) \/ Exit(i)

Command ==
    \/ CatChunk \/ CatEnds \/ Move \/ ScriptFails
    \/ Dial \/ Upstream \/ Downstream \/ ServiceCloses \/ DownstreamEnds \/ ServiceFails

Next ==
    \/ File \/ Client \/ Command
    \/ \E i \in Procs : Helper(i) \/ LinkBreaks(i)

Spec == Init /\ [][Next]_vars

\* Scheduled tasks run, live connections deliver, the TCP client and the service
\* finish.  Faults and edits need not happen.
Progress ==
    \/ AskSize \/ DownloadChunk \/ DownloadEnds \/ CopyToPart \/ RenamePart
    \/ Resolve \/ Start \/ Send \/ SendEof \/ Receive \/ Finish
    \/ CatChunk \/ CatEnds \/ Move
    \/ Dial \/ Upstream \/ Downstream \/ ServiceCloses \/ DownstreamEnds
    \/ \E i \in Procs : \/ Connect(i) \/ ForwardUp(i) \/ ForwardEof(i) \/ ShortStdin(i)
                        \/ ForwardDown(i) \/ ChildExited(i) \/ WriteFails(i) \/ Exit(i)

FairSpec == Spec /\ WF_vars(Progress)

-----------------------------------------------------------------------------
\* Properties

\* The exec-hop protocol announces the length somewhere on the way: by `wc -c`
\* before a download, in the header of an upload.
Announced == job.source = "hop" \/ (job.source = "local" /\ route # <<>>)

\* A file of n chunks, the first n that were read, is version v of the source: it has
\* its size, and each chunk was read from it.
IsVersion(n, v) ==
    /\ n = seen[v + 1]
    /\ n < Len(read)
    /\ \A k \in 1 .. n : read[k + 1] = v

\* The source changed between the moment its size was asked and the end of reading it.
ChangedMeanwhile == \E k \in DOMAIN read : read[k] # read[1]

\* What cp puts at the destination is one version of the source, of its size and with
\* every chunk from it, although the file changes before and after it is read, chunks
\* wait in several helpers and any link may break (README "Exec-hop": payloads are
\* streamed across all legs).  Two exceptions the code has.  A source that changes
\* while it is read may be installed torn, and reported as copied: nothing compares
\* contents (hop.rs:646, ssh.rs:600-611), and what the exec-hop protocol does compare,
\* there and at transfer.rs:359-360, is only the length, which is then the one that was
\* announced.  And a payload whose last leg (or local read, to a plain host) breaks off is
\* taken for whole by cat; the command then reports an error.
DestinationIsWhole ==
    dest # None =>
        \/ \E v \in 0 .. edits : IsVersion(dest, v)
        \/ ChangedMeanwhile /\ (Announced => dest = total)
        \/ (lost = Tip \/ feeder[0] = "failed") /\ result # "ok"

\* A chain dials every host from the one its ProxyJump names, and the command
\* runs on the host that was asked for: the requests that are popped hop by hop
\* (run_nested_exec, run_relay) agree with the configuration.
EveryLegKnowsItsHost ==
    /\ \A i \in 1 .. MaxHops :
            host[i + 1] # None => via[host[i + 1]] = host[i]
    /\ host[Tip] # None => host[Tip] = job.wanted \/ (Tunnel /\ route = <<>>)
    /\ \A i \in Procs : i > Tip => host[i] = None

\* Unless a connection breaks, its TCP client's included, a service meets the end of
\* input only after all its client sent, or after it closed its own side; and a client
\* told that its connection ended well has all the service sent.
EndOfStreamMeansAll ==
    /\ Tunnel /\ srv.eof /\ lost = None /\ feeder[0] # "failed" => srv.got = size \/ srv.closed
    /\ Tunnel /\ result = "ok" => cli.got = 1 /\ srv.closed

\* A copy leaves no staged file behind, except when the connection of an
\* exec-hop download breaks (download_remote_file returns by `?`), and one that
\* reports success leaves no temporary next to the destination.
StagingIsRemoved ==
    main = "done" =>
        /\ staged # None => job.source = "hop" /\ lost = 0
        /\ result = "ok" => temp = None

\* A copy or a connection ends, provided dials do, except in two ways the code has: a
\* feeder of the client or of a relay that fails sends no end of input, so that the
\* helper waits for a payload that is shorter than announced, or for a TCP client that
\* is gone; and a helper on its way out, because the service closed, refused or was
\* lost, is held for good by its own pending read of stdin when the TCP client waits
\* for the service.
HangsAreKnown ==
    \/ <>(main = "done" \/ \E i \in 0 .. MaxHops : i < Tip /\ feeder[i] = "failed")
    \/ <>[](Tunnel /\ job.waits /\ \E i \in Procs : st[i] = "leave" /\ PendingRead(i))

\* README: a tunnel through helpers preserves "TCP half-close behavior".  A
\* service that shuts down its side still gets what its client sends.
HalfClosePreserved ==
    Tunnel /\ srv.eof /\ lost = None => srv.got = size
=============================================================================
