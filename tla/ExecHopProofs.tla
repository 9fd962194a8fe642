--------------------------- MODULE ExecHopProofs ---------------------------
(***************************************************************************)
(* Machine-checked proofs about ExecHop: for every set of hosts, every     *)
(* configuration of their jump hosts, chains up to any MaxHops, files and  *)
(* streams of any size, links of any capacity, and all faults and edits.   *)
(***************************************************************************)
EXTENDS ExecHop, TLAPS, FiniteSetTheorems, SequenceTheorems

Gone(i) == st[i] \in {"leave", "exited"}
Good(i) == Gone(i) /\ code[i] = 0

\* The request that a chain along the route sends to process i.
Request(i) ==
    IF i = Tip THEN None
    ELSE [target |-> route[i], remaining |-> SubSeq(route, i + 1, Len(route))]

\* The route is the way from the entry host to the host that was asked for.
RouteInv ==
    /\ Len(route) <= MaxHops
    /\ \A k \in 1 .. Len(route) - 1 : via[route[k + 1]] = route[k]
    /\ route # <<>> => route[Len(route)] = job.wanted
    /\ main \in {"start", "await"} \/ st[1] # "absent" =>
           IF route = <<>> THEN job.wanted = Entry ELSE via[route[1]] = Entry

\* Nothing runs before the chain is known, and nothing at all in a copy to this machine.
EarlyInv ==
    /\ main \in {"size", "download", "resolve", "start"} =>
           sent = 0 /\ \A i \in Procs : st[i] = "absent"
    /\ job.wanted = Local => main \notin {"start", "await"} /\ \A i \in Procs : st[i] = "absent"
    /\ main = "await" => st[1] # "absent"
    /\ st[1] = "absent" => ~eof[1] /\ \A i \in Procs : st[i] = "absent"

\* One process of the chain: it is where the route wants it, with the request for the rest.
LegInv(i) ==
    /\ i > Tip => st[i] = "absent"
    /\ st[i] = "absent" => host[i] = None /\ up[i] = 0 /\ down[i] = 0
    /\ st[i] # "absent" => /\ host[i] = IF i = 1 THEN Entry ELSE route[i - 1]
                           /\ req[i] = Request(i)
    /\ st[i] = "eof" => i = Tip /\ ~Tunnel

\* Two neighbours: a helper starts the next process, and goes only after it, unless a
\* connection broke.
PairInv(i) ==
    /\ st[i] \in {"absent", "new"} => st[i + 1] = "absent" /\ ~eof[i + 1]
    /\ st[i] = "run" /\ i < Tip => st[i + 1] # "absent"
    /\ Gone(i) /\ i < Tip => \/ st[i + 1] \in {"absent", "exited"}
                             \/ lost = i + 1
                             \/ Tunnel /\ lost = i

ChainInv ==
    /\ RouteInv
    /\ EarlyInv
    /\ \A i \in Procs : LegInv(i)
    /\ \A i \in 1 .. MaxHops : PairInv(i)

\* Where a temporary is.
TempInv ==
    /\ Tunnel => temp = None
    /\ ~Tunnel /\ st[Tip] \in {"run", "eof"} => temp \in Nat

\* The size the command was told, and as much of it as it read from a source that it
\* always met in the same version.
Told(n) == total = seen[read[1] + 1] /\ Len(read) > n /\ (~ChangedMeanwhile => n <= total)

\* All of one version of the source, unless it changed while it was read.
Fine(n) == ChangedMeanwhile \/ \E v \in 0 .. edits : IsVersion(n, v)

\* What may be taken for the end of the payload.
Right(n) ==
    \/ \E v \in 0 .. edits : IsVersion(n, v)
    \/ ChangedMeanwhile /\ (Announced => n = total)

\* The versions of the source, and those the command met.
VersionInv ==
    /\ Len(seen) = edits + 1
    /\ seen[edits + 1] = size
    /\ \A k \in 1 .. Len(read) : read[k] \in 0 .. edits

\* The staged copy and the size that is announced.
FileInv ==
    /\ VersionInv
    /\ main \in {"size", "download"} => job.source \in {"ssh", "hop"}
    /\ job.source = "local" => staged = None
    /\ main = "size" \/ (job.source = "local" /\ main \in {"resolve", "start"}) => read = <<>>
    /\ main \in {"size", "download"} => temp = None
    /\ main = "download" => staged \in Nat /\ total \in Nat /\ Len(read) = staged + 1 /\ Told(staged)
    /\ main \in {"resolve", "start", "await"} /\ job.source \in {"ssh", "hop"} =>
           staged \in Nat /\ Fine(staged) /\ (job.source = "hop" => staged = total)
    /\ main = "await" /\ staged # None => sent <= staged
    /\ job.source = "local" /\ st[1] # "absent" => Told(sent)
    /\ ~Tunnel /\ st[1] # "absent" => total \in Nat /\ (job.source # "local" => Fine(total))
    /\ job.wanted = Local /\ main = "resolve" /\ temp # None => temp = staged

\* An upload through helpers: what was announced is installed, in flight or still to be counted.
CountedInv ==
    ~Tunnel /\ route # <<>> /\ st[Tip] \in {"run", "eof"} /\ lost # Tip =>
        /\ temp + up[Tip] + left = total
        /\ eof[Tip] => left = 0
        /\ st[Tip] = "eof" => up[Tip] = 0 /\ left = 0

\* An upload to a plain host: what was sent is installed or in flight.
PlainInv ==
    ~Tunnel /\ route = <<>> /\ st[1] \in {"run", "eof"} /\ lost # 1 =>
        /\ temp + up[1] = sent
        /\ eof[1] => \/ feeder[0] = "failed"
                     \/ feeder[0] = "done" /\ Right(sent)
        /\ st[1] = "eof" => up[1] = 0 /\ eof[1]

\* How processes end, and the command with them.
OutcomeInv ==
    /\ \A i \in 1 .. Tip : Good(i) =>
           \A j \in i + 1 .. Tip : Good(j) /\ st[j] = "exited" /\ down[j] = 0
    /\ srv.closed => srv.left = 0
    /\ Good(Tip) => IF Tunnel THEN srv.closed ELSE temp = None
    /\ result = "ok" => /\ main = "done"
                        /\ lost = None
                        /\ IF job.wanted = Local THEN temp = None
                           ELSE Good(1) /\ (Tunnel \/ feeder[0] # "failed")

LostInv ==
    /\ lost \in {0, 1} => main = "done" /\ result = "error"
    /\ lost \in Procs /\ lost > 1 => lost <= Tip /\ Gone(lost - 1) /\ code[lost - 1] = 1

\* The chunks on the links of one direction.
Chunks(f) == {c \in Procs \X (1 .. Cap) : c[2] <= f[c[1]]}

\* What the command wrote and what is on its way was read.
FedInv ==
    ~Tunnel /\ job.wanted # Local => Cardinality(Chunks(up)) + (IF temp = None THEN 0 ELSE temp) <= sent

\* The two streams of a tunnel: nothing is lost or invented, and the end of input follows
\* all of it, unless the client's own connection failed.
StreamInv ==
    Tunnel /\ lost = None =>
        /\ cli.left + Cardinality(Chunks(up)) + srv.got = size
        /\ srv.left + Cardinality(Chunks(down)) + cli.got = 1
        /\ ~srv.closed /\ feeder[0] # "failed" => \A i \in 1 .. Tip : eof[i] /\ st[i] \in {"new", "run"} =>
                              cli.left = 0 /\ \A j \in 1 .. i - 1 : up[j] = 0
        /\ srv.eof => srv.got = size \/ srv.closed \/ feeder[0] = "failed"
        /\ result = "ok" => down[1] = 0
        /\ main = "await" => feeder[0] # "none" /\ (feeder[0] = "done" => cli.left = 0)
        /\ srv.eof => st[1] # "absent"

QuietInv == ~Tunnel => \A i \in Procs : down[i] = 0

----------------------------------------------------------------------------
(* Facts about requests, routes and steps.                                 *)

LEMMA JobFacts ==
    ASSUME job \in Jobs
    PROVE  /\ job.wanted \in Hosts \cup {Entry, Local}
           /\ Tunnel => job.wanted \in Hosts
           /\ Tunnel <=> job.source \notin {"local", "ssh", "hop"}
  BY ExecHopAssumption DEF JobKinds, Tunnel

LEMMA Limits == MaxHops \in Nat \ {0} /\ Cap \in Nat \ {0} /\ MaxEdits \in Nat /\ Sizes \subseteq Nat /\ None \notin Nat
  BY ExecHopAssumption

LEMMA TipFacts ==
    ASSUME TypeOK, RouteInv
    PROVE  /\ MaxHops \in Nat \ {0} /\ Len(route) \in Nat
           /\ Tip \in Nat /\ Tip \in Procs /\ 1 \in Procs /\ Tip >= 1
           /\ Tip = 1 <=> route = <<>>
           /\ \A k \in 1 .. Len(route) : route[k] \in Hosts
           /\ \A i \in Procs : i \in Nat \ {0} /\ i <= MaxHops + 1 /\ i - 1 \in Nat
           /\ \A i \in Procs : i < Tip => i + 1 \in Procs /\ i \in 1 .. MaxHops
<1>1. route \in Seq(Hosts) /\ Len(route) \in Nat /\ Len(route) <= MaxHops
  BY DEF TypeOK, RouteInv
<1>2. MaxHops \in Nat \ {0} /\ Tip = Len(route) + 1
  BY Limits DEF Tip
<1>3. Tip = 1 <=> route = <<>>
  BY <1>1, <1>2
<1>4. \A k \in 1 .. Len(route) : route[k] \in Hosts
  BY <1>1
<1> QED
  BY <1>1, <1>2, <1>3, <1>4 DEF Procs

\* What the helpers, the command and the links never touch; and what the client never
\* touches before it has dialled.
LEMMA Untouched ==
    /\ Command => UNCHANGED mainVars
    /\ \A i \in Procs : Helper(i) => UNCHANGED mainVars
    /\ \A i \in Procs : LinkBreaks(i) => i = 1 \/ UNCHANGED mainVars
    /\ File => UNCHANGED chainVars
<1>1. Command => UNCHANGED mainVars
  BY DEF Command, CatChunk, CatEnds, Move, ScriptFails, Dial, Upstream, Downstream, ServiceCloses, DownstreamEnds, ServiceFails
<1>2. \A i \in Procs : Helper(i) => UNCHANGED mainVars
  BY DEF Helper, Connect, ConnectFails, ForwardUp, ForwardEof, ShortStdin, ForwardDown, ChildExited, WriteFails, Exit
<1>3. \A i \in Procs : LinkBreaks(i) => i = 1 \/ UNCHANGED mainVars
  BY DEF LinkBreaks
<1>4. File => UNCHANGED chainVars
  BY DEF File, Edit, AskSize, DownloadChunk, DownloadEnds, DownloadFails, DownloadBreaks, CopyToPart,
         RenamePart, LocalWriteFails, chainVars
<1> QED
  BY <1>1, <1>2, <1>3, <1>4

----------------------------------------------------------------------------
(* Types.                                                                  *)

MainOK ==
    /\ via \in Configs
    /\ job \in Jobs
    /\ main \in {"size", "download", "resolve", "start", "await", "done"}
    /\ result \in {None, "ok", "error"}
    /\ route \in Seq(Hosts)
    /\ size \in Nat
    /\ seen \in Seq(Nat)
    /\ edits \in 0 .. MaxEdits
    /\ read \in Seq(Nat)
    /\ total \in Nat \cup {None}
    /\ staged \in Nat \cup {None}
    /\ sent \in Nat

DestOK ==
    /\ dest \in Nat \cup {None}
    /\ temp \in Nat \cup {None}

ProcOK ==
    /\ st \in [Procs -> {"absent", "new", "run", "eof", "leave", "exited"}]
    /\ code \in [Procs -> {0, 1}]
    /\ req \in [Procs -> {None} \cup [target : Hosts, remaining : Seq(Hosts)]]
    /\ host \in [Procs -> Hosts \cup {Entry, None}]
    /\ feeder \in [{0} \cup Procs -> {"none", "copy", "done", "failed"}]
    /\ left \in Nat

LinkOK ==
    /\ up \in [Procs -> 0 .. Cap]
    /\ eof \in [Procs -> BOOLEAN]
    /\ down \in [Procs -> 0 .. Cap]

EndsOK ==
    /\ lost \in {0, None} \cup Procs
    /\ cli \in Ends
    /\ srv \in Ends

LEMMA TypeParts ==
    /\ TypeOK <=> MainOK /\ DestOK /\ ProcOK /\ LinkOK /\ EndsOK
    /\ TypeOK' <=> MainOK' /\ DestOK' /\ ProcOK' /\ LinkOK' /\ EndsOK'
  BY DEF TypeOK, MainOK, DestOK, ProcOK, LinkOK, EndsOK

\* What the client knows.
LEMMA MainTypes ==
    ASSUME TypeOK, ChainInv, FileInv, Next
    PROVE  MainOK'
<1>0. MainOK
  BY TypeParts
<1>a. ASSUME UNCHANGED mainVars PROVE MainOK'
  BY <1>0, <1>a DEF mainVars, jobVars, fileVars, MainOK
<1>b. ASSUME NEW o \in {"ok", "error"}, NEW k \in Nat \cup {None}, Stop(o, k) PROVE MainOK'
  BY <1>0, <1>b DEF Stop, jobVars, fileVars, MainOK
<1>c. Append(read, edits) \in Seq(Nat)
  BY <1>0 DEF MainOK
<1>1. CASE Edit
  <2>1. size' \in Nat /\ seen' \in Seq(Nat)
    BY <1>0, <1>1, Limits DEF Edit, MainOK
  <2>2. edits' \in 0 .. MaxEdits
    BY <1>0, <1>1, Limits DEF Edit, MainOK
  <2> QED
    BY <1>0, <1>1, <2>1, <2>2 DEF Edit, MainOK, jobVars
<1>2. CASE AskSize
  BY <1>0, <1>2, <1>c DEF AskSize, Meet, MainOK, jobVars
<1>3. CASE DownloadChunk
  BY <1>0, <1>3, <1>c DEF DownloadChunk, Meet, MainOK, jobVars, FileInv
<1>4. CASE DownloadEnds
  BY <1>0, <1>4, <1>b, <1>c DEF DownloadEnds, Meet, MainOK, jobVars
<1>5. CASE DownloadFails \/ DownloadBreaks \/ RenamePart \/ LocalWriteFails \/ StartFails
  BY <1>0, <1>5, <1>b DEF DownloadFails, DownloadBreaks, RenamePart, LocalWriteFails, StartFails, MainOK
<1>6. CASE CopyToPart
  BY <1>0, <1>6 DEF CopyToPart, MainOK, jobVars, fileVars
<1>7. CASE Resolve
  <2>1. CASE Stop("error", None)
    BY <2>1, <1>b
  <2>2. CASE ~Stop("error", None)
    <3> DEFINE current == IF route = <<>> THEN job.wanted ELSE via[Head(route)]
    <3>1. current \in Hosts \cup {Entry}
      <4>1. CASE route = <<>>
        BY <1>0, <1>7, <4>1, JobFacts DEF Resolve, MainOK
      <4>2. CASE route # <<>>
        <5>1. Head(route) \in Hosts /\ via \in [Hosts -> Hosts \cup {Entry}]
          BY <1>0, <4>2, ExecHopAssumption DEF MainOK
        <5> QED
          BY <4>2, <5>1
      <4> QED
        BY <4>1, <4>2
    <3>2. CASE current = Entry
      BY <1>0, <1>7, <2>2, <3>2 DEF Resolve, MainOK, jobVars, fileVars
    <3>3. CASE current # Entry
      <4>1. current \in Hosts /\ route' = <<current>> \o route
        BY <1>7, <2>2, <3>1, <3>3 DEF Resolve
      <4>2. route' \in Seq(Hosts)
        BY <1>0, <4>1 DEF MainOK
      <4> QED
        BY <1>0, <1>7, <2>2, <3>3, <4>2 DEF Resolve, MainOK, jobVars, fileVars
    <3> QED
      BY <3>2, <3>3
  <2> QED
    BY <2>1, <2>2
<1>8. CASE Start
  BY <1>0, <1>8, <1>c DEF Start, MeetLocal, Meet, MainOK, jobVars, fileVars, Input
<1>d. ASSUME MeetLocal PROVE size' \in Nat /\ seen' \in Seq(Nat) /\ edits' \in 0 .. MaxEdits /\ read' \in Seq(Nat)
  BY <1>0, <1>c, <1>d DEF MeetLocal, Meet, MainOK, fileVars
<1>9. CASE Send
  <2>1. sent' \in Nat /\ UNCHANGED <<jobVars, main, result, route, total, staged>> /\ MeetLocal
    BY <1>0, <1>9 DEF Send, MainOK, fileVars, MeetLocal, Meet
  <2> QED
    BY <1>0, <1>d, <2>1 DEF MainOK, jobVars
<1>14. CASE SendEof
  <2>1. UNCHANGED <<jobVars, main, result, route, total, staged, sent>> /\ MeetLocal
    BY <1>14 DEF SendEof
  <2> QED
    BY <1>0, <1>d, <2>1 DEF MainOK, jobVars
<1>10. CASE LocalReadFails \/ Receive
  BY <1>10, <1>a DEF LocalReadFails, Receive
<1>11. CASE Finish \/ ReceiveFails
  BY <1>11, <1>b DEF Finish, ReceiveFails
<1>12. CASE Command \/ \E i \in Procs : Helper(i)
  BY <1>12, <1>a, Untouched
<1>13. ASSUME NEW i \in Procs, LinkBreaks(i) PROVE MainOK'
  BY <1>13, <1>a, <1>b DEF LinkBreaks
<1> QED
  BY <1>1, <1>2, <1>3, <1>4, <1>5, <1>6, <1>7, <1>8, <1>9, <1>10, <1>11, <1>12, <1>13, <1>14 DEF Next, File, Client

\* The files at the destination.
LEMMA DestTypes ==
    ASSUME TypeOK, ChainInv, TempInv, Next
    PROVE  DestOK'
<1>0. DestOK /\ MainOK
  BY TypeParts
<1>1. CASE CopyToPart \/ RenamePart
  BY <1>0, <1>1 DEF CopyToPart, RenamePart, DestOK, MainOK
<1>2. CASE Start
  BY <1>0, <1>2 DEF Start, DestOK
<1>3. ASSUME NEW i \in Procs, Connect(i) PROVE DestOK'
  BY <1>0, <1>3 DEF Connect, DestOK
<1>4. CASE CatChunk
  BY <1>0, <1>4 DEF CatChunk, TempInv, DestOK
<1>5. CASE Move
  BY <1>0, <1>5 DEF Move, DestOK
<1>6. CASE UNCHANGED destVars
  BY <1>0, <1>6 DEF destVars, DestOK
<1>7. CASE File \/ Client \/ Command
  BY <1>1, <1>2, <1>4, <1>5, <1>6, <1>7
     DEF File, Edit, AskSize, DownloadChunk, DownloadEnds, DownloadFails, DownloadBreaks, LocalWriteFails,
         Client, Resolve, StartFails, Send, SendEof, LocalReadFails, Receive, ReceiveFails, Finish,
         Command, CatEnds, ScriptFails, Dial, Upstream, Downstream, ServiceCloses, DownstreamEnds, ServiceFails, destVars
<1>8. ASSUME NEW i \in Procs, Helper(i) \/ LinkBreaks(i) PROVE DestOK'
  BY <1>3, <1>6, <1>8
     DEF Helper, ConnectFails, ForwardUp, ForwardEof, ShortStdin, ForwardDown, ChildExited, WriteFails, Exit,
         LinkBreaks, destVars
<1> QED
  BY <1>7, <1>8 DEF Next

\* A request for the rest of a route is one a helper can be sent.
LEMMA RequestTypes ==
    ASSUME NEW r \in Seq(Hosts)
    PROVE  NextRequest(r) \in {None} \cup [target : Hosts, remaining : Seq(Hosts)]
  BY DEF NextRequest

\* The processes of the chain.
LEMMA ProcTypes ==
    ASSUME TypeOK, ChainInv, FileInv, Next
    PROVE  ProcOK'
<1>0. MainOK /\ ProcOK /\ LinkOK /\ RouteInv
  BY TypeParts DEF ChainInv
<1>t. /\ Tip \in Procs /\ 1 \in Procs
      /\ \A i \in Procs : i # 0 /\ (i < Tip => i + 1 \in Procs) /\ (i > 1 => i - 1 \in Procs)
  BY TipFacts DEF ChainInv, Procs
<1>a. ASSUME UNCHANGED procVars PROVE ProcOK'
  BY <1>0, <1>a DEF procVars, ProcOK
<1>b. ASSUME NEW i \in Procs, NEW c \in {0, 1}, Leaves(i, c), UNCHANGED <<req, host, feeder, left>> PROVE ProcOK'
  BY <1>0, <1>b DEF Leaves, ProcOK
<1>1. CASE File \/ Resolve \/ StartFails \/ Send \/ Receive \/ Finish
  BY <1>1, <1>a, Untouched DEF chainVars, Resolve, StartFails, Send, Receive, ReceiveFails, Finish, procVars
<1>2. CASE Start
  <2>1. req' \in [Procs -> {None} \cup [target : Hosts, remaining : Seq(Hosts)]]
    <3>1. NextRequest(route) \in {None} \cup [target : Hosts, remaining : Seq(Hosts)]
      BY <1>0, RequestTypes DEF MainOK
    <3> QED
      BY <1>0, <1>2, <1>t, <3>1 DEF Start, ProcOK
  <2> QED
    BY <1>0, <1>2, <1>t, <2>1 DEF Start, ProcOK
<1>3. CASE SendEof \/ LocalReadFails \/ ReceiveFails
  BY <1>0, <1>3 DEF SendEof, LocalReadFails, ReceiveFails, ProcOK
<1>4. CASE CatChunk \/ Downstream \/ ServiceCloses
  BY <1>4, <1>a DEF CatChunk, Downstream, ServiceCloses, procVars
<1>5. CASE CatEnds \/ Dial \/ Upstream
  BY <1>0, <1>5, <1>t DEF CatEnds, Dial, Upstream, ProcOK
<1>6. CASE Move \/ ScriptFails \/ DownstreamEnds
  BY <1>6, <1>b, <1>t DEF Move, ScriptFails, DownstreamEnds
<1>13. CASE ServiceFails
  BY <1>0, <1>13, <1>t DEF ServiceFails, Leaves, ProcOK
<1>7. ASSUME NEW i \in Procs, Connect(i) PROVE ProcOK'
  <2>1. i < Tip /\ i + 1 \in Procs
    <3>1. LegInv(i) /\ Tip \in Nat /\ i \in Nat
      BY <1>t DEF ChainInv, Procs
    <3>2. ~(i > Tip) /\ i # Tip
      BY <3>1, <1>7 DEF Connect, LegInv, Request
    <3> QED
      BY <3>1, <3>2, <1>t
  <2>2. Rest(i) \in Seq(Hosts) /\ req[i].target \in Hosts
    BY <1>0, <1>7 DEF Connect, ProcOK, Rest
  <2>3. NextRequest(Rest(i)) \in {None} \cup [target : Hosts, remaining : Seq(Hosts)]
    BY <2>2, RequestTypes
  <2>4. left' \in Nat
    <3>1. st[1] # "absent"
      BY <1>7 DEF Connect, ChainInv, EarlyInv
    <3> QED
      BY <1>0, <1>7, <3>1 DEF Connect, ProcOK, FileInv
  <2> QED
    BY <1>0, <1>7, <2>1, <2>2, <2>3, <2>4 DEF Connect, ProcOK
<1>8. ASSUME NEW i \in Procs, ConnectFails(i) \/ ChildExited(i) \/ WriteFails(i) PROVE ProcOK'
  <2>1. ChildExited(i) => code[i + 1] \in {0, 1}
    BY <1>0, <1>t DEF ChildExited, ChildIsOver, ProcOK
  <2> QED
    BY <1>8, <1>b, <2>1 DEF ConnectFails, ChildExited, WriteFails
<1>9. ASSUME NEW i \in Procs, ForwardUp(i) PROVE ProcOK'
  <2>1. left' \in Nat
    BY <1>0, <1>9 DEF ForwardUp, FeederEnds, ProcOK
  <2> QED
    BY <1>0, <1>9, <2>1 DEF ForwardUp, ProcOK
<1>10. ASSUME NEW i \in Procs, ForwardEof(i) \/ ShortStdin(i) \/ Exit(i) PROVE ProcOK'
  BY <1>0, <1>10 DEF ForwardEof, ShortStdin, Exit, ProcOK
<1>11. ASSUME NEW i \in Procs, ForwardDown(i) PROVE ProcOK'
  BY <1>11, <1>a DEF ForwardDown, procVars
<1>12. ASSUME NEW i \in Procs, LinkBreaks(i) PROVE ProcOK'
  BY <1>12, <1>a, <1>b, <1>t DEF LinkBreaks, procVars
<1> QED
  BY <1>1, <1>2, <1>3, <1>4, <1>5, <1>6, <1>7, <1>8, <1>9, <1>10, <1>11, <1>12, <1>13 DEF Next, Client, Command, Helper

\* The links.
LEMMA LinkTypes ==
    ASSUME TypeOK, ChainInv, Next
    PROVE  LinkOK'
<1>0. MainOK /\ ProcOK /\ LinkOK /\ Cap \in Nat \ {0}
  BY TypeParts, Limits
<1>t. /\ Tip \in Procs /\ 1 \in Procs
      /\ \A i \in Procs : i # 0 /\ i \in Nat /\ (i < Tip => i + 1 \in Procs)
  BY TipFacts DEF ChainInv, Procs
<1>a. ASSUME UNCHANGED linkVars PROVE LinkOK'
  BY <1>0, <1>a DEF linkVars, LinkOK
<1>1. CASE File \/ Resolve \/ Start \/ StartFails \/ Finish
  BY <1>1, <1>a, Untouched DEF chainVars, Resolve, Start, StartFails, Finish
<1>2. CASE Send
  BY <1>0, <1>2, <1>t DEF Send, LinkOK
<1>11. CASE SendEof \/ LocalReadFails \/ ReceiveFails
  BY <1>0, <1>11, <1>t DEF SendEof, LocalReadFails, ReceiveFails, LinkOK
<1>3. CASE Receive \/ CatChunk \/ Upstream \/ Downstream
  BY <1>0, <1>3, <1>t DEF Receive, CatChunk, Upstream, Downstream, LinkOK
<1>4. CASE CatEnds \/ Move \/ ScriptFails \/ Dial \/ ServiceCloses \/ DownstreamEnds \/ ServiceFails
  BY <1>4, <1>a DEF CatEnds, Move, ScriptFails, Dial, ServiceCloses, DownstreamEnds, ServiceFails, linkVars
<1>5. ASSUME NEW i \in Procs, Connect(i) \/ ConnectFails(i) \/ ShortStdin(i) \/ ChildExited(i) PROVE LinkOK'
  BY <1>5, <1>a DEF Connect, ConnectFails, ShortStdin, ChildExited
<1>6. ASSUME NEW i \in Procs, ForwardUp(i) PROVE LinkOK'
  BY <1>0, <1>6, <1>t DEF ForwardUp, Feeding, LinkOK
<1>7. ASSUME NEW i \in Procs, ForwardDown(i) PROVE LinkOK'
  BY <1>0, <1>7, <1>t DEF ForwardDown, LinkOK
<1>8. ASSUME NEW i \in Procs, ForwardEof(i) PROVE LinkOK'
  BY <1>0, <1>8 DEF ForwardEof, LinkOK
<1>12. ASSUME NEW i \in Procs, WriteFails(i) PROVE LinkOK'
  BY <1>0, <1>12 DEF WriteFails, LinkOK
<1>9. ASSUME NEW i \in Procs, Exit(i) PROVE LinkOK'
  BY <1>0, <1>9 DEF Exit, LinkOK
<1>10. ASSUME NEW i \in Procs, LinkBreaks(i) PROVE LinkOK'
  BY <1>0, <1>10 DEF LinkBreaks, LinkOK
<1> QED
  BY <1>1, <1>2, <1>3, <1>4, <1>5, <1>6, <1>7, <1>8, <1>9, <1>10, <1>11, <1>12 DEF Next, Client, Command, Helper

\* The two ends of a tunnel.
LEMMA EndsTypes ==
    ASSUME TypeOK, Next
    PROVE  EndsOK'
<1>0. EndsOK
  BY TypeParts
<1>a. ASSUME UNCHANGED <<lost, tcpVars>> PROVE EndsOK'
  BY <1>0, <1>a DEF tcpVars, EndsOK
<1>1. CASE File
  BY <1>0, <1>1 DEF File, Edit, AskSize, DownloadChunk, DownloadEnds, DownloadFails, DownloadBreaks, CopyToPart,
         RenamePart, LocalWriteFails, chainVars, tcpVars, EndsOK
<1>2. CASE Resolve \/ Start \/ StartFails \/ LocalReadFails
  BY <1>2, <1>a DEF Resolve, Start, StartFails, LocalReadFails, chainVars, tcpVars
<1>3. CASE Send \/ SendEof \/ Receive \/ ReceiveFails \/ Finish
  <2>1. lost' = lost /\ srv' = srv
    BY <1>3 DEF Send, SendEof, Receive, ReceiveFails, Finish, tcpVars
  <2>2. cli \in Ends /\ Tunnel \in BOOLEAN
    BY <1>0 DEF EndsOK, Tunnel
  <2>3. cli' \in Ends
    <3>1. CASE Send \/ Receive
      BY <2>2, <3>1 DEF Send, Receive, Ends
    <3>2. CASE SendEof \/ ReceiveFails \/ Finish
      BY <2>2, <3>2 DEF SendEof, ReceiveFails, Finish, Ends
    <3> QED
      BY <1>3, <3>1, <3>2
  <2> QED
    BY <1>0, <2>1, <2>3 DEF EndsOK
<1>4. CASE Command
  <2>1. lost' = lost /\ cli' = cli
    BY <1>4 DEF Command, CatChunk, CatEnds, Move, ScriptFails, Dial, Upstream, Downstream, ServiceCloses,
                DownstreamEnds, ServiceFails, tcpVars
  <2>2. srv \in Ends
    BY <1>0 DEF EndsOK
  <2>3. srv' \in Ends
    <3>1. CASE srv' = srv
      BY <2>2, <3>1
    <3>2. CASE Upstream
      <4>1. srv' = [srv EXCEPT !.got = @ + 1] \/ srv' = [srv EXCEPT !.eof = TRUE]
        BY <3>2 DEF Upstream
      <4>2. [srv EXCEPT !.got = @ + 1] \in Ends
        BY <2>2 DEF Ends
      <4>3. [srv EXCEPT !.eof = TRUE] \in Ends
        BY <2>2 DEF Ends
      <4> QED
        BY <4>1, <4>2, <4>3
    <3>3. CASE Downstream
      <4>1. srv' = [srv EXCEPT !.left = @ - 1] /\ srv.left > 0
        BY <3>3 DEF Downstream
      <4> QED
        BY <4>1, <2>2 DEF Ends
    <3>4. CASE ServiceCloses \/ DownstreamEnds
      <4>1. srv' = [srv EXCEPT !.closed = TRUE] \/ srv' = [srv EXCEPT !.eof = TRUE]
        BY <3>4 DEF ServiceCloses, DownstreamEnds, ServiceFails
      <4> QED
        BY <4>1, <2>2 DEF Ends
    <3> QED
      BY <1>4, <3>1, <3>2, <3>3, <3>4 DEF Command, CatChunk, CatEnds, Move, ScriptFails, Dial, ServiceFails, tcpVars
  <2> QED
    BY <1>0, <2>1, <2>3 DEF EndsOK
<1>5. ASSUME NEW i \in Procs, Helper(i) PROVE EndsOK'
  BY <1>5, <1>a
     DEF Helper, Connect, ConnectFails, ForwardUp, ForwardEof, ShortStdin, ForwardDown, ChildExited, WriteFails,
         Exit, tcpVars
<1>6. ASSUME NEW i \in Procs, LinkBreaks(i) PROVE EndsOK'
  <2>1. cli \in Ends /\ Tunnel \in BOOLEAN
    BY <1>0 DEF EndsOK, Tunnel
  <2>2. cli' \in Ends
    BY <1>6, <2>1 DEF LinkBreaks, Ends
  <2> QED
    BY <1>0, <1>6, <2>2 DEF LinkBreaks, EndsOK
<1> QED
  BY <1>1, <1>2, <1>3, <1>4, <1>5, <1>6 DEF Next, Client

LEMMA TypeStep ==
    ASSUME TypeOK, ChainInv, FileInv, TempInv, Next
    PROVE  TypeOK'
  BY MainTypes, DestTypes, ProcTypes, LinkTypes, EndsTypes, TypeParts

----------------------------------------------------------------------------
(* The chain follows the route.                                            *)

Before == {"size", "download", "resolve", "start"}

\* What every step does to the chain, apart from the three that build it.
Steady ==
    /\ UNCHANGED <<via, job, route, host, req>>
    /\ \A j \in Procs : /\ st'[j] = "absent" <=> st[j] = "absent"
                        /\ st[j] = "absent" => up'[j] = up[j] /\ down'[j] = down[j]
                        /\ st'[j] = "eof" => st[j] = "eof" \/ (j = Tip /\ ~Tunnel)
    /\ eof'[1] => eof[1] \/ st[1] # "absent"
    /\ main' = "start" => main = "start"
    /\ main' = "await" => main = "await"
    /\ main' \in Before => main \in Before /\ sent' = sent

LEMMA OftenSteady ==
    ASSUME TypeOK, ChainInv, Next
    PROVE  Resolve \/ Start \/ (\E i \in Procs : Connect(i)) \/ Steady
<1>0. ProcOK /\ LinkOK
  BY TypeParts
<1>t. /\ Tip \in Procs /\ 1 \in Procs
      /\ \A i \in Procs : i # 0 /\ i \in Nat /\ (i < Tip => i + 1 \in Procs)
  BY TipFacts DEF ChainInv, Procs
<1>p. \A i \in Procs : st[i] = "run" /\ i < Tip => st[i + 1] # "absent"
  BY TipFacts DEF ChainInv, PairInv
<1>q. main = "await" => st[1] # "absent"
  BY DEF ChainInv, EarlyInv
<1>r. st[1] = "absent" => \A i \in Procs : st[i] = "absent"
  BY DEF ChainInv, EarlyInv
<1> DEFINE Alike == UNCHANGED <<via, job, route, st, host, req>>
<1>a. ASSUME Alike, UNCHANGED linkVars, main' = "start" => main = "start", main' = "await" => main = "await",
             main' \in Before => main \in Before /\ sent' = sent
      PROVE Steady
  BY <1>a DEF linkVars, Steady
<1>b. ASSUME NEW i \in Procs, NEW s \in {"run", "eof", "leave", "exited"}, st[i] # "absent", st' = [st EXCEPT ![i] = s],
             s = "eof" => i = Tip /\ ~Tunnel, UNCHANGED <<mainVars, host, req>>, eof' = eof, UNCHANGED up,
             \A j \in Procs : down'[j] = down[j] \/ st[j] # "absent"
      PROVE Steady
  BY <1>0, <1>b DEF mainVars, jobVars, Steady, ProcOK
<1>1. CASE File
  BY <1>1, <1>a, Untouched
     DEF File, Edit, AskSize, DownloadChunk, DownloadEnds, DownloadFails, DownloadBreaks, CopyToPart,
         RenamePart, LocalWriteFails, chainVars, jobVars, procVars, Stop, Before
<1>2. CASE StartFails \/ Finish
  BY <1>2, <1>a DEF StartFails, Finish, Stop, chainVars, jobVars, procVars, Before
<1>16. CASE ReceiveFails
  <2>1. eof'[1] => eof[1] \/ st[1] # "absent"
    BY <1>0, <1>16, <1>t, <1>q DEF ReceiveFails, LinkOK
  <2> QED
    BY <1>0, <1>16, <1>t, <2>1 DEF ReceiveFails, Stop, jobVars, Before, Steady
<1>17. CASE ServiceFails
  <2>1. UNCHANGED linkVars /\ st[Tip] = "run" /\ st' = [st EXCEPT ![Tip] = "leave"]
    BY <1>17 DEF ServiceFails, Leaves
  <2> QED
    BY <1>17, <1>b, <1>t, <2>1 DEF ServiceFails, linkVars
<1>3. CASE Send \/ Receive
  BY <1>0, <1>3, <1>t, <1>q DEF Send, Receive, mainVars, jobVars, procVars, Before, Steady, LinkOK
<1>4. CASE SendEof \/ LocalReadFails
  BY <1>0, <1>4, <1>t, <1>q DEF SendEof, LocalReadFails, mainVars, jobVars, Steady, LinkOK
<1>5. CASE CatChunk \/ Upstream \/ Downstream
  BY <1>0, <1>5, <1>t DEF CatChunk, Upstream, Downstream, mainVars, jobVars, procVars, Steady, LinkOK
<1>6. CASE ServiceCloses
  BY <1>6, <1>a DEF ServiceCloses, mainVars, jobVars, procVars
<1>7. CASE CatEnds \/ Move \/ ScriptFails \/ Dial \/ DownstreamEnds
  BY <1>7, <1>b, <1>t DEF CatEnds, Move, ScriptFails, Dial, DownstreamEnds, Leaves, linkVars
<1>8. ASSUME NEW i \in Procs, ConnectFails(i) \/ ChildExited(i) PROVE Steady
  BY <1>8, <1>b DEF ConnectFails, ChildExited, ChildIsOver, Leaves, linkVars
<1>9. ASSUME NEW i \in Procs, WriteFails(i) PROVE Steady
  BY <1>0, <1>9, <1>b DEF WriteFails, Leaves, LinkOK
<1>10. ASSUME NEW i \in Procs, ForwardUp(i) PROVE Steady
  BY <1>0, <1>10, <1>t, <1>p DEF ForwardUp, Feeding, mainVars, jobVars, Steady, LinkOK
<1>11. ASSUME NEW i \in Procs, ForwardDown(i) PROVE Steady
  BY <1>0, <1>11, <1>t, <1>p DEF ForwardDown, mainVars, jobVars, procVars, Steady, LinkOK
<1>12. ASSUME NEW i \in Procs, ForwardEof(i) PROVE Steady
  BY <1>0, <1>12, <1>t DEF ForwardEof, mainVars, jobVars, Steady, LinkOK
<1>13. ASSUME NEW i \in Procs, ShortStdin(i) PROVE Steady
  BY <1>13, <1>a DEF ShortStdin, mainVars, jobVars
<1>14. ASSUME NEW i \in Procs, Exit(i) PROVE Steady
  <2>1. eof'[1] => eof[1]
    <3>1. 1 # i + 1
      BY <1>14, <1>t
    <3>2. eof'[1] = (eof[1] \/ 1 = i + 1)
      BY <1>14, <1>t DEF Exit
    <3> QED
      BY <3>1, <3>2
  <2> QED
    BY <1>0, <1>14, <2>1 DEF Exit, mainVars, jobVars, Steady, ProcOK
<1>15. ASSUME NEW i \in Procs, LinkBreaks(i) PROVE Steady
  <2>1. eof'[1] => eof[1] \/ st[1] # "absent"
    BY <1>0, <1>15, <1>t DEF LinkBreaks, LinkOK
  <2>2. st[i] # "absent" /\ main' \in {main, "done"} /\ main # "start" /\ main \notin Before
    BY <1>15 DEF LinkBreaks, Stop, mainVars, Before
  <2>3. UNCHANGED <<via, job, route, host, req>>
    BY <1>15 DEF LinkBreaks, Stop, mainVars, jobVars
  <2>4. \A j \in Procs : j # i => up'[j] = up[j] /\ down'[j] = down[j]
    BY <1>0, <1>15 DEF LinkBreaks, LinkOK
  <2>5. st' = st \/ (st[i - 1] = "run" /\ st' = [st EXCEPT ![i - 1] = "leave"])
    BY <1>15 DEF LinkBreaks, Leaves
  <2>6. \A j \in Procs : st'[j] = st[j] \/ (st[j] # "absent" /\ st'[j] = "leave")
    BY <1>0, <2>5 DEF ProcOK
  <2> QED
    BY <2>1, <2>2, <2>3, <2>4, <2>6 DEF Steady, Before
<1> QED
  BY <1>1, <1>2, <1>3, <1>4, <1>5, <1>6, <1>7, <1>8, <1>9, <1>10, <1>11, <1>12, <1>13, <1>14, <1>15, <1>16, <1>17
     DEF Next, Client, Command, Helper

LEMMA RouteStep ==
    ASSUME TypeOK, ChainInv, Next
    PROVE  RouteInv'
<1>0. RouteInv /\ EarlyInv /\ MainOK
  BY TypeParts DEF ChainInv
<1>t. 1 \in Procs /\ (route # <<>> => Len(route) \in Nat \ {0})
  BY TipFacts DEF ChainInv, Procs, Tip
<1>1. CASE Steady
  BY <1>0, <1>1, <1>t DEF RouteInv, Steady
<1>2. CASE Start
  BY <1>0, <1>2 DEF RouteInv, Start, jobVars
<1>3. ASSUME NEW i \in Procs, Connect(i) PROVE RouteInv'
  <2>1. st[1] # "absent"
    BY <1>0, <1>3 DEF EarlyInv, Connect
  <2> QED
    BY <1>0, <1>3, <2>1 DEF RouteInv, Connect, mainVars, jobVars
<1>4. CASE Resolve
  <2> DEFINE current == IF route = <<>> THEN job.wanted ELSE via[Head(route)]
  <2>1. st' = st /\ st[1] = "absent" /\ UNCHANGED <<via, job>>
    BY <1>0, <1>4, <1>t DEF Resolve, EarlyInv, chainVars, procVars, jobVars, Stop
  <2>2. CASE route' = route /\ main' = "start"
    <3>1. current = Entry
      BY <1>4, <2>2 DEF Resolve, Stop
    <3>2. route # <<>> => Head(route) = route[1]
      BY <1>0 DEF MainOK
    <3> QED
      BY <1>0, <2>1, <2>2, <3>1, <3>2 DEF RouteInv
  <2>3. CASE route' = route /\ main' \notin {"start", "await"}
    BY <1>0, <2>1, <2>3 DEF RouteInv
  <2>4. CASE route' = <<current>> \o route /\ Len(route) < MaxHops /\ main' = "resolve"
    <3>1. route \in Seq(Hosts) /\ Len(route) \in Nat /\ MaxHops \in Nat
      BY <1>0, Limits DEF MainOK
    <3>2. /\ Len(route') = Len(route) + 1
          /\ route'[1] = current
          /\ \A k \in 1 .. Len(route) : route'[k + 1] = route[k]
      BY <2>4, <3>1
    <3>3. \A k \in 1 .. Len(route') - 1 : via[route'[k + 1]] = route'[k]
      <4> SUFFICES ASSUME NEW k \in 1 .. Len(route') - 1 PROVE via[route'[k + 1]] = route'[k]
        OBVIOUS
      <4>0. k \in 1 .. Len(route) /\ route'[k + 1] = route[k]
        BY <3>1, <3>2
      <4>1. CASE k = 1
        <5>1. route # <<>> /\ Head(route) = route[1]
          BY <4>0, <4>1, <3>1
        <5> QED
          BY <4>0, <4>1, <5>1, <3>2
      <4>2. CASE k # 1
        <5>1. k - 1 \in 1 .. Len(route) - 1 /\ (k - 1) + 1 = k
          BY <4>0, <4>2, <3>1
        <5>2. via[route[k]] = route[k - 1] /\ route'[k] = route[k - 1]
          BY <1>0, <3>1, <3>2, <4>0, <5>1 DEF RouteInv
        <5> QED
          BY <4>0, <5>2
      <4> QED
        BY <4>1, <4>2
    <3>4. route'[Len(route')] = job.wanted
      <4>1. CASE route = <<>>
        BY <4>1, <3>1, <3>2
      <4>2. CASE route # <<>>
        BY <4>2, <1>0, <3>1, <3>2 DEF RouteInv
      <4> QED
        BY <4>1, <4>2
    <3> QED
      BY <1>0, <2>1, <2>4, <3>1, <3>2, <3>3, <3>4 DEF RouteInv
  <2> QED
    BY <1>4, <2>2, <2>3, <2>4 DEF Resolve, Stop
<1> QED
  BY <1>1, <1>2, <1>3, <1>4, OftenSteady

LEMMA EarlyStep ==
    ASSUME TypeOK, ChainInv, Next
    PROVE  EarlyInv'
<1>0. RouteInv /\ EarlyInv /\ MainOK /\ ProcOK /\ LinkOK
  BY TypeParts DEF ChainInv
<1>t. 1 \in Procs
  BY TipFacts DEF ChainInv
<1>1. CASE Steady
  <2>1. eof'[1] => eof[1] \/ st[1] # "absent"
    BY <1>1 DEF Steady
  <2> QED
    BY <1>0, <1>1, <1>t, <2>1 DEF EarlyInv, Steady, Before
<1>2. CASE Start
  <2>1. st'[1] # "absent" /\ main' = "await" /\ job' = job
    BY <1>0, <1>2, <1>t DEF Start, ProcOK, jobVars
  <2>2. job.wanted # Local
    BY <1>0, <1>2 DEF EarlyInv, Start
  <2> QED
    BY <2>1, <2>2, <1>t DEF EarlyInv
<1>3. ASSUME NEW i \in Procs, Connect(i) PROVE EarlyInv'
  <2>1. st[1] # "absent" /\ job.wanted # Local /\ main \notin Before /\ UNCHANGED <<main, job>>
    BY <1>0, <1>3 DEF EarlyInv, Connect, Before, mainVars, jobVars
  <2>2. st'[1] # "absent"
    BY <1>0, <1>3, <1>t, <2>1 DEF Connect, ProcOK
  <2> QED
    BY <2>1, <2>2 DEF EarlyInv, Before
<1>4. CASE Resolve
  <2>1. st' = st /\ eof' = eof /\ UNCHANGED <<job, sent>> /\ job.wanted # Local
    BY <1>4 DEF Resolve, chainVars, procVars, linkVars, jobVars, Stop
  <2>2. \A i \in Procs : st[i] = "absent"
    BY <1>0, <1>4 DEF Resolve, EarlyInv
  <2>3. main = "resolve" /\ main' # "await"
    BY <1>4 DEF Resolve, Stop
  <2> QED
    BY <1>0, <1>t, <2>1, <2>2, <2>3 DEF EarlyInv
<1> QED
  BY <1>1, <1>2, <1>3, <1>4, OftenSteady

\* A helper passes on what is left of the route.
LEMMA RequestFacts ==
    ASSUME TypeOK, RouteInv
    PROVE  /\ NextRequest(route) = Request(1)
           /\ \A i \in Procs : i < Tip =>
                  /\ Request(i).target = route[i]
                  /\ NextRequest(Request(i).remaining) = Request(i + 1)
                  /\ Request(i).remaining = <<>> <=> i + 1 = Tip
<1>1. route \in Seq(Hosts) /\ Len(route) \in Nat /\ Tip = Len(route) + 1
  BY DEF TypeOK, Tip
<1>2. NextRequest(route) = Request(1)
  <2>1. CASE route = <<>>
    BY <1>1, <2>1 DEF NextRequest, Request
  <2>2. CASE route # <<>>
    <3>1. Tail(route) = SubSeq(route, 2, Len(route)) /\ Head(route) = route[1] /\ Tip # 1
      BY <1>1, <2>2, TailIsSubSeq
    <3> QED
      <4>1. NextRequest(route) = [target |-> route[1], remaining |-> SubSeq(route, 2, Len(route))]
        BY <2>2, <3>1 DEF NextRequest
      <4>2. Request(1) = [target |-> route[1], remaining |-> SubSeq(route, 1 + 1, Len(route))]
        BY <3>1 DEF Request
      <4> QED
        BY <4>1, <4>2
  <2> QED
    BY <2>1, <2>2
<1>3. ASSUME NEW i \in Procs, i < Tip
      PROVE  /\ Request(i).target = route[i]
             /\ NextRequest(Request(i).remaining) = Request(i + 1)
             /\ Request(i).remaining = <<>> <=> i + 1 = Tip
  <2> DEFINE rest == SubSeq(route, i + 1, Len(route))
  <2>a. i \in Nat \ {0} /\ i + 1 \in Nat
    BY Limits DEF Procs
  <2>0. i \in Nat \ {0} /\ i # Tip /\ i + 1 \in Nat /\ i <= Len(route)
    BY <1>1, <1>3, <2>a
  <2>1. Request(i) = [target |-> route[i], remaining |-> rest]
    BY <2>0 DEF Request
  <2>2. rest \in Seq(Hosts) /\ Len(rest) = Len(route) - i /\ \A k \in 1 .. Len(route) - i : rest[k] = route[i + k]
    <3>1. \A k \in i + 1 .. Len(route) : route[k] \in Hosts
      BY <1>1, <2>0
    <3>2. /\ rest \in Seq(Hosts)
          /\ Len(rest) = IF i + 1 <= Len(route) THEN Len(route) - (i + 1) + 1 ELSE 0
          /\ \A k \in 1 .. Len(route) - (i + 1) + 1 : rest[k] = route[i + 1 + k - 1]
      BY <1>1, <2>0, <3>1, SubSeqProperties
    <3>3. Len(route) - (i + 1) + 1 = Len(route) - i
      BY <1>1, <2>0
    <3>4. Len(rest) = Len(route) - i
      <4> HIDE DEF rest
      <4>1. CASE i + 1 <= Len(route)
        BY <3>2, <3>3, <4>1
      <4>2. CASE ~(i + 1 <= Len(route))
        BY <1>1, <2>0, <3>2, <4>2
      <4> QED
        BY <4>1, <4>2
    <3>5. ASSUME NEW k \in 1 .. Len(route) - i PROVE rest[k] = route[i + k]
      <4>1. i + 1 + k - 1 = i + k /\ k \in 1 .. Len(route) - (i + 1) + 1
        BY <2>0, <3>3
      <4> QED
        BY <3>2, <4>1
    <3> QED
      BY <3>2, <3>4, <3>5
  <2>3. rest = <<>> <=> i + 1 = Tip
    <3>1. rest = <<>> <=> Len(rest) = 0
      BY <2>2, EmptySeq
    <3>2. i + 1 = Tip <=> Len(route) - i = 0
      BY <1>1, <2>0
    <3> QED
      BY <2>2, <3>1, <3>2
  <2>4. NextRequest(rest) = Request(i + 1)
    <3>1. CASE rest = <<>>
      BY <2>3, <3>1 DEF NextRequest, Request
    <3>2. CASE rest # <<>>
      <4>1. Head(rest) = route[i + 1] /\ Len(route) - i \in Nat \ {0}
        BY <1>1, <2>0, <2>2, <3>2, EmptySeq
      <4>2. Tail(rest) = SubSeq(route, i + 2, Len(route))
        <5>1. /\ Tail(rest) \in Seq(Hosts)
              /\ Len(Tail(rest)) = Len(route) - i - 1
              /\ \A k \in 1 .. Len(route) - i - 1 : Tail(rest)[k] = rest[k + 1]
          BY <2>2, <3>2, HeadTailProperties
        <5>2. \A k \in i + 2 .. Len(route) : route[k] \in Hosts
          BY <1>1, <2>0
        <5>3. /\ SubSeq(route, i + 2, Len(route)) \in Seq(Hosts)
              /\ Len(SubSeq(route, i + 2, Len(route))) = IF i + 2 <= Len(route) THEN Len(route) - (i + 2) + 1 ELSE 0
              /\ \A k \in 1 .. Len(route) - (i + 2) + 1 : SubSeq(route, i + 2, Len(route))[k] = route[i + 2 + k - 1]
          BY <1>1, <2>0, <5>2, SubSeqProperties
        <5>4. Len(Tail(rest)) = Len(SubSeq(route, i + 2, Len(route)))
          BY <1>1, <2>0, <4>1, <5>1, <5>3
        <5>5. \A k \in 1 .. Len(Tail(rest)) : Tail(rest)[k] = SubSeq(route, i + 2, Len(route))[k]
          BY <1>1, <2>0, <2>2, <5>1, <5>3
        <5> QED
          BY <5>1, <5>3, <5>4, <5>5, SeqEqual
      <4>3. i + 1 # Tip /\ i + 1 + 1 = i + 2
        BY <1>1, <2>0, <2>3, <3>2
      <4> QED
        BY <3>2, <4>1, <4>2, <4>3 DEF NextRequest, Request
    <3> QED
      BY <3>1, <3>2
  <2> QED
    BY <2>1, <2>3, <2>4
<1> QED
  BY <1>2, <1>3

\* A helper that dials is not the last process, and what it starts is not there yet.
LEMMA ConnectFacts ==
    ASSUME TypeOK, ChainInv, NEW i \in Procs, Connect(i)
    PROVE  /\ i < Tip /\ i \in 1 .. MaxHops /\ i + 1 \in Procs
           /\ st[i + 1] = "absent" /\ up[i + 1] = 0 /\ down[i + 1] = 0 /\ ~eof[i + 1]
           /\ host[i] = (IF i = 1 THEN Entry ELSE route[i - 1]) /\ req[i] = Request(i)
           /\ host'[i + 1] = route[i]
           /\ req'[i + 1] = Request(i + 1)
           /\ st'[i] = "run" /\ st'[i + 1] \in {"run", "new"}
           /\ st'[i + 1] = "run" => i + 1 = Tip
           /\ \A j \in Procs : /\ j \notin {i, i + 1} => st'[j] = st[j]
                               /\ j # i + 1 => host'[j] = host[j] /\ req'[j] = req[j]
<1>0. ProcOK /\ RouteInv /\ LegInv(i)
  BY TypeParts DEF ChainInv
<1>t. i \in Nat \ {0} /\ Tip \in Nat /\ (i < Tip => i + 1 \in Procs /\ i \in 1 .. MaxHops)
  BY TipFacts DEF ChainInv
<1>1. st[i] = "new" /\ req[i] # None
  BY DEF Connect
<1>2. i < Tip
  <2>1. ~(i > Tip) /\ i # Tip
    BY <1>0, <1>1 DEF LegInv, Request
  <2> QED
    BY <2>1, <1>t
<1>3. /\ st[i + 1] = "absent" /\ ~eof[i + 1]
      /\ host[i] = (IF i = 1 THEN Entry ELSE route[i - 1]) /\ req[i] = Request(i)
  BY <1>0, <1>1, <1>2, <1>t DEF ChainInv, LegInv, PairInv
<1>4. up[i + 1] = 0 /\ down[i + 1] = 0
  BY <1>2, <1>3, <1>t DEF ChainInv, LegInv
<1>5. /\ req[i].target = route[i]
      /\ NextRequest(Rest(i)) = Request(i + 1)
      /\ Rest(i) = <<>> <=> i + 1 = Tip
  BY <1>0, <1>2, <1>3, RequestFacts DEF Rest
<1>6. /\ host' = [host EXCEPT ![i + 1] = route[i]]
      /\ req' = [req EXCEPT ![i + 1] = Request(i + 1)]
  BY <1>5 DEF Connect
<1>7. \E s \in {"run", "new"} : st' = [st EXCEPT ![i] = "run", ![i + 1] = s] /\ (s = "run" => i + 1 = Tip)
  BY <1>5 DEF Connect
<1>8. /\ st'[i] = "run" /\ st'[i + 1] \in {"run", "new"}
      /\ st'[i + 1] = "run" => i + 1 = Tip
      /\ \A j \in Procs : j \notin {i, i + 1} => st'[j] = st[j]
  BY <1>0, <1>2, <1>7, <1>t DEF ProcOK
<1>9. /\ host'[i + 1] = route[i] /\ req'[i + 1] = Request(i + 1)
      /\ \A j \in Procs : j # i + 1 => host'[j] = host[j] /\ req'[j] = req[j]
  BY <1>0, <1>2, <1>6, <1>t DEF ProcOK
<1> QED
  BY <1>2, <1>3, <1>4, <1>8, <1>9, <1>t

LEMMA LegStep ==
    ASSUME TypeOK, ChainInv, Next
    PROVE  \A j \in Procs : LegInv(j)'
<1>0. RouteInv /\ EarlyInv /\ MainOK /\ ProcOK /\ LinkOK
  BY TypeParts DEF ChainInv
<1>t. 1 \in Procs /\ \A j \in Procs : j \in Nat \ {0}
  BY TipFacts DEF ChainInv
<1> SUFFICES ASSUME NEW j \in Procs PROVE LegInv(j)'
  OBVIOUS
<1>1. LegInv(j)
  BY DEF ChainInv
<1>2. CASE Steady
  <2>1. Tip' = Tip /\ Request(j)' = Request(j) /\ (Tunnel' <=> Tunnel)
    BY <1>2 DEF Steady, Tip, Request, Tunnel
  <2> QED
    BY <1>1, <1>2, <2>1 DEF LegInv, Steady
<1>3. CASE Start
  <2>1. Tip' = Tip /\ Request(j)' = Request(j) /\ NextRequest(route) = Request(1) /\ Tip \in Nat \ {0}
    BY <1>0, <1>3, TipFacts, RequestFacts DEF Start, Tip, Request
  <2>2. st[j] = "absent"
    BY <1>0, <1>3 DEF Start, EarlyInv
  <2>3. CASE j = 1
    <3>1. st'[1] \in {"run", "new"} /\ host'[1] = Entry /\ req'[1] = Request(1)
      BY <1>0, <1>3, <1>t, <2>1 DEF Start, ProcOK
    <3>2. ~(j > Tip)
      BY <2>1, <2>3
    <3> QED
      BY <2>1, <2>3, <3>1, <3>2 DEF LegInv
  <2>4. CASE j # 1
    <3>1. st'[j] = st[j] /\ host'[j] = host[j] /\ up' = up /\ down' = down
      BY <1>0, <1>3, <2>4 DEF Start, ProcOK, linkVars
    <3> QED
      BY <1>1, <2>2, <3>1 DEF LegInv
  <2> QED
    BY <2>3, <2>4
<1>4. ASSUME NEW i \in Procs, Connect(i) PROVE LegInv(j)'
  <2>1. Tip' = Tip /\ Request(j)' = Request(j) /\ Tip \in Nat
    BY <1>0, <1>4, TipFacts DEF Connect, mainVars, Tip, Request
  <2>2. up' = up /\ down' = down /\ i \in Nat \ {0}
    BY <1>4, <1>t DEF Connect, linkVars
  <2>3. CASE j = i + 1
    <3>1. st'[j] \in {"run", "new"} /\ host'[j] = route[i] /\ req'[j] = Request(j) /\ ~(j > Tip) /\ j # 1 /\ j - 1 = i
      BY <1>4, <2>1, <2>2, <2>3, ConnectFacts
    <3>2. route' = route
      BY <1>4 DEF Connect, mainVars
    <3> QED
      BY <2>1, <3>1, <3>2 DEF LegInv
  <2>4. CASE j = i
    <3>1. st'[j] = "run" /\ host'[j] = host[j] /\ req'[j] = req[j] /\ st[j] = "new" /\ route' = route
      BY <1>4, <2>2, <2>4, ConnectFacts DEF Connect, mainVars
    <3> QED
      BY <1>1, <2>1, <2>2, <3>1 DEF LegInv
  <2>5. CASE j \notin {i, i + 1}
    <3>0. j # i /\ j # i + 1 /\ route' = route
      BY <1>4, <2>5 DEF Connect, mainVars
    <3>1. st'[j] = st[j] /\ host'[j] = host[j] /\ req'[j] = req[j] /\ route' = route
      BY <1>4, <3>0, ConnectFacts
    <3>2. Tunnel' <=> Tunnel
      BY <1>4 DEF Connect, mainVars, jobVars, Tunnel
    <3> QED
      BY <1>1, <2>1, <2>2, <3>1, <3>2 DEF LegInv
  <2> QED
    BY <2>3, <2>4, <2>5
<1>5. CASE Resolve
  <2>1. st' = st /\ host' = host /\ up' = up /\ down' = down
    BY <1>5 DEF Resolve, chainVars, procVars, linkVars
  <2>2. st[j] = "absent"
    BY <1>0, <1>5 DEF Resolve, EarlyInv
  <2> QED
    BY <1>1, <2>1, <2>2 DEF LegInv
<1> QED
  BY <1>2, <1>3, <1>4, <1>5, OftenSteady

LEMMA PairStep ==
    ASSUME TypeOK, ChainInv, QuietInv, Next
    PROVE  \A j \in 1 .. MaxHops : PairInv(j)'
<1>0. RouteInv /\ EarlyInv /\ MainOK /\ ProcOK /\ LinkOK /\ EndsOK
  BY TypeParts DEF ChainInv
<1>t. /\ 1 \in Procs /\ Tip \in Procs /\ None \notin Nat
      /\ \A j \in Procs : j \in Nat \ {0}
      /\ \A j \in 1 .. MaxHops : j \in Procs /\ j + 1 \in Procs
      /\ \A j \in Procs : j < Tip => j \in 1 .. MaxHops
  BY TipFacts, Limits DEF ChainInv, Procs
<1>p. \A j \in 1 .. MaxHops : PairInv(j)
  BY DEF ChainInv
<1> DEFINE Kept == UNCHANGED <<job, route>> /\ (lost = None \/ lost' = lost)
           Heard(j) == eof'[j + 1] => eof[j + 1] \/ st'[j] \notin {"absent", "new"}
\* No process moves.
<1>a. ASSUME Kept, st' = st, \A j \in 1 .. MaxHops : Heard(j)
      PROVE  \A j \in 1 .. MaxHops : PairInv(j)'
  <2> SUFFICES ASSUME NEW j \in 1 .. MaxHops PROVE PairInv(j)'
    OBVIOUS
  <2>1. Tip' = Tip /\ (Tunnel' <=> Tunnel) /\ Heard(j) /\ PairInv(j)
    BY <1>a, <1>p DEF Tip, Tunnel
  <2> QED
    BY <1>a, <1>t, <2>1 DEF PairInv, Gone
\* One process moves on.
<1>b. ASSUME NEW p \in Procs, NEW s \in {"run", "eof", "leave"}, st[p] \in {"new", "run", "eof"},
             st' = [st EXCEPT ![p] = s], Kept, \A j \in 1 .. MaxHops : Heard(j), s = "run" => p = Tip,
             s = "leave" /\ p < Tip => \/ st[p + 1] \in {"absent", "exited"}
                                       \/ lost' = p + 1
                                       \/ Tunnel /\ lost' = p
      PROVE  \A j \in 1 .. MaxHops : PairInv(j)'
  <2> SUFFICES ASSUME NEW j \in 1 .. MaxHops PROVE PairInv(j)'
    OBVIOUS
  <2>1. Tip' = Tip /\ (Tunnel' <=> Tunnel) /\ Heard(j) /\ PairInv(j) /\ j \in Procs /\ j + 1 \in Procs /\ Tip \in Nat
    BY <1>b, <1>p, <1>t DEF Tip, Tunnel
  <2>2. /\ st'[p] = s
        /\ \A q \in Procs : q # p => st'[q] = st[q]
    BY <1>0, <1>b DEF ProcOK
  <2>3. CASE j = p
    <3>1. j + 1 # p /\ st'[j + 1] = st[j + 1]
      BY <1>t, <2>1, <2>2, <2>3
    <3> QED
      BY <1>b, <2>1, <2>2, <2>3, <3>1 DEF PairInv, Gone
  <2>4. CASE j + 1 = p
    <3>1. j # p /\ st'[j] = st[j] /\ st[j] \notin {"absent", "new"} /\ st'[j + 1] # "absent"
      BY <1>b, <1>t, <2>1, <2>2, <2>4 DEF PairInv
    <3>2. Gone(j) /\ j < Tip => lost' = j + 1 \/ (Tunnel /\ lost' = j)
      BY <1>b, <1>t, <2>1, <2>4 DEF PairInv, Gone
    <3> QED
      BY <2>1, <3>1, <3>2 DEF PairInv, Gone
  <2>5. CASE j # p /\ j + 1 # p
    <3>1. st'[j] = st[j] /\ st'[j + 1] = st[j + 1]
      BY <2>1, <2>2, <2>5
    <3> QED
      BY <1>b, <1>t, <2>1, <3>1 DEF PairInv, Gone
  <2> QED
    BY <2>3, <2>4, <2>5
<1>1. CASE File
  <2>1. Kept
    BY <1>0, <1>1
     DEF File, Edit, AskSize, DownloadChunk, DownloadEnds, DownloadFails, CopyToPart, DownloadBreaks,
         RenamePart, LocalWriteFails, jobVars, Stop
  <2> QED
    BY <1>1, <1>a, <2>1, Untouched DEF chainVars, procVars, linkVars
<1>2. CASE StartFails \/ Send \/ Receive \/ Finish
  BY <1>2, <1>a DEF StartFails, Send, Receive, ReceiveFails, Finish, Stop, mainVars, chainVars, procVars, linkVars, jobVars
<1>3. CASE SendEof \/ LocalReadFails \/ ReceiveFails
  <2>1. Kept /\ st' = st
    BY <1>3 DEF SendEof, LocalReadFails, ReceiveFails, Stop, mainVars, jobVars
  <2>2. \A j \in 1 .. MaxHops : eof'[j + 1] = eof[j + 1]
    BY <1>0, <1>3, <1>t DEF SendEof, LocalReadFails, ReceiveFails, LinkOK
  <2> QED
    BY <1>a, <2>1, <2>2
<1>4. CASE CatChunk \/ Upstream \/ Downstream \/ ServiceCloses
  BY <1>4, <1>a DEF CatChunk, Upstream, Downstream, ServiceCloses, mainVars, jobVars, procVars, linkVars
<1>5. CASE CatEnds \/ Move \/ ScriptFails \/ Dial \/ DownstreamEnds \/ ServiceFails
  <2>1. Kept /\ eof' = eof
    BY <1>5 DEF CatEnds, Move, ScriptFails, Dial, DownstreamEnds, ServiceFails, mainVars, jobVars, linkVars
  <2>2. \E s \in {"run", "eof", "leave"} : st' = [st EXCEPT ![Tip] = s]
    BY <1>5 DEF CatEnds, Move, ScriptFails, Dial, DownstreamEnds, ServiceFails, Leaves
  <2>3. st[Tip] \in {"new", "run", "eof"} /\ ~(Tip < Tip)
    BY <1>5, <1>t DEF CatEnds, Move, ScriptFails, Dial, DownstreamEnds, ServiceFails
  <2> QED
    BY <1>b, <1>t, <2>1, <2>2, <2>3
<1>6. ASSUME NEW i \in Procs, ConnectFails(i) \/ ChildExited(i) PROVE \A j \in 1 .. MaxHops : PairInv(j)'
  <2>1. Kept /\ eof' = eof /\ st' = [st EXCEPT ![i] = "leave"] /\ st[i] \in {"new", "run"}
    BY <1>6 DEF ConnectFails, ChildExited, ChildIsOver, Leaves, mainVars, jobVars, linkVars
  <2>2. i < Tip => st[i + 1] \in {"absent", "exited"}
    BY <1>6, <1>p, <1>t DEF ConnectFails, ChildExited, ChildIsOver, PairInv
  <2> QED
    BY <1>b, <2>1, <2>2
<1>7. ASSUME NEW i \in Procs, WriteFails(i) PROVE \A j \in 1 .. MaxHops : PairInv(j)'
  <2>1. Kept /\ eof' = eof /\ st' = [st EXCEPT ![i] = "leave"] /\ st[i] = "run" /\ lost = i /\ lost' = i
    BY <1>7 DEF WriteFails, Leaves, mainVars, jobVars
  <2>2. i < Tip => Tunnel
    <3>1. ~Tunnel => down[i] = 0
      BY DEF QuietInv
    <3>2. ~Tunnel /\ i < Tip => down[i + 1] = 0
      BY <1>t DEF QuietInv
    <3> QED
      BY <1>7, <3>1, <3>2 DEF WriteFails
  <2> QED
    BY <1>b, <2>1, <2>2
<1>8. ASSUME NEW i \in Procs, ForwardUp(i) \/ ForwardDown(i) \/ ShortStdin(i) PROVE \A j \in 1 .. MaxHops : PairInv(j)'
  BY <1>8, <1>a DEF ForwardUp, ForwardDown, ShortStdin, mainVars, jobVars, procVars, linkVars
<1>9. ASSUME NEW i \in Procs, ForwardEof(i) PROVE \A j \in 1 .. MaxHops : PairInv(j)'
  <2>1. Kept /\ st' = st /\ st[i] = "run"
    BY <1>9 DEF ForwardEof, Feeding, mainVars, jobVars
  <2>2. \A j \in 1 .. MaxHops : j # i => eof'[j + 1] = eof[j + 1]
    <3>1. \A q \in Procs : q # i + 1 => eof'[q] = eof[q]
      BY <1>0, <1>9 DEF ForwardEof, LinkOK
    <3>2. \A j \in 1 .. MaxHops : j + 1 \in Procs /\ (j # i => j + 1 # i + 1)
      BY <1>t
    <3> QED
      BY <3>1, <3>2
  <2> QED
    BY <1>a, <2>1, <2>2
<1>10. ASSUME NEW i \in Procs, Exit(i) PROVE \A j \in 1 .. MaxHops : PairInv(j)'
  <2> SUFFICES ASSUME NEW j \in 1 .. MaxHops PROVE PairInv(j)'
    OBVIOUS
  <2>1. /\ Tip' = Tip /\ (Tunnel' <=> Tunnel) /\ lost' = lost /\ PairInv(j)
        /\ j \in Procs /\ j + 1 \in Procs /\ i \in Nat /\ j \in Nat
    BY <1>10, <1>p, <1>t DEF Exit, mainVars, jobVars, Tip, Tunnel
  <2>2. /\ st[i] = "leave" /\ st'[i] = "exited"
        /\ \A q \in Procs : q # i => st'[q] = st[q]
    BY <1>0, <1>10 DEF Exit, ProcOK
  <2>3. j # i => eof'[j + 1] = eof[j + 1]
    <3>1. eof'[j + 1] = (eof[j + 1] \/ j + 1 = i + 1)
      BY <1>10, <2>1 DEF Exit
    <3>2. eof[j + 1] \in BOOLEAN /\ (j # i => j + 1 # i + 1)
      BY <1>0, <2>1 DEF LinkOK
    <3> QED
      BY <3>1, <3>2
  <2>4. CASE j = i
    <3>1. st'[j + 1] = st[j + 1]
      BY <2>1, <2>2, <2>4
    <3> QED
      BY <2>1, <2>2, <2>4, <3>1 DEF PairInv, Gone
  <2>5. CASE j + 1 = i
    <3>1. st'[j] = st[j] /\ j # i
      BY <2>1, <2>2, <2>5
    <3> QED
      BY <2>1, <2>2, <2>3, <2>5, <3>1 DEF PairInv, Gone
  <2>6. CASE j # i /\ j + 1 # i
    <3>1. st'[j] = st[j] /\ st'[j + 1] = st[j + 1]
      BY <2>1, <2>2, <2>6
    <3> QED
      BY <2>1, <2>3, <2>6, <3>1 DEF PairInv, Gone
  <2> QED
    BY <2>4, <2>5, <2>6
<1>11. ASSUME NEW i \in Procs, LinkBreaks(i) PROVE \A j \in 1 .. MaxHops : PairInv(j)'
  <2>1. Kept /\ lost' = i /\ st[i] \in {"new", "run", "eof"}
    BY <1>11 DEF LinkBreaks, Stop, mainVars, jobVars
  <2>2. \A j \in 1 .. MaxHops : j + 1 # i => eof'[j + 1] = eof[j + 1]
    BY <1>0, <1>11, <1>t DEF LinkBreaks, LinkOK
  <2>3. CASE i = 1
    <3>1. st' = st /\ \A j \in 1 .. MaxHops : j + 1 # i
      BY <1>11, <1>t, <2>3 DEF LinkBreaks
    <3> QED
      BY <1>a, <2>1, <2>2, <3>1
  <2>4. CASE i > 1
    <3>1. i - 1 \in Procs /\ (i - 1) + 1 = i
      BY <2>4, Limits DEF Procs
    <3>2. st' = [st EXCEPT ![i - 1] = "leave"] /\ st[i - 1] = "run"
      BY <1>11, <1>t, <2>4 DEF LinkBreaks, Leaves
    <3>3. st'[i - 1] = "leave"
      BY <1>0, <3>1, <3>2 DEF ProcOK
    <3>4. \A j \in 1 .. MaxHops : j + 1 = i => j = i - 1
      BY <1>t
    <3>5. \A j \in 1 .. MaxHops : Heard(j)
      BY <2>2, <3>3, <3>4
    <3> QED
      BY <1>b, <2>1, <3>1, <3>2, <3>5
  <2> QED
    BY <1>t, <2>3, <2>4
<1>12. CASE Start
  <2> SUFFICES ASSUME NEW j \in 1 .. MaxHops PROVE PairInv(j)'
    OBVIOUS
  <2>1. PairInv(j) /\ j \in Procs /\ j + 1 \in Procs /\ j + 1 # 1 /\ Tip' = Tip /\ eof' = eof
    BY <1>12, <1>p, <1>t DEF Start, linkVars, Tip
  <2>2. st[j] = "absent" /\ st[j + 1] = "absent" /\ st'[j + 1] = st[j + 1]
    BY <1>0, <1>12, <2>1 DEF EarlyInv, Start, ProcOK
  <2>3. CASE j = 1
    <3>1. st'[1] = (IF route = <<>> THEN "run" ELSE "new") /\ (route = <<>> => ~(1 < Tip))
      BY <1>0, <1>12, <1>t, TipFacts DEF Start, ProcOK
    <3> QED
      BY <2>1, <2>2, <2>3, <3>1 DEF PairInv, Gone
  <2>4. CASE j # 1
    <3>1. st'[j] = st[j]
      BY <1>0, <1>12, <2>1, <2>4 DEF Start, ProcOK
    <3> QED
      BY <2>1, <2>2, <3>1 DEF PairInv, Gone
  <2> QED
    BY <2>3, <2>4
<1>13. ASSUME NEW i \in Procs, Connect(i) PROVE \A j \in 1 .. MaxHops : PairInv(j)'
  <2> SUFFICES ASSUME NEW j \in 1 .. MaxHops PROVE PairInv(j)'
    OBVIOUS
  <2>1. /\ PairInv(j) /\ j \in Procs /\ j + 1 \in Procs /\ j \in Nat /\ i \in Nat
        /\ Tip' = Tip /\ eof' = eof /\ lost' = lost /\ (Tunnel' <=> Tunnel)
    BY <1>13, <1>p, <1>t DEF Connect, mainVars, jobVars, linkVars, Tip, Tunnel
  <2>2. /\ st[i] = "new" /\ st[i + 1] = "absent" /\ st'[i] = "run" /\ st'[i + 1] \in {"run", "new"}
        /\ st'[i + 1] = "run" => i + 1 = Tip
        /\ \A q \in Procs : q \notin {i, i + 1} => st'[q] = st[q]
        /\ i \in 1 .. MaxHops /\ Tip \in Nat
    BY <1>13, <1>t, ConnectFacts DEF Connect
  <2>3. CASE j = i
    BY <2>1, <2>2, <2>3 DEF PairInv, Gone
  <2>4. CASE j = i + 1
    <3>1. st'[j + 1] = st[j + 1]
      BY <2>1, <2>2, <2>4
    <3> QED
      BY <2>1, <2>2, <2>4, <3>1 DEF PairInv, Gone
  <2>5. CASE j + 1 = i
    <3>1. st'[j] = st[j]
      BY <2>1, <2>2, <2>5
    <3> QED
      BY <2>1, <2>2, <2>5, <3>1 DEF PairInv, Gone
  <2>6. CASE j # i /\ j # i + 1 /\ j + 1 # i
    <3>1. st'[j] = st[j] /\ st'[j + 1] = st[j + 1]
      BY <2>1, <2>2, <2>6
    <3> QED
      BY <2>1, <3>1 DEF PairInv, Gone
  <2> QED
    BY <2>3, <2>4, <2>5, <2>6
<1>14. CASE Resolve
  <2>1. st' = st /\ eof' = eof /\ \A q \in Procs : st[q] = "absent"
    BY <1>0, <1>14 DEF Resolve, EarlyInv, chainVars, procVars, linkVars
  <2> QED
    BY <1>p, <1>t, <2>1 DEF PairInv, Gone
<1> QED
  BY <1>1, <1>2, <1>3, <1>4, <1>5, <1>6, <1>7, <1>8, <1>9, <1>10, <1>11, <1>12, <1>13, <1>14
     DEF Next, Client, Command, Helper

LEMMA ChainStep ==
    ASSUME TypeOK, ChainInv, QuietInv, Next
    PROVE  ChainInv'
<1>1. RouteInv' /\ EarlyInv' /\ (\A j \in Procs : LegInv(j)') /\ (\A j \in 1 .. MaxHops : PairInv(j)')
  BY RouteStep, EarlyStep, LegStep, PairStep
<1> QED
  BY <1>1 DEF ChainInv, Procs

\* The upload shell writes nothing to its output.
LEMMA QuietStep ==
    ASSUME TypeOK, ChainInv, QuietInv, Next
    PROVE  QuietInv'
<1>0. LinkOK
  BY TypeParts
<1>t. \A i \in Procs : i < Tip => i + 1 \in Procs
  BY TipFacts DEF ChainInv
<1>a. ASSUME UNCHANGED <<job, down>> PROVE QuietInv'
  BY <1>a DEF QuietInv, Tunnel
<1>1. CASE File
  BY <1>1, <1>a, Untouched
     DEF chainVars, linkVars, File, Edit, AskSize, DownloadChunk, DownloadEnds, DownloadFails, DownloadBreaks,
         CopyToPart, RenamePart, LocalWriteFails, jobVars, Stop
<1>2. CASE Client
  BY <1>2, <1>a
     DEF Client, Resolve, Start, StartFails, Send, SendEof, LocalReadFails, Receive, ReceiveFails, Finish, Stop, chainVars,
         mainVars, linkVars, jobVars, QuietInv, Tunnel
<1>3. CASE Command
  BY <1>3, <1>a
     DEF Command, CatChunk, CatEnds, Move, ScriptFails, Dial, Upstream, Downstream, ServiceCloses, DownstreamEnds, ServiceFails,
         mainVars, linkVars, jobVars, QuietInv, Tunnel
<1>4. ASSUME NEW i \in Procs, Helper(i) \/ LinkBreaks(i) PROVE QuietInv'
  <2>1. job' = job
    BY <1>4 DEF Helper, Connect, ConnectFails, ForwardUp, ForwardEof, ShortStdin, ForwardDown, ChildExited,
                WriteFails, Exit, LinkBreaks, Stop, mainVars, jobVars
  <2>2. CASE ForwardDown(i)
    <3>1. Tunnel
      BY <1>t, <2>2 DEF ForwardDown, QuietInv
    <3> QED
      BY <2>1, <3>1 DEF QuietInv, Tunnel
  <2>3. CASE down' = down \/ down' = [down EXCEPT ![i] = 0]
    BY <1>0, <2>1, <2>3 DEF QuietInv, Tunnel, LinkOK
  <2> QED
    BY <1>4, <2>2, <2>3 DEF Helper, Connect, ConnectFails, ForwardUp, ForwardEof, ShortStdin, ChildExited,
                            WriteFails, Exit, LinkBreaks, linkVars
<1> QED
  BY <1>1, <1>2, <1>3, <1>4 DEF Next

----------------------------------------------------------------------------
(* The source file and the temporary.                                      *)

LEMMA TempStep ==
    ASSUME TypeOK, ChainInv, TempInv, Next, TypeOK'
    PROVE  TempInv'
<1>0. RouteInv /\ EarlyInv /\ MainOK /\ ProcOK
  BY TypeParts DEF ChainInv
<1>t. Tip \in Procs /\ 1 \in Procs /\ (Tip = 1 <=> route = <<>>) /\ \A i \in Procs : i \in Nat
  BY TipFacts DEF ChainInv
<1>w. job.wanted \in Hosts \cup {Entry, Local} /\ (Tunnel => job.wanted \in Hosts /\ job.wanted \notin {Entry, Local})
  BY <1>0, JobFacts, ExecHopAssumption DEF MainOK
<1>a. ASSUME UNCHANGED <<job, route, temp>>, st'[Tip] \in {"run", "eof"} => st[Tip] \in {"run", "eof"} \/ Tunnel
      PROVE TempInv'
  BY <1>a DEF TempInv, Tunnel, Tip
<1>1. CASE CopyToPart \/ RenamePart
  <2>1. st[Tip] = "absent" /\ ~Tunnel
    BY <1>0, <1>1, <1>t, <1>w DEF CopyToPart, RenamePart, EarlyInv
  <2>2. st'[Tip] = "absent" /\ job' = job /\ Tip' = Tip
    BY <1>1, <2>1 DEF CopyToPart, RenamePart, Stop, chainVars, procVars, jobVars, Tip
  <2> QED
    BY <2>1, <2>2 DEF TempInv, Tunnel
<1>2. CASE File /\ ~CopyToPart /\ ~RenamePart
  BY <1>2, <1>a
     DEF chainVars, procVars, destVars, File, Edit, AskSize, DownloadChunk, DownloadEnds, DownloadFails, DownloadBreaks,
         CopyToPart, RenamePart, LocalWriteFails, jobVars, Stop
<1>3. CASE Resolve
  <2>1. UNCHANGED <<job, temp, st>> /\ \A i \in Procs : st[i] = "absent"
    BY <1>0, <1>3 DEF Resolve, EarlyInv, chainVars, procVars, destVars, jobVars, Stop
  <2>2. st'[Tip'] = "absent"
    <3>1. MaxHops \in Nat /\ Len(route') \in Nat /\ Len(route') <= MaxHops
      <4>1. RouteInv' /\ MaxHops \in Nat
        BY <1>3, RouteStep, Limits DEF Next, Client
      <4>2. route' \in Seq(Hosts)
        BY DEF TypeOK
      <4> QED
        BY <4>1, <4>2 DEF RouteInv
    <3> QED
      BY <2>1, <3>1 DEF Tip, Procs
  <2> QED
    BY <2>1, <2>2 DEF TempInv, Tunnel
<1>4. CASE Start
  <2>1. Tip' = Tip /\ (Tunnel' <=> Tunnel)
    BY <1>4 DEF Start, jobVars, Tip, Tunnel
  <2>2. CASE route = <<>>
    BY <1>0, <1>4, <1>w, <2>1, <2>2 DEF Start, RouteInv, TempInv
  <2>3. CASE route # <<>>
    <3>1. st'[Tip] = st[Tip] /\ st[Tip] = "absent" /\ temp' = None
      BY <1>0, <1>4, <1>t, <2>3 DEF Start, EarlyInv, ProcOK
    <3> QED
      BY <2>1, <3>1 DEF TempInv
  <2> QED
    BY <2>2, <2>3
<1>5. CASE StartFails \/ Send \/ SendEof \/ LocalReadFails \/ Receive \/ ReceiveFails \/ Finish
  BY <1>5, <1>a DEF StartFails, Send, SendEof, LocalReadFails, Receive, ReceiveFails, Finish, Stop, chainVars, mainVars,
                    procVars, destVars, jobVars
<1>6. CASE CatChunk
  BY <1>6 DEF CatChunk, TempInv, Tunnel, mainVars, procVars, jobVars, Tip
<1>7. CASE Move
  <2>1. st'[Tip] = "leave" /\ ~Tunnel /\ Tip' = Tip /\ job' = job
    BY <1>0, <1>7, <1>t DEF Move, Leaves, ProcOK, mainVars, jobVars, Tip
  <2> QED
    BY <2>1 DEF TempInv, Tunnel
<1>8. CASE CatEnds \/ ScriptFails \/ Dial \/ Upstream \/ Downstream \/ ServiceCloses \/ DownstreamEnds \/ ServiceFails
  BY <1>8, <1>a DEF CatEnds, ScriptFails, Dial, Upstream, Downstream, ServiceCloses, DownstreamEnds, ServiceFails,
                    mainVars, procVars, destVars, jobVars
<1>9. ASSUME NEW i \in Procs, Connect(i) PROVE TempInv'
  <2>1. Tip' = Tip /\ (Tunnel' <=> Tunnel)
    BY <1>9 DEF Connect, mainVars, jobVars, Tip, Tunnel
  <2>2. CASE Rest(i) = <<>> /\ ~Tunnel
    BY <1>9, <2>1, <2>2 DEF Connect, TempInv
  <2>3. CASE Tunnel
    BY <1>9, <2>1, <2>3 DEF Connect, TempInv
  <2>4. CASE Rest(i) # <<>> /\ ~Tunnel
    <3>1. i < Tip /\ (Rest(i) = <<>> <=> i + 1 = Tip)
      BY <1>0, <1>9, ConnectFacts, RequestFacts DEF Rest
    <3>2. temp' = temp
      BY <1>9, <2>4 DEF Connect
    <3>3. Tip # i /\ Tip # i + 1 /\ Tip \in Procs
      BY <1>t, <2>4, <3>1
    <3>4. st'[Tip] = st[Tip]
      BY <1>9, <3>3, ConnectFacts
    <3> QED
      BY <2>1, <3>2, <3>4 DEF TempInv
  <2> QED
    BY <2>2, <2>3, <2>4
<1>10. ASSUME NEW i \in Procs, Helper(i) \/ LinkBreaks(i), ~Connect(i) PROVE TempInv'
  <2>1. UNCHANGED <<job, route, temp>>
    BY <1>10 DEF Helper, Connect, ConnectFails, ForwardUp, ForwardEof, ShortStdin, ForwardDown, ChildExited,
                WriteFails, Exit, LinkBreaks, Stop, mainVars, destVars, jobVars
  <2>2. st' = st \/ \E j \in Procs, s \in {"leave", "exited"} : st' = [st EXCEPT ![j] = s]
    <3>1. i > 1 => i - 1 \in Procs
      BY Limits DEF Procs
    <3> QED
      BY <1>10, <1>t, <3>1
        DEF Helper, Connect, ConnectFails, ForwardUp, ForwardEof, ShortStdin, ForwardDown, ChildExited,
                WriteFails, Exit, LinkBreaks, Leaves, procVars
  <2>3. st'[Tip] = st[Tip] \/ st'[Tip] \in {"leave", "exited"}
    BY <1>0, <1>t, <2>2 DEF ProcOK
  <2> QED
    BY <1>a, <2>1, <2>3
<1> QED
  BY <1>1, <1>2, <1>3, <1>4, <1>5, <1>6, <1>7, <1>8, <1>9, <1>10 DEF Next, Client, Command

\* The only steps that concern the source: somebody edits it, or the command reads of it.
LEMMA FileMoves == Next => UNCHANGED fileVars \/ Meet \/ Edit
<1>1. File => UNCHANGED fileVars \/ Meet \/ Edit
  BY DEF File, AskSize, DownloadChunk, DownloadEnds, DownloadFails, DownloadBreaks, CopyToPart, RenamePart,
         LocalWriteFails, Stop
<1>2. Client => UNCHANGED fileVars \/ Meet
  BY DEF Client, Resolve, Start, StartFails, Send, SendEof, LocalReadFails, Receive, ReceiveFails, Finish, Stop,
         MeetLocal, mainVars
<1>3. \A i \in Procs : LinkBreaks(i) => UNCHANGED fileVars
  BY DEF LinkBreaks, Stop, mainVars
<1> QED
  BY <1>1, <1>2, <1>3, Untouched DEF Next, mainVars

\* What a read adds.
LEMMA MeetFacts ==
    ASSUME TypeOK, Meet
    PROVE  /\ Len(read) \in Nat /\ Len(read') = Len(read) + 1
           /\ \A k \in 1 .. Len(read) : read'[k] = read[k]
           /\ read'[Len(read) + 1] = edits
           /\ UNCHANGED <<size, seen, edits>>
           /\ DOMAIN read = 1 .. Len(read) /\ DOMAIN read' = 1 .. Len(read) + 1
<1>1. read \in Seq(Nat) /\ edits \in Nat
  BY Limits DEF TypeOK
<1> QED
  BY <1>1 DEF Meet

\* Versions stay, and what was read of them.
LEMMA VersionsKept ==
    ASSUME TypeOK, VersionInv, UNCHANGED fileVars \/ Meet \/ Edit
    PROVE  /\ VersionInv'
           /\ ChangedMeanwhile => ChangedMeanwhile'
           /\ \A n : \A v \in 0 .. edits : IsVersion(n, v) => v \in 0 .. edits' /\ IsVersion(n, v)'
           /\ \A n : Fine(n) => Fine(n)'
           /\ read # <<>> => seen'[read'[1] + 1] = seen[read[1] + 1]
           /\ Len(read) \in Nat /\ Len(read') \in Nat /\ Len(read') >= Len(read)
<1>0. /\ read \in Seq(Nat) /\ seen \in Seq(Nat) /\ edits \in Nat /\ Len(read) \in Nat /\ Len(seen) \in Nat
      /\ DOMAIN read = 1 .. Len(read)
  BY Limits DEF TypeOK
<1>1. /\ \A k \in 1 .. Len(read) : read'[k] = read[k]
      /\ Len(read') \in Nat /\ Len(read') >= Len(read) /\ DOMAIN read' = 1 .. Len(read')
  <2>1. CASE read' = read
    BY <1>0, <2>1
  <2>2. CASE Meet
    BY <1>0, <2>2, MeetFacts
  <2> QED
    BY <2>1, <2>2 DEF Edit, fileVars
<1>2. /\ \A v \in 0 .. edits : v + 1 \in 1 .. Len(seen) /\ seen'[v + 1] = seen[v + 1]
      /\ edits' \in Nat /\ edits' >= edits
  <2>1. \A v \in 0 .. edits : v + 1 \in 1 .. Len(seen)
    BY <1>0 DEF VersionInv
  <2>2. CASE UNCHANGED <<seen, edits>>
    BY <1>0, <2>1, <2>2
  <2>3. CASE Edit
    BY <1>0, <2>1, <2>3, Limits DEF Edit
  <2> QED
    BY <2>2, <2>3 DEF Meet, fileVars
<1>3. VersionInv'
  <2>1. CASE UNCHANGED fileVars
    BY <2>1 DEF VersionInv, fileVars
  <2>2. CASE Meet
    <3>1. ASSUME NEW k \in 1 .. Len(read') PROVE read'[k] \in 0 .. edits'
      <4>1. k \in 1 .. Len(read) \/ k = Len(read) + 1
        BY <1>0, <2>2, MeetFacts
      <4> QED
        BY <1>0, <2>2, <4>1, MeetFacts DEF VersionInv
    <3>2. UNCHANGED <<size, seen, edits>>
      BY <2>2, MeetFacts
    <3> QED
      BY <3>1, <3>2 DEF VersionInv
  <2>3. CASE Edit
    BY <1>0, <2>3, Limits DEF Edit, VersionInv
  <2> QED
    BY <2>1, <2>2, <2>3
<1>4. ChangedMeanwhile => ChangedMeanwhile'
  <2> SUFFICES ASSUME NEW k \in DOMAIN read, read[k] # read[1] PROVE read'[k] # read'[1] /\ k \in DOMAIN read'
    BY DEF ChangedMeanwhile
  <2> QED
    BY <1>0, <1>1
<1>5. ASSUME NEW n, NEW v \in 0 .. edits, IsVersion(n, v) PROVE v \in 0 .. edits' /\ IsVersion(n, v)'
  <2>1. n \in Nat /\ n < Len(read) /\ n = seen'[v + 1] /\ v \in 0 .. edits'
    BY <1>0, <1>2, <1>5 DEF IsVersion
  <2>2. \A k \in 1 .. n : read'[k + 1] = v
    BY <1>1, <1>5, <2>1 DEF IsVersion
  <2> QED
    BY <1>1, <2>1, <2>2 DEF IsVersion
<1>6. read # <<>> => seen'[read'[1] + 1] = seen[read[1] + 1]
  <2> SUFFICES ASSUME read # <<>> PROVE seen'[read'[1] + 1] = seen[read[1] + 1]
    OBVIOUS
  <2>1. 1 \in 1 .. Len(read)
    BY <1>0
  <2> QED
    BY <1>1, <1>2, <2>1 DEF VersionInv
<1>7. \A n : Fine(n) => Fine(n)'
  BY <1>4, <1>5 DEF Fine
<1> QED
  BY <1>0, <1>1, <1>3, <1>4, <1>5, <1>6, <1>7

\* What was told and read stays so.
LEMMA ToldKept ==
    ASSUME TypeOK, VersionInv, UNCHANGED fileVars \/ Meet \/ Edit, UNCHANGED total, NEW n \in Nat, Told(n)
    PROVE  Told(n)'
<1>1. Len(read) \in Nat /\ read # <<>>
  BY DEF TypeOK, Told
<1> QED
  BY <1>1, VersionsKept DEF Told

\* One chunk more of what was told, or the end of it.
LEMMA ReadOn ==
    ASSUME TypeOK, VersionInv, Meet, UNCHANGED total, NEW n \in Nat, Told(n)
    PROVE  /\ n < size => Told(n + 1)'
           /\ n >= size => Fine(n)' /\ (ChangedMeanwhile' \/ n = total)
<1>0. /\ read \in Seq(Nat) /\ Len(read) \in Nat /\ Len(read) > n /\ total = seen[read[1] + 1] /\ edits \in Nat
      /\ size \in Nat /\ read # <<>> /\ 1 \in 1 .. Len(read) /\ DOMAIN read = 1 .. Len(read)
  BY Limits DEF TypeOK, Told
<1>1. seen'[read'[1] + 1] = total' /\ Len(read') > n + 1 /\ (ChangedMeanwhile => ChangedMeanwhile')
  BY <1>0, MeetFacts, VersionsKept
<1>2. ASSUME ~ChangedMeanwhile' PROVE n <= total /\ total = size /\ \A k \in 1 .. Len(read) + 1 : read'[k] = edits
  <2>1. \A k \in 1 .. Len(read) + 1 : read'[k] = read'[1]
    BY <1>2, MeetFacts DEF ChangedMeanwhile
  <2>2. read'[1] = edits
    BY <1>0, <2>1, MeetFacts
  <2>3. read[1] = edits
    BY <1>0, <2>2, MeetFacts
  <2>4. total = size
    BY <1>0, <2>3 DEF VersionInv
  <2> QED
    BY <1>1, <1>2, <2>1, <2>2, <2>4 DEF Told
<1>3. n < size => Told(n + 1)'
  BY <1>0, <1>1, <1>2 DEF Told
<1>4. ASSUME n >= size, ~ChangedMeanwhile' PROVE n = total /\ \E v \in 0 .. edits' : IsVersion(n, v)'
  <2>1. n = size /\ n = total
    BY <1>0, <1>2, <1>4
  <2>2. n = seen'[edits + 1] /\ edits \in 0 .. edits'
    BY <1>0, <2>1, MeetFacts DEF VersionInv
  <2>3. n < Len(read') /\ \A k \in 1 .. n : read'[k + 1] = edits
    BY <1>0, <1>2, <1>4, MeetFacts
  <2> QED
    BY <2>1, <2>2, <2>3 DEF IsVersion
<1> QED
  BY <1>3, <1>4 DEF Fine

LEMMA FileStep ==
    ASSUME TypeOK, ChainInv, FileInv, Next
    PROVE  FileInv'
<1>0. RouteInv /\ EarlyInv /\ MainOK /\ ProcOK /\ VersionInv
  BY TypeParts DEF ChainInv, FileInv
<1>t. 1 \in Procs /\ Tip \in Procs /\ None \notin Nat /\ MaxEdits \in Nat
  BY TipFacts, Limits DEF ChainInv
<1>w. job.wanted = Local => st[Tip] = "absent" /\ st[1] = "absent" /\ main \notin {"start", "await"}
  BY <1>0, <1>t DEF EarlyInv
<1>m. UNCHANGED fileVars \/ Meet \/ Edit
  BY FileMoves
<1>v. VersionInv' /\ (\A n : Fine(n) => Fine(n)')
  BY <1>0, <1>m, VersionsKept
<1>k. ASSUME UNCHANGED total, NEW n \in Nat, Told(n) PROVE Told(n)'
  BY <1>0, <1>k, <1>m, ToldKept
\* The client only moves on or returns.
<1>a. ASSUME UNCHANGED <<job, total, sent, route>>, main' \in {main, "done"},
             main' = "done" \/ (staged' = staged /\ (read' = read \/ main \notin {"size", "download", "resolve", "start"})),
             main' = "done" /\ staged # None => staged' \in {staged, None}, staged = None => staged' = None,
             st'[1] = "absent" <=> st[1] = "absent",
             temp' \in {temp, None} \/ (job.wanted # Local /\ main \notin {"size", "download"})
      PROVE  FileInv'
  <2>1. (Tunnel' <=> Tunnel) /\ sent \in Nat /\ staged \in Nat \cup {None}
    BY <1>0, <1>a DEF Tunnel, MainOK
  <2>2. job.source = "local" /\ st[1] # "absent" => Told(sent)'
    BY <1>a, <1>k, <2>1 DEF FileInv
  <2>3. main' = "download" => Told(staged)'
    BY <1>a, <1>k, <2>1 DEF FileInv
  <2> QED
    BY <1>a, <1>v, <2>1, <2>2, <2>3 DEF FileInv
<1>1. CASE Edit
  BY <1>1, <1>a DEF Edit, jobVars, destVars, procVars
<1>2. CASE AskSize
  <2>1. /\ st' = st /\ st[1] = "absent" /\ UNCHANGED <<job, sent, temp>> /\ main' = "download" /\ staged' = 0
        /\ main = "size" /\ total' = size /\ Meet
    BY <1>0, <1>2, <1>t DEF AskSize, EarlyInv, chainVars, procVars, destVars, jobVars
  <2>2. read = <<>> /\ size \in Nat /\ job.source \in {"ssh", "hop"} /\ edits \in Nat
    BY <1>0, <2>1, Limits DEF FileInv, MainOK
  <2>3. Len(read') = 1 /\ read'[1] = edits /\ DOMAIN read' = 1 .. 1 /\ UNCHANGED <<size, seen, edits>>
    BY <2>1, <2>2, MeetFacts
  <2>4. Told(0)'
    BY <2>1, <2>2, <2>3, <1>0 DEF Told, VersionInv
  <2> QED
    BY <1>v, <2>1, <2>2, <2>3, <2>4 DEF FileInv
<1>3. CASE DownloadChunk
  <2>1. /\ UNCHANGED <<job, total, sent, temp, st, main>> /\ main = "download"
        /\ staged' = staged + 1 /\ staged < size /\ Meet
    BY <1>3 DEF DownloadChunk, chainVars, procVars, destVars, jobVars
  <2>2. staged \in Nat /\ total \in Nat /\ Told(staged) /\ Len(read) = staged + 1 /\ st[1] = "absent"
    BY <1>0, <1>t, <2>1 DEF FileInv, EarlyInv
  <2>3. PICK n \in Nat : n = staged
    BY <2>2
  <2>4. staged' \in Nat /\ Len(read') = staged' + 1 /\ Told(staged)'
    <3>1. Told(n + 1)' /\ Len(read') = n + 2
      BY <1>0, <2>1, <2>2, <2>3, ReadOn, MeetFacts
    <3> QED
      BY <2>1, <2>3, <3>1
  <2> QED
    BY <1>v, <2>1, <2>2, <2>4 DEF FileInv
<1>4. CASE DownloadEnds
  <2>1. CASE Stop("error", None)
    BY <1>4, <2>1, <1>a DEF DownloadEnds, Stop, chainVars, procVars, destVars, jobVars
  <2>2. CASE ~Stop("error", None)
    <3>1. /\ UNCHANGED <<job, total, sent, staged, temp, st>> /\ main' = "resolve" /\ main = "download" /\ Meet
          /\ job.source = "hop" => staged = total
          /\ staged >= size
      BY <1>4, <2>2 DEF DownloadEnds, chainVars, procVars, destVars, jobVars
    <3>2. staged \in Nat /\ total \in Nat /\ Told(staged) /\ job.source \in {"ssh", "hop"} /\ st[1] = "absent"
      BY <1>0, <1>t, <3>1 DEF FileInv, EarlyInv
    <3>3. Fine(staged)'
      <4>1. PICK n \in Nat : n = staged
        BY <3>2
      <4>2. Fine(n)'
        BY <1>0, <3>1, <3>2, <4>1, ReadOn
      <4> QED
        BY <3>1, <4>1, <4>2
    <3>4. temp = None
      BY <3>1 DEF FileInv
    <3> QED
      BY <1>v, <3>1, <3>2, <3>3, <3>4 DEF FileInv
  <2> QED
    BY <2>1, <2>2
<1>5. CASE DownloadFails \/ DownloadBreaks \/ LocalWriteFails \/ RenamePart
  BY <1>5, <1>a DEF DownloadFails, DownloadBreaks, LocalWriteFails, RenamePart, Stop, chainVars, procVars,
                    destVars, jobVars
<1>6. CASE CopyToPart
  <2>1. /\ UNCHANGED <<job, fileVars, total, sent, staged, st, main>> /\ main = "resolve" /\ temp' = staged
        /\ st[1] = "absent"
    BY <1>0, <1>6, <1>t DEF CopyToPart, EarlyInv, chainVars, procVars, jobVars
  <2> QED
    BY <1>v, <2>1 DEF FileInv, fileVars
<1>7. CASE Resolve
  <2>1. CASE Stop("error", None)
    BY <1>7, <2>1, <1>a DEF Resolve, Stop, chainVars, procVars, destVars, jobVars
  <2>2. CASE ~Stop("error", None)
    <3>1. /\ UNCHANGED <<job, fileVars, total, sent, staged, temp, st>> /\ main' \in {"resolve", "start"}
          /\ main = "resolve" /\ st[1] = "absent"
      BY <1>0, <1>7, <1>t, <2>2 DEF Resolve, EarlyInv, chainVars, procVars, destVars, jobVars
    <3> QED
      BY <1>v, <3>1 DEF FileInv, fileVars
  <2> QED
    BY <2>1, <2>2
<1>8. CASE Start
  <2>1. /\ UNCHANGED <<job, sent, staged>> /\ main' = "await" /\ main = "start" /\ sent = 0 /\ job.wanted # Local
        /\ ~Tunnel => total' = Input
        /\ MeetLocal
    BY <1>0, <1>8, <1>w DEF Start, EarlyInv, jobVars
  <2>2. size \in Nat /\ edits \in Nat /\ (Tunnel' <=> Tunnel)
    BY <1>0, <2>1, Limits DEF MainOK, Tunnel
  <2>3. CASE job.source = "local"
    <3>1. staged = None /\ read = <<>> /\ ~Tunnel /\ Meet
      BY <2>1, <2>3 DEF FileInv, Tunnel, MeetLocal
    <3>2. Len(read') = 1 /\ read'[1] = edits /\ DOMAIN read' = 1 .. 1 /\ UNCHANGED <<size, seen, edits>> /\ total' = size
      BY <2>1, <3>1, MeetFacts DEF Input
    <3>3. Told(sent)'
      BY <2>1, <2>2, <3>2, <1>0 DEF Told, VersionInv
    <3> QED
      BY <1>v, <2>1, <2>2, <2>3, <3>1, <3>2, <3>3 DEF FileInv
  <2>4. CASE job.source \in {"ssh", "hop"}
    <3>1. staged \in Nat /\ Fine(staged) /\ (job.source = "hop" => staged = total) /\ ~Tunnel
      BY <2>1, <2>4 DEF FileInv, Tunnel
    <3>2. total' = staged
      BY <1>t, <2>1, <3>1 DEF Input
    <3>3. Fine(total)'
      <4>1. PICK n \in Nat : n = staged
        BY <3>1
      <4>2. Fine(n)'
        BY <1>v, <3>1, <4>1
      <4> QED
        BY <3>2, <4>1, <4>2
    <3> QED
      BY <1>v, <2>1, <2>2, <2>4, <3>1, <3>2, <3>3 DEF FileInv
  <2>5. CASE Tunnel
    <3>1. Tunnel' /\ job'.source \notin {"local", "ssh", "hop"} /\ staged' = staged
      BY <2>1, <2>2, <2>5 DEF Tunnel
    <3>2. staged' # None => sent' <= staged'
      BY <1>0, <2>1, <3>1 DEF MainOK
    <3> QED
      BY <1>v, <2>1, <3>1, <3>2 DEF FileInv
  <2> QED
    BY <1>0, <2>3, <2>4, <2>5, JobFacts DEF MainOK
<1>9. CASE Send
  <2>1. /\ UNCHANGED <<job, staged, total, st, main, temp>> /\ main = "await" /\ MeetLocal /\ job.wanted # Local
        /\ sent' = sent \/ (~Tunnel /\ sent < Input /\ sent' = sent + 1)
    BY <1>9, <1>w DEF Send, jobVars, procVars, destVars
  <2>2. sent \in Nat /\ staged \in Nat \cup {None} /\ (Tunnel' <=> Tunnel)
    BY <1>0, <2>1 DEF MainOK, Tunnel
  <2>3. staged # None => sent' <= staged'
    BY <2>1, <2>2 DEF FileInv, Input
  <2>4. job.source = "local" /\ st[1] # "absent" => Told(sent)'
    <3> SUFFICES ASSUME job.source = "local", st[1] # "absent" PROVE Told(sent)'
      OBVIOUS
    <3>1. staged = None /\ Told(sent) /\ Meet
      BY <2>1 DEF FileInv, MeetLocal
    <3>2. PICK n \in Nat : n = sent
      BY <2>2
    <3>3. Told(n)' /\ (n < size => Told(n + 1)')
      BY <1>0, <1>k, <2>1, <3>1, <3>2, ReadOn
    <3>4. sent' = n \/ (n < size /\ sent' = n + 1)
      BY <2>1, <3>1, <3>2 DEF Input
    <3> QED
      BY <3>3, <3>4
  <2> QED
    BY <1>v, <2>1, <2>2, <2>3, <2>4 DEF FileInv
<1>10. CASE StartFails \/ SendEof \/ LocalReadFails \/ Receive \/ ReceiveFails \/ Finish
  BY <1>10, <1>a DEF StartFails, SendEof, LocalReadFails, Receive, ReceiveFails, Finish, Stop, chainVars, mainVars, procVars,
                     destVars, jobVars, fileVars
<1>s. CASE Steady
  <2>1. st'[1] = "absent" <=> st[1] = "absent"
    BY <1>s, <1>t DEF Steady
  <2>2. CASE Command
    <3>1. st[Tip] # "absent"
      BY <1>0, <2>2 DEF Command, CatChunk, CatEnds, Move, ScriptFails, Dial, Upstream, Downstream, ServiceCloses,
                        DownstreamEnds, ServiceFails
    <3>2. job.wanted # Local /\ main \notin {"size", "download"}
      BY <1>0, <1>t, <3>1 DEF EarlyInv
    <3> QED
      BY <1>a, <2>1, <2>2, <3>2, Untouched DEF mainVars, jobVars, fileVars
  <2>3. ASSUME NEW i \in Procs, Helper(i) \/ LinkBreaks(i) PROVE FileInv'
    <3>1. \E j \in Procs : st[j] # "absent"
      BY <2>3 DEF Helper, Connect, ConnectFails, ForwardUp, ForwardEof, ShortStdin, Feeding, ForwardDown,
                 ChildExited, ChildIsOver, WriteFails, Exit, LinkBreaks
    <3>2. job.wanted # Local /\ main \notin {"size", "download"}
      BY <1>0, <3>1 DEF EarlyInv
    <3>3. CASE UNCHANGED mainVars
      BY <1>a, <2>1, <3>2, <3>3 DEF mainVars, jobVars, fileVars
    <3>4. CASE ~UNCHANGED mainVars
      BY <1>a, <2>1, <2>3, <3>2, <3>4, Untouched DEF LinkBreaks, Stop, jobVars
    <3> QED
      BY <3>3, <3>4
  <2> QED
    BY <1>1, <1>2, <1>3, <1>4, <1>5, <1>6, <1>7, <1>8, <1>9, <1>10, <2>2, <2>3 DEF Next, File, Client
<1>c. ASSUME NEW i \in Procs, Connect(i) PROVE FileInv'
  <2>1. st[1] # "absent" /\ job.wanted # Local /\ main \notin {"size", "download"}
    BY <1>0, <1>t, <1>c, <1>w DEF EarlyInv, Connect
  <2>2. st'[1] # "absent"
    BY <1>0, <1>c, <1>t, <2>1 DEF Connect, ProcOK
  <2> QED
    BY <1>a, <1>c, <2>1, <2>2 DEF Connect, mainVars, jobVars, fileVars
<1> QED
  BY <1>7, <1>8, <1>s, <1>c, OftenSteady

----------------------------------------------------------------------------
(* The first invariant: types, the chain, the file and its temporary.      *)

HopInv == TypeOK /\ ChainInv /\ QuietInv /\ TempInv /\ FileInv

LEMMA HopInit == Init => HopInv
<1> SUFFICES ASSUME Init PROVE HopInv
  OBVIOUS
<1>1. /\ MaxHops \in Nat \ {0} /\ Cap \in Nat \ {0} /\ MaxEdits \in Nat /\ Sizes \subseteq Nat /\ None \notin Nat
      /\ 1 \in Procs /\ Procs \subseteq Nat \ {0}
      /\ \A i \in 1 .. MaxHops : i \in Procs /\ i + 1 \in Procs
  BY Limits DEF Procs
<1>2. TypeOK
  <2>1. size \in Nat /\ seen \in Seq(Nat) /\ read \in Seq(Nat) /\ cli \in Ends /\ srv \in Ends
    BY <1>1 DEF Init, Ends
  <2>2. route \in Seq(Hosts)
    BY DEF Init
  <2>3. ProcOK /\ LinkOK
    BY <1>1 DEF Init, ProcOK, LinkOK
  <2>4. MainOK
    BY <1>1, <2>1, <2>2 DEF Init, MainOK
  <2>5. DestOK /\ EndsOK
    BY <2>1 DEF Init, DestOK, EndsOK
  <2> QED
    BY <2>3, <2>4, <2>5, TypeParts
<1>3. /\ route = <<>> /\ Len(route) = 0 /\ main \notin {"start", "await", "download"} /\ sent = 0
      /\ \A i \in Procs : /\ st[i] = "absent" /\ host[i] = None /\ up[i] = 0 /\ down[i] = 0 /\ ~eof[i]
  BY <1>1 DEF Init
<1>4. RouteInv
  BY <1>1, <1>3 DEF RouteInv
<1>5. EarlyInv /\ (\A i \in Procs : LegInv(i)) /\ (\A i \in 1 .. MaxHops : PairInv(i))
  BY <1>1, <1>3 DEF EarlyInv, LegInv, PairInv, Gone
<1>6. ChainInv
  BY <1>4, <1>5 DEF ChainInv
<1>7. QuietInv
  BY <1>3 DEF QuietInv
<1>8. TempInv
  <2>1. Tip \in Procs /\ temp = None
    BY <1>2, <1>4, TipFacts DEF Init
  <2> QED
    BY <1>3, <2>1 DEF TempInv
<1>9. FileInv
  <2>1. job.source \in {"ssh", "hop", "local", "tcp"}
    BY <1>2, ExecHopAssumption DEF TypeOK, JobKinds
  <2>2. main = "resolve" => job.source \notin {"ssh", "hop"} /\ staged = None
    BY DEF Init
  <2>3. VersionInv /\ read = <<>> /\ temp = None /\ staged = None
    BY DEF Init, VersionInv
  <2>4. main = "resolve" => job.source \in {"local", "tcp"}
    BY <2>1, <2>2
  <2> QED
    BY <1>1, <1>3, <2>1, <2>3, <2>4 DEF Init, FileInv, Tunnel
<1> QED
  BY <1>2, <1>6, <1>7, <1>8, <1>9 DEF HopInv

LEMMA HopNext ==
    ASSUME HopInv, [Next]_vars
    PROVE  HopInv'
<1>1. CASE Next
  <2>1. TypeOK'
    BY <1>1, TypeStep DEF HopInv
  <2>2. ChainInv' /\ QuietInv'
    BY <1>1, ChainStep, QuietStep DEF HopInv
  <2>3. TempInv' /\ FileInv'
    BY <1>1, <2>1, TempStep, FileStep DEF HopInv
  <2> QED
    BY <2>1, <2>2, <2>3 DEF HopInv
<1>2. CASE UNCHANGED vars
  <2>1. TypeOK'
    BY <1>2 DEF HopInv, TypeOK, vars, jobVars, fileVars, destVars, procVars, linkVars, tcpVars
  <2>2. RouteInv' /\ EarlyInv'
    BY <1>2 DEF HopInv, ChainInv, RouteInv, EarlyInv, vars, jobVars, procVars, linkVars
  <2>3. (\A i \in Procs : LegInv(i)') /\ (\A i \in 1 .. MaxHops : PairInv(i)')
    BY <1>2 DEF HopInv, ChainInv, LegInv, PairInv, Gone, Tip, Request, Tunnel, vars, jobVars, procVars, linkVars
  <2>4. QuietInv' /\ TempInv'
    BY <1>2 DEF HopInv, QuietInv, TempInv, Tip, Tunnel, vars, jobVars, procVars, linkVars, destVars
  <2>5. FileInv'
    BY <1>2 DEF HopInv, FileInv, VersionInv, Told, Fine, IsVersion, ChangedMeanwhile, Tunnel, vars, jobVars, fileVars,
                destVars, procVars
  <2> QED
    BY <2>1, <2>2, <2>3, <2>4, <2>5 DEF HopInv, ChainInv, Procs
<1> QED
  BY <1>1, <1>2

\* What the client, the helpers, the command and the links know is of its type in every
\* state: no link holds more than its capacity, and no count goes below zero.
THEOREM ExecHopTypeCorrect == Spec => []TypeOK
<1>1. HopInv => TypeOK
  BY DEF HopInv
<1> QED
  BY <1>1, HopInit, HopNext, PTL DEF Spec

\* Whatever the configuration, a chain dials every host from the one its ProxyJump names,
\* its command runs on the host that was asked for, and nothing runs beyond it: the
\* requests that run_nested_exec and run_relay pop hop by hop agree with the configuration.
THEOREM EveryLegAlwaysKnowsItsHost == Spec => []EveryLegKnowsItsHost
<1>1. HopInv => EveryLegKnowsItsHost
  <2> SUFFICES ASSUME HopInv PROVE EveryLegKnowsItsHost
    OBVIOUS
  <2>0. TypeOK /\ RouteInv /\ EarlyInv /\ route \in Seq(Hosts)
    BY DEF HopInv, ChainInv, TypeOK
  <2>t. /\ 1 \in Procs /\ Tip \in Procs /\ Tip \in Nat \ {0} /\ Len(route) \in Nat /\ Tip = Len(route) + 1
        /\ Tip = 1 <=> route = <<>>
        /\ \A i \in 1 .. MaxHops : i \in Procs /\ i + 1 \in Procs /\ i \in Nat \ {0}
    BY <2>0, TipFacts, Limits DEF Procs, Tip
  <2>l. \A i \in Procs : LegInv(i)
    BY DEF HopInv, ChainInv
  <2>e. \A i \in Procs : host[i] # None => st[i] # "absent" /\ st[1] # "absent"
    BY <2>0, <2>l DEF LegInv, EarlyInv
  <2>1. ASSUME NEW i \in 1 .. MaxHops, host[i + 1] # None PROVE via[host[i + 1]] = host[i]
    <3>1. st[i + 1] # "absent" /\ st[1] # "absent" /\ LegInv(i + 1) /\ LegInv(i)
      BY <2>1, <2>t, <2>l, <2>e
    <3>2. host[i + 1] = route[i] /\ i + 1 <= Tip
      BY <2>t, <3>1 DEF LegInv
    <3>3. st[i] # "absent"
      BY <3>1 DEF HopInv, ChainInv, PairInv
    <3>4. host[i] = IF i = 1 THEN Entry ELSE route[i - 1]
      BY <3>1, <3>3 DEF LegInv
    <3>5. CASE i = 1
      BY <2>0, <2>t, <3>1, <3>2, <3>4, <3>5 DEF RouteInv
    <3>6. CASE i # 1
      <4>1. i - 1 \in 1 .. Len(route) - 1 /\ (i - 1) + 1 = i
        BY <2>t, <3>2, <3>6
      <4>2. via[route[i]] = route[i - 1]
        BY <2>0, <4>1 DEF RouteInv
      <4> QED
        BY <3>2, <3>4, <3>6, <4>2
    <3> QED
      BY <3>5, <3>6
  <2>2. ASSUME host[Tip] # None PROVE host[Tip] = job.wanted
    <3>1. LegInv(Tip) /\ st[Tip] # "absent" /\ st[1] # "absent"
      BY <2>2, <2>t, <2>l, <2>e
    <3>2. host[Tip] = IF Tip = 1 THEN Entry ELSE route[Tip - 1]
      BY <3>1 DEF LegInv
    <3>3. CASE route = <<>>
      BY <2>0, <2>t, <3>1, <3>2, <3>3 DEF RouteInv
    <3>4. CASE route # <<>>
      <4>1. Tip - 1 = Len(route) /\ Tip # 1
        BY <2>t, <3>4
      <4> QED
        BY <2>0, <3>2, <3>4, <4>1 DEF RouteInv
    <3> QED
      BY <3>3, <3>4
  <2>3. \A i \in Procs : i > Tip => host[i] = None
    BY <2>l DEF LegInv
  <2> QED
    BY <2>1, <2>2, <2>3 DEF EveryLegKnowsItsHost
<1> QED
  BY <1>1, HopInit, HopNext, PTL DEF Spec

----------------------------------------------------------------------------
(* How processes end.                                                      *)

\* A process that is gone stays so, with its status, and adds nothing to its output; and
\* one that leaves well is the command, which did, or a helper whose child did.
LEMMA Fates ==
    ASSUME TypeOK, ChainInv, Next, NEW i \in Procs
    PROVE  /\ Gone(i) => Gone(i)' /\ code'[i] = code[i]
           /\ st[i] = "exited" => st'[i] = "exited"
           /\ Gone(i) /\ down[i] = 0 => down'[i] = 0
           /\ Good(i)' /\ ~Gone(i) =>
                  \/ i = Tip /\ (Move \/ DownstreamEnds)
                  \/ i < Tip /\ Good(i + 1) /\ st[i + 1] = "exited" /\ down[i + 1] = 0
<1>0. ProcOK /\ LinkOK /\ RouteInv /\ EarlyInv
  BY TypeParts DEF ChainInv
<1>t. Tip \in Procs /\ 1 \in Procs /\ \A j \in Procs : j \in Nat /\ (j < Tip => j + 1 \in Procs)
  BY TipFacts DEF ChainInv
<1> DEFINE Fate == /\ Gone(i) => Gone(i)' /\ code'[i] = code[i]
                   /\ st[i] = "exited" => st'[i] = "exited"
                   /\ Gone(i) /\ down[i] = 0 => down'[i] = 0
                   /\ Good(i)' /\ ~Gone(i) =>
                          \/ i = Tip /\ (Move \/ DownstreamEnds)
                          \/ i < Tip /\ Good(i + 1) /\ st[i + 1] = "exited" /\ down[i + 1] = 0
           Still == Gone(i) /\ down[i] = 0 => down'[i] = 0
<1>a. ASSUME st' = st, code' = code, Still PROVE Fate
  BY <1>a DEF Gone, Good
<1>b. ASSUME NEW p \in Procs, NEW c, Leaves(p, c), ~Gone(p), Still,
             c = 0 /\ p = i => \/ i = Tip /\ (Move \/ DownstreamEnds)
                               \/ i < Tip /\ Good(i + 1) /\ st[i + 1] = "exited" /\ down[i + 1] = 0
      PROVE  Fate
  <2>1. /\ st'[p] = "leave" /\ code'[p] = c
        /\ i # p => st'[i] = st[i] /\ code'[i] = code[i]
    BY <1>0, <1>b DEF Leaves, ProcOK
  <2> QED
    BY <1>b, <2>1 DEF Gone, Good
<1>c. ASSUME NEW p \in Procs, NEW s \in {"new", "run", "eof", "exited"}, st' = [st EXCEPT ![p] = s], code' = code,
             st[p] \in {"absent", "new", "run"} \/ (st[p] = "leave" /\ s = "exited"), Still, s = "exited" => st[p] = "leave"
      PROVE  Fate
  <2>1. /\ st'[p] = s
        /\ i # p => st'[i] = st[i]
    BY <1>0, <1>c DEF ProcOK
  <2> QED
    BY <1>c, <2>1 DEF Gone, Good
<1>1. CASE File
  BY <1>1, <1>a, Untouched DEF chainVars, procVars, linkVars
<1>2. CASE Resolve \/ StartFails \/ Send \/ SendEof \/ LocalReadFails \/ ReceiveFails \/ Finish
  BY <1>2, <1>a DEF Resolve, StartFails, Send, SendEof, LocalReadFails, ReceiveFails, Finish, chainVars, procVars, linkVars
<1>3. CASE Receive
  BY <1>0, <1>3, <1>a DEF Receive, procVars, LinkOK
<1>4. CASE Start
  BY <1>0, <1>4, <1>c, <1>t DEF Start, linkVars, EarlyInv
<1>5. CASE CatChunk \/ Upstream \/ ServiceCloses
  BY <1>5, <1>a DEF CatChunk, Upstream, ServiceCloses, procVars, linkVars
<1>6. CASE Downstream
  BY <1>0, <1>6, <1>a DEF Downstream, procVars, LinkOK, Gone
<1>7. CASE CatEnds \/ Dial
  BY <1>7, <1>c, <1>t DEF CatEnds, Dial, linkVars
<1>8. CASE Move \/ DownstreamEnds
  BY <1>8, <1>b, <1>t DEF Move, DownstreamEnds, linkVars, Gone
<1>9. CASE ScriptFails \/ ServiceFails
  BY <1>9, <1>b, <1>t DEF ScriptFails, ServiceFails, linkVars, Gone
<1>10. ASSUME NEW p \in Procs, Connect(p) PROVE Fate
  <2>1. /\ st'[p] = "run" /\ st'[p + 1] \in {"run", "new"} /\ st[p] = "new" /\ st[p + 1] = "absent"
        /\ i \notin {p, p + 1} => st'[i] = st[i]
        /\ down' = down /\ code' = code
    BY <1>10, ConnectFacts DEF Connect, linkVars
  <2> QED
    BY <2>1 DEF Gone, Good
<1>11. ASSUME NEW p \in Procs, ConnectFails(p) PROVE Fate
  BY <1>11, <1>b DEF ConnectFails, linkVars, Gone
<1>12. ASSUME NEW p \in Procs, ChildExited(p) PROVE Fate
  <2>1. /\ p < Tip /\ st[p] = "run" /\ st[p + 1] = "exited" /\ down[p + 1] = 0 /\ down' = down
        /\ Leaves(p, 1) \/ Leaves(p, code[p + 1])
    BY <1>12 DEF ChildExited, ChildIsOver, linkVars
  <2>2. code[p + 1] = 0 => Good(p + 1)
    BY <2>1 DEF Good, Gone
  <2> QED
    BY <1>b, <2>1, <2>2 DEF Gone
<1>13. ASSUME NEW p \in Procs, WriteFails(p) PROVE Fate
  <2>1. Still /\ Leaves(p, 1) /\ ~Gone(p)
    BY <1>0, <1>13 DEF WriteFails, LinkOK, Gone
  <2> QED
    BY <1>b, <2>1
<1>14. ASSUME NEW p \in Procs, ForwardUp(p) \/ ForwardEof(p) \/ ShortStdin(p) PROVE Fate
  BY <1>14, <1>a DEF ForwardUp, ForwardEof, ShortStdin, linkVars
<1>15. ASSUME NEW p \in Procs, ForwardDown(p) PROVE Fate
  <2>1. Still
    <3>1. p # p + 1 /\ p + 1 \in Procs /\ p \in Nat
      BY <1>15, <1>t DEF ForwardDown
    <3>2. CASE i = p
      BY <1>15, <3>2 DEF ForwardDown, Gone
    <3>3. CASE i = p + 1
      BY <1>15, <3>3 DEF ForwardDown
    <3>4. CASE i # p /\ i # p + 1
      BY <1>0, <1>15, <3>4 DEF ForwardDown, LinkOK
    <3> QED
      BY <3>2, <3>3, <3>4
  <2> QED
    BY <1>15, <1>a, <2>1 DEF ForwardDown, procVars
<1>16. ASSUME NEW p \in Procs, Exit(p) PROVE Fate
  BY <1>16, <1>c DEF Exit
<1>17. ASSUME NEW p \in Procs, LinkBreaks(p) PROVE Fate
  <2>1. Still
    BY <1>0, <1>17 DEF LinkBreaks, LinkOK
  <2>2. CASE p = 1
    BY <1>17, <1>a, <2>1, <2>2 DEF LinkBreaks
  <2>3. CASE p > 1
    <3>1. p - 1 \in Procs
      BY <2>3, Limits DEF Procs
    <3>2. Leaves(p - 1, 1) /\ ~Gone(p - 1)
      BY <1>17, <1>t, <2>3 DEF LinkBreaks, Gone
    <3> QED
      BY <1>b, <2>1, <3>1, <3>2
  <2> QED
    BY <1>17, <2>2, <2>3 DEF LinkBreaks
<1> QED
  BY <1>1, <1>2, <1>3, <1>4, <1>5, <1>6, <1>7, <1>8, <1>9, <1>10, <1>11, <1>12, <1>13, <1>14, <1>15, <1>16, <1>17
     DEF Next, Client, Command, Helper

\* Once the command has returned, the client changes nothing.
LEMMA Ended ==
    ASSUME TypeOK, ChainInv, Next, main = "done"
    PROVE  /\ UNCHANGED <<job, main, result, route, staged, total, sent, lost>>
           /\ feeder'[0] = feeder[0]
           /\ job.wanted = Local => temp' = temp
           /\ cli' = cli
<1>0. ProcOK /\ EarlyInv
  BY TypeParts DEF ChainInv
<1>t. Tip \in Procs /\ 0 \notin Procs
  BY TipFacts DEF ChainInv, Procs
<1>1. ~File /\ ~Client
  BY DEF File, Edit, AskSize, DownloadChunk, DownloadEnds, DownloadFails, DownloadBreaks, CopyToPart, RenamePart,
         LocalWriteFails, Client, Resolve, Start, StartFails, Send, SendEof, LocalReadFails, Receive, ReceiveFails, Finish
<1>2. \A i \in Procs : ~LinkBreaks(i)
  BY DEF LinkBreaks
<1>3. CASE Command
  <2>1. UNCHANGED mainVars
    BY <1>3, Untouched
  <2>2. UNCHANGED <<lost, cli>> /\ feeder'[0] = feeder[0]
    BY <1>0, <1>3, <1>t DEF Command, CatChunk, CatEnds, Move, ScriptFails, Dial, Upstream, Downstream, ServiceCloses,
                            DownstreamEnds, ServiceFails, procVars, tcpVars, ProcOK
  <2>3. st[Tip] # "absent"
    BY <1>3 DEF Command, CatChunk, CatEnds, Move, ScriptFails, Dial, Upstream, Downstream, ServiceCloses, DownstreamEnds, ServiceFails
  <2> QED
    BY <1>0, <1>t, <2>1, <2>2, <2>3 DEF EarlyInv, mainVars, jobVars
<1>4. ASSUME NEW i \in Procs, Helper(i)
      PROVE  /\ UNCHANGED <<mainVars, lost, cli>> /\ feeder'[0] = feeder[0] /\ (job.wanted = Local => temp' = temp)
  <2>1. UNCHANGED mainVars
    BY <1>4, Untouched
  <2>2. UNCHANGED <<lost, cli>>
    BY <1>4 DEF Helper, Connect, ConnectFails, ForwardUp, ForwardEof, ShortStdin, ForwardDown, ChildExited,
                WriteFails, Exit, tcpVars
  <2>3. feeder'[0] = feeder[0]
    BY <1>0, <1>4, <1>t DEF Helper, Connect, ConnectFails, ForwardUp, ForwardEof, ShortStdin, ForwardDown, ChildExited,
                WriteFails, Exit, procVars, ProcOK
  <2>4. temp' = temp \/ st[i] # "absent"
    BY <1>4 DEF Helper, Connect, ConnectFails, ForwardUp, ForwardEof, ShortStdin, ForwardDown, ChildExited,
                WriteFails, Exit, destVars
  <2> QED
    BY <1>0, <2>1, <2>2, <2>3, <2>4 DEF EarlyInv
<1> QED
  BY <1>1, <1>2, <1>3, <1>4 DEF Next, mainVars, jobVars

\* The route is fixed once something runs.
LEMMA RouteFixed ==
    ASSUME TypeOK, ChainInv, Next
    PROVE  \/ Resolve /\ st' = st /\ \A i \in Procs : st[i] = "absent"
           \/ ~Resolve /\ UNCHANGED <<job, route>>
<1>1. EarlyInv
  BY DEF ChainInv
<1>2. CASE Resolve
  BY <1>1, <1>2 DEF Resolve, EarlyInv, chainVars, procVars
<1>3. CASE ~Resolve
  BY <1>3, OftenSteady DEF Steady, Start, Connect, mainVars, jobVars
<1> QED
  BY <1>2, <1>3

\* The service has no more to send once it shut down its side.
LEMMA ServiceStep ==
    ASSUME TypeOK, Next, srv.closed => srv.left = 0
    PROVE  /\ srv.closed => srv'.closed
           /\ srv'.closed => srv'.left = 0
<1>0. srv \in Ends
  BY DEF TypeOK
<1>1. CASE srv' = srv
  BY <1>1
<1>2. CASE Upstream
  <2>1. srv' = [srv EXCEPT !.got = @ + 1] \/ srv' = [srv EXCEPT !.eof = TRUE]
    BY <1>2 DEF Upstream
  <2> QED
    BY <1>0, <2>1 DEF Ends
<1>3. CASE Downstream
  <2>1. srv' = [srv EXCEPT !.left = @ - 1] /\ srv.left > 0
    BY <1>3 DEF Downstream
  <2> QED
    BY <1>0, <2>1 DEF Ends
<1>4. CASE ServiceCloses \/ DownstreamEnds
  <2>1. (srv' = [srv EXCEPT !.closed = TRUE] /\ srv.left = 0) \/ srv' = [srv EXCEPT !.eof = TRUE]
    BY <1>4 DEF ServiceCloses, DownstreamEnds, ServiceFails
  <2> QED
    BY <1>0, <2>1 DEF Ends
<1>5. CASE File
  BY <1>1, <1>5, Untouched DEF chainVars, tcpVars
<1>6. CASE Client \/ \E i \in Procs : Helper(i) \/ LinkBreaks(i)
  BY <1>1, <1>6
     DEF Client, Resolve, Start, StartFails, Send, SendEof, LocalReadFails, Receive, ReceiveFails, Finish, Helper, Connect,
         ConnectFails, ForwardUp, ForwardEof, ShortStdin, ForwardDown, ChildExited, WriteFails, Exit, LinkBreaks,
         chainVars, tcpVars
<1>7. CASE CatChunk \/ CatEnds \/ Move \/ ScriptFails \/ Dial \/ ServiceFails
  BY <1>1, <1>7 DEF CatChunk, CatEnds, Move, ScriptFails, Dial, ServiceFails, tcpVars
<1> QED
  BY <1>2, <1>3, <1>4, <1>5, <1>6, <1>7 DEF Next, Command

\* Nobody writes to the temporary of a command that is gone.
LEMMA TempKept ==
    ASSUME TypeOK, ChainInv, Next, Gone(Tip)
    PROVE  temp' = temp
<1>0. EarlyInv
  BY DEF ChainInv
<1>t. Tip \in Procs /\ 1 \in Procs /\ st[Tip] \in {"leave", "exited"}
  BY TipFacts DEF ChainInv, Gone
<1>1. st[1] # "absent" /\ job.wanted # Local /\ main \notin {"start", "resolve"}
  BY <1>0, <1>t DEF EarlyInv
<1>2. ASSUME NEW i \in Procs, Connect(i) PROVE temp' = temp
  <2>1. i < Tip /\ (Rest(i) = <<>> <=> i + 1 = Tip) /\ st[i + 1] = "absent"
    BY <1>2, ConnectFacts, RequestFacts DEF Rest, ChainInv
  <2> QED
    BY <1>2, <1>t, <2>1 DEF Connect
<1>3. CASE File \/ Client
  BY <1>1, <1>3
     DEF File, Edit, AskSize, DownloadChunk, DownloadEnds, DownloadFails, DownloadBreaks, CopyToPart, RenamePart,
         LocalWriteFails, Client, Resolve, Start, StartFails, Send, SendEof, LocalReadFails, Receive, ReceiveFails, Finish, destVars
<1>4. CASE Command
  BY <1>t, <1>4
     DEF Command, CatChunk, CatEnds, Move, ScriptFails, Dial, Upstream, Downstream, ServiceCloses, DownstreamEnds, ServiceFails, destVars
<1>5. ASSUME NEW i \in Procs, Helper(i) \/ LinkBreaks(i), ~Connect(i) PROVE temp' = temp
  BY <1>5 DEF Helper, ConnectFails, ForwardUp, ForwardEof, ShortStdin, ForwardDown, ChildExited,
              WriteFails, Exit, LinkBreaks, destVars
<1> QED
  BY <1>2, <1>3, <1>4, <1>5 DEF Next

\* The command succeeds by the answer of its chain, or by the copy on this machine.
LEMMA Succeeds ==
    ASSUME Next, result' = "ok", result # "ok"
    PROVE  RenamePart \/ Finish
<1>1. None # "ok"
  BY AbsenceAssumption
<1>2. CASE File
  BY <1>1, <1>2 DEF File, Edit, AskSize, DownloadChunk, DownloadEnds, DownloadFails, DownloadBreaks, CopyToPart,
                    LocalWriteFails, Stop
<1>3. CASE Client
  BY <1>1, <1>3 DEF Client, Resolve, Start, StartFails, Send, SendEof, LocalReadFails, Receive, ReceiveFails, Stop, mainVars
<1>4. CASE UNCHANGED mainVars
  BY <1>4 DEF mainVars
<1>5. ASSUME NEW i \in Procs, LinkBreaks(i) PROVE FALSE
  BY <1>1, <1>5 DEF LinkBreaks, Stop, mainVars
<1> QED
  BY <1>2, <1>3, <1>4, <1>5, Untouched DEF Next

LEMMA OutcomeStep ==
    ASSUME TypeOK, ChainInv, OutcomeInv, LostInv, Next
    PROVE  OutcomeInv'
<1>0. ProcOK /\ EndsOK /\ EarlyInv
  BY TypeParts DEF ChainInv
<1>t. /\ Tip \in Procs /\ 1 \in Procs /\ Tip \in Nat \ {0} /\ 1 .. Tip \subseteq Procs
      /\ \A i \in Procs : i \in Nat \ {0}
      /\ None \notin Nat
  BY TipFacts, Limits DEF ChainInv, Procs
<1>k. None # "ok" /\ None # "error"
  BY AbsenceAssumption
<1>r. CASE Resolve
  <2>1. \A i \in Procs : ~Good(i)'
    BY <1>r, RouteFixed DEF Good, Gone
  <2>2. Tip' \in Procs /\ 1 .. Tip' \subseteq Procs
    <3>1. RouteInv' /\ MaxHops \in Nat
      BY RouteStep, Limits
    <3>2. route' = route \/ Len(route') = Len(route) + 1
      <4>1. route \in Seq(Hosts)
        BY DEF TypeOK
      <4> QED
        BY <1>r, <4>1 DEF Resolve, Stop
    <3>3. Len(route') \in Nat
      BY <3>2 DEF TypeOK
    <3> QED
      BY <3>1, <3>3 DEF RouteInv, Tip, Procs
  <2>3. result' = "ok" => result = "ok" /\ main = "resolve"
    BY <1>r, <1>k DEF Resolve, Stop
  <2>4. srv' = srv
    BY <1>r DEF Resolve, chainVars, tcpVars
  <2> QED
    BY <2>1, <2>2, <2>3, <2>4 DEF OutcomeInv
<1>f. CASE ~Resolve
  <2>1. UNCHANGED <<job, route>> /\ Tip' = Tip /\ (Tunnel' <=> Tunnel)
    BY <1>f, RouteFixed DEF Tip, Tunnel
  <2>2. \A i \in 1 .. Tip : Good(i)' => \A j \in i + 1 .. Tip : Good(j)' /\ st'[j] = "exited" /\ down'[j] = 0
    <3> SUFFICES ASSUME NEW i \in 1 .. Tip, Good(i)', NEW j \in i + 1 .. Tip
                 PROVE  Good(j)' /\ st'[j] = "exited" /\ down'[j] = 0
      OBVIOUS
    <3>0. i \in Procs /\ j \in Procs /\ j \in 1 .. Tip /\ i < Tip /\ i \in Nat
      BY <1>t
    <3>1. Good(j) /\ st[j] = "exited" /\ down[j] = 0
      <4>1. CASE Gone(i)
        <5>1. Good(i)
          BY <3>0, <4>1, Fates DEF Good
        <5> QED
          BY <5>1 DEF OutcomeInv
      <4>2. CASE ~Gone(i)
        <5>1. Good(i + 1) /\ st[i + 1] = "exited" /\ down[i + 1] = 0
          BY <1>t, <3>0, <4>2, Fates
        <5>2. CASE j = i + 1
          BY <5>1, <5>2
        <5>3. CASE j # i + 1
          <6>1. i + 1 \in 1 .. Tip /\ j \in (i + 1) + 1 .. Tip
            BY <1>t, <3>0, <5>3
          <6> QED
            BY <5>1, <6>1 DEF OutcomeInv
        <5> QED
          BY <5>2, <5>3
      <4> QED
        BY <4>1, <4>2
    <3> QED
      BY <3>0, <3>1, Fates DEF Good
  <2>3. srv'.closed => srv'.left = 0
    BY ServiceStep DEF OutcomeInv
  <2>4. Good(Tip)' => IF Tunnel THEN srv'.closed ELSE temp' = None
    <3> SUFFICES ASSUME Good(Tip)' PROVE IF Tunnel THEN srv'.closed ELSE temp' = None
      OBVIOUS
    <3>1. CASE Gone(Tip)
      <4>1. Good(Tip)
        <5>1. code'[Tip] = code[Tip] /\ code'[Tip'] = 0
          BY <1>t, <3>1, Fates DEF Good
        <5> QED
          BY <2>1, <3>1, <5>1 DEF Good
      <4> QED
        BY <3>1, <4>1, TempKept, ServiceStep DEF OutcomeInv
    <3>2. CASE ~Gone(Tip)
      <4>0. Good(Tip)' => Move \/ DownstreamEnds
        <5> DEFINE p == Tip
        <5>1. p \in Procs /\ ~Gone(p) /\ ~(p < p) /\ Tip' = p
          BY <1>t, <2>1, <3>2
        <5>2. Good(p)' => Move \/ DownstreamEnds
          BY <5>1, Fates
        <5> QED
          BY <5>2
      <4>1. Move \/ DownstreamEnds
        BY <4>0
      <4> QED
        BY <4>1, ServiceStep DEF OutcomeInv, Move, DownstreamEnds
    <3> QED
      BY <3>1, <3>2
  <2>5. result' = "ok" => /\ main' = "done"
                          /\ lost' = None
                          /\ IF job.wanted = Local THEN temp' = None
                             ELSE Good(1)' /\ (Tunnel \/ feeder'[0] # "failed")
    <3> SUFFICES ASSUME result' = "ok"
                 PROVE  /\ main' = "done"
                        /\ lost' = None
                        /\ IF job.wanted = Local THEN temp' = None
                           ELSE Good(1)' /\ (Tunnel \/ feeder'[0] # "failed")
      OBVIOUS
    <3>1. CASE result = "ok"
      <4>1. /\ main = "done" /\ lost = None
            /\ IF job.wanted = Local THEN temp = None ELSE Good(1) /\ (Tunnel \/ feeder[0] # "failed")
        BY <3>1 DEF OutcomeInv
      <4>2. Good(1) => Good(1)'
        BY <1>t, Fates DEF Good
      <4> QED
        BY <4>1, <4>2, Ended
    <3>2. CASE RenamePart
      <4>1. \A i \in Procs : st[i] = "absent"
        BY <1>0, <3>2 DEF EarlyInv, RenamePart
      <4>2. lost = None
        BY <1>0, <1>t, <3>2, <4>1 DEF LostInv, EndsOK, RenamePart, Gone, Procs
      <4> QED
        BY <3>2, <4>2 DEF RenamePart, Stop
    <3>3. CASE Finish
      <4>1. /\ main = "await" /\ st[1] = "exited" /\ code[1] = 0 /\ main' = "done"
            /\ Tunnel \/ feeder[0] # "failed"
            /\ UNCHANGED <<st, code, lost, feeder>>
        BY <1>k, <3>3 DEF Finish, Stop, procVars
      <4>2. job.wanted # Local /\ Good(1)
        BY <1>0, <4>1 DEF EarlyInv, Good, Gone
      <4>3. lost = None
        <5> SUFFICES ASSUME lost # None PROVE FALSE
          OBVIOUS
        <5>1. lost \in Procs /\ lost > 1
          BY <1>0, <1>t, <4>1 DEF LostInv, EndsOK, Procs
        <5>2. lost <= Tip /\ Gone(lost - 1) /\ code[lost - 1] = 1
          BY <5>1 DEF LostInv
        <5>3. CASE lost = 2
          BY <4>1, <5>2, <5>3
        <5>4. CASE lost # 2
          <6>1. lost - 1 \in 1 + 1 .. Tip /\ 1 \in 1 .. Tip
            BY <1>t, <5>1, <5>2, <5>4
          <6>2. Good(lost - 1)
            BY <4>2, <6>1 DEF OutcomeInv
          <6> QED
            BY <5>2, <6>2 DEF Good
        <5> QED
          BY <5>3, <5>4
      <4> QED
        BY <4>1, <4>2, <4>3 DEF Good, Gone
    <3> QED
      BY <3>1, <3>2, <3>3, Succeeds
  <2> QED
    BY <2>1, <2>2, <2>3, <2>4, <2>5 DEF OutcomeInv
<1> QED
  BY <1>r, <1>f

LEMMA LostStep ==
    ASSUME TypeOK, ChainInv, LostInv, Next
    PROVE  LostInv'
<1>0. ProcOK /\ EndsOK /\ EarlyInv
  BY TypeParts DEF ChainInv
<1>t. /\ Tip \in Procs /\ Tip \in Nat /\ 1 \in Procs /\ None \notin Nat
      /\ \A i \in Procs : i \in Nat \ {0} /\ (i # 1 => i > 1 /\ i - 1 \in Procs)
  BY TipFacts, Limits DEF ChainInv, Procs
\* A connection was lost before.
<1>1. CASE lost' = lost
  <2>1. lost \in {0, 1} => main' = "done" /\ result' = "error"
    BY Ended DEF LostInv
  <2>2. ASSUME lost \in Procs, lost > 1 PROVE lost <= Tip' /\ Gone(lost - 1)' /\ code'[lost - 1] = 1
    <3>1. lost <= Tip /\ Gone(lost - 1) /\ code[lost - 1] = 1 /\ lost - 1 \in Procs
      BY <1>t, <2>2 DEF LostInv
    <3>2. Tip' = Tip
      BY <3>1, RouteFixed DEF Gone, Tip
    <3>3. PICK p \in Procs : p = lost - 1
      BY <3>1
    <3>4. st'[p] \in {"leave", "exited"} /\ code'[p] = 1
      BY <3>1, <3>3, Fates DEF Gone
    <3> QED
      BY <1>1, <3>1, <3>2, <3>3, <3>4 DEF Gone
  <2> QED
    BY <1>1, <2>1, <2>2 DEF LostInv
\* It is lost now.
<1>2. CASE DownloadBreaks
  BY <1>2, <1>t DEF DownloadBreaks, Stop, LostInv
<1>3. ASSUME NEW i \in Procs, LinkBreaks(i) PROVE LostInv'
  <2>1. CASE i = 1
    BY <1>3, <1>t, <2>1 DEF LinkBreaks, Stop, LostInv
  <2>2. CASE i > 1
    <3>1. Leaves(i - 1, 1) /\ lost' = i /\ route' = route /\ st[i] # "absent" /\ i - 1 \in Procs
      BY <1>3, <1>t, <2>2 DEF LinkBreaks, mainVars
    <3>2. LegInv(i) /\ i \in Nat
      BY <1>t DEF ChainInv
    <3>3. i <= Tip /\ Tip' = Tip
      BY <1>t, <3>1, <3>2 DEF LegInv, Tip
    <3>4. Gone(i - 1)' /\ code'[i - 1] = 1
      BY <1>0, <3>1 DEF Leaves, ProcOK, Gone
    <3> QED
      BY <1>t, <2>2, <3>1, <3>3, <3>4 DEF LostInv
  <2> QED
    BY <1>t, <2>1, <2>2
<1>4. CASE ~DownloadBreaks /\ \A i \in Procs : ~LinkBreaks(i)
  <2>1. lost' = lost
    BY <1>4
     DEF Next, File, Edit, AskSize, DownloadChunk, DownloadEnds, DownloadFails, CopyToPart, RenamePart,
         LocalWriteFails, Client, Resolve, Start, StartFails, Send, SendEof, LocalReadFails, Receive, ReceiveFails, Finish,
         Command, CatChunk, CatEnds, Move, ScriptFails, Dial, Upstream, Downstream, ServiceCloses, DownstreamEnds, ServiceFails,
         Helper, Connect, ConnectFails, ForwardUp, ForwardEof, ShortStdin, ForwardDown, ChildExited, WriteFails, Exit
  <2> QED
    BY <1>1, <2>1
<1> QED
  BY <1>2, <1>3, <1>4

\* What is staged on this machine is removed when the command returns.
StagedInv == main = "done" /\ staged # None => job.source = "hop" /\ lost = 0

LEMMA StagedStep ==
    ASSUME TypeOK, ChainInv, StagedInv, Next
    PROVE  StagedInv'
<1>1. CASE main = "done"
  BY <1>1, Ended DEF StagedInv
<1>2. CASE main # "done" /\ main' = "done"
  BY <1>2, Untouched
     DEF StagedInv, Next, File, Edit, AskSize, DownloadChunk, DownloadEnds, DownloadFails, DownloadBreaks, CopyToPart,
         RenamePart, LocalWriteFails, Client, Resolve, Start, StartFails, Send, SendEof, LocalReadFails, Receive, ReceiveFails, Finish,
         LinkBreaks, Stop, mainVars, jobVars
<1>3. CASE main' # "done"
  BY <1>3 DEF StagedInv
<1> QED
  BY <1>1, <1>2, <1>3

\* The second invariant: how processes and the command end.
EndInv == HopInv /\ OutcomeInv /\ LostInv /\ StagedInv

LEMMA EndInit == Init => EndInv
<1> SUFFICES ASSUME Init PROVE EndInv
  OBVIOUS
<1>1. HopInv
  BY HopInit
<1>2. Tip \in Procs /\ 1 .. Tip \subseteq Procs
  BY <1>1, TipFacts, Limits DEF HopInv, ChainInv, Procs
<1>3. \A i \in Procs : ~Good(i)
  BY DEF Init, Good, Gone
<1>4. result = None /\ None \notin {"ok", "error"} /\ ~srv.closed /\ lost = None /\ None \notin Nat
  BY AbsenceAssumption, Limits DEF Init
<1>5. OutcomeInv
  BY <1>2, <1>3, <1>4 DEF OutcomeInv
<1>6. LostInv /\ StagedInv
  BY <1>4, Limits DEF LostInv, StagedInv, Procs, Init
<1> QED
  BY <1>1, <1>5, <1>6 DEF EndInv

LEMMA EndNext ==
    ASSUME EndInv, [Next]_vars
    PROVE  EndInv'
<1>1. HopInv'
  BY HopNext DEF EndInv
<1>2. CASE Next
  BY <1>1, <1>2, OutcomeStep, LostStep, StagedStep DEF EndInv, HopInv
<1>3. CASE UNCHANGED vars
  <2>1. OutcomeInv'
    BY <1>3 DEF EndInv, OutcomeInv, Good, Gone, Tip, Tunnel, vars, jobVars, destVars, procVars, linkVars, tcpVars
  <2>2. LostInv' /\ StagedInv'
    BY <1>3 DEF EndInv, LostInv, StagedInv, Gone, Tip, vars, jobVars, procVars
  <2> QED
    BY <1>1, <2>1, <2>2 DEF EndInv
<1> QED
  BY <1>2, <1>3

\* A copy leaves no staged file behind, except when the connection of an exec-hop download
\* breaks, and one that reports success leaves no temporary next to the destination:
\* whatever failed on the way, copy removes the one and the upload shell moved the other.
THEOREM StagingAlwaysRemoved == Spec => []StagingIsRemoved
<1>1. EndInv => StagingIsRemoved
  <2> SUFFICES ASSUME EndInv, main = "done"
               PROVE  (staged # None => job.source = "hop" /\ lost = 0) /\ (result = "ok" => temp = None)
    BY DEF StagingIsRemoved
  <2>1. staged # None => job.source = "hop" /\ lost = 0
    BY DEF EndInv, StagedInv
  <2>2. ASSUME result = "ok", job.wanted # Local PROVE temp = None
    <3>1. Good(1)
      BY <2>2 DEF EndInv, OutcomeInv
    <3>2. Tip \in Nat \ {0}
      BY TipFacts DEF EndInv, HopInv, ChainInv
    <3>3. Good(Tip)
      <4>1. CASE Tip = 1
        BY <3>1, <4>1
      <4>2. CASE Tip # 1
        <5>1. 1 \in 1 .. Tip /\ Tip \in 1 + 1 .. Tip
          BY <3>2, <4>2
        <5> QED
          BY <3>1, <5>1 DEF EndInv, OutcomeInv
      <4> QED
        BY <4>1, <4>2
    <3> QED
      BY <3>3 DEF EndInv, OutcomeInv, HopInv, TempInv
  <2> QED
    BY <2>1, <2>2 DEF EndInv, OutcomeInv
<1> QED
  BY <1>1, EndInit, EndNext, PTL DEF Spec

----------------------------------------------------------------------------
(* Chunks on links.                                                        *)

LEMMA ChunksFinite ==
    ASSUME NEW f
    PROVE  IsFiniteSet(Chunks(f)) /\ Cardinality(Chunks(f)) \in Nat
<1>1. IsFiniteSet(Procs) /\ IsFiniteSet(1 .. Cap)
  BY Limits, FS_Interval DEF Procs
<1>2. IsFiniteSet(Procs \X (1 .. Cap))
  BY <1>1, FS_Product
<1>3. Chunks(f) \in SUBSET (Procs \X (1 .. Cap))
  BY DEF Chunks
<1> QED
  BY <1>2, <1>3, FS_Subset, FS_CardinalityType

LEMMA ChunkMore ==
    ASSUME NEW f \in [Procs -> 0 .. Cap], NEW p \in Procs, f[p] < Cap
    PROVE  Cardinality(Chunks([f EXCEPT ![p] = f[p] + 1])) = Cardinality(Chunks(f)) + 1
<1> DEFINE g == [f EXCEPT ![p] = f[p] + 1]
           c == <<p, f[p] + 1>>
<1>0. Cap \in Nat /\ f[p] \in Nat /\ g[p] = f[p] + 1 /\ \A q \in Procs : f[q] \in Nat /\ (q # p => g[q] = f[q])
  BY Limits
<1>1. c \notin Chunks(f)
  BY <1>0 DEF Chunks
<1>2. Chunks(g) = Chunks(f) \cup {c}
  <2>1. c \in Chunks(g)
    BY <1>0 DEF Chunks
  <2>2. ASSUME NEW x \in Procs \X (1 .. Cap) PROVE x[2] <= g[x[1]] <=> x[2] <= f[x[1]] \/ x = c
    <3>1. x[1] \in Procs /\ x[2] \in Nat /\ x = <<x[1], x[2]>>
      BY <1>0, <2>2
    <3>2. CASE x[1] = p
      <4>1. x = c <=> x[2] = f[p] + 1
        BY <3>1, <3>2
      <4> QED
        BY <1>0, <3>1, <3>2, <4>1
    <3>3. CASE x[1] # p
      BY <1>0, <3>1, <3>3
    <3> QED
      BY <3>2, <3>3
  <2>3. c \in Procs \X (1 .. Cap)
    BY <1>0
  <2> QED
    BY <2>1, <2>2, <2>3 DEF Chunks
<1> HIDE DEF g, c
<1>3. Cardinality(Chunks(g)) = Cardinality(Chunks(f)) + 1
  BY <1>1, <1>2, ChunksFinite, FS_AddElement
<1> QED
  BY <1>3 DEF g

LEMMA ChunkLess ==
    ASSUME NEW f \in [Procs -> 0 .. Cap], NEW p \in Procs, f[p] > 0
    PROVE  Cardinality(Chunks(f)) = Cardinality(Chunks([f EXCEPT ![p] = f[p] - 1])) + 1
<1> DEFINE g == [f EXCEPT ![p] = f[p] - 1]
<1>1. Cap \in Nat /\ g \in [Procs -> 0 .. Cap] /\ g[p] = f[p] - 1 /\ f[p] \in 0 .. Cap
  BY Limits
<1>2. g[p] < Cap
  BY <1>1
<1>3. f = [g EXCEPT ![p] = g[p] + 1]
  <2>1. g[p] + 1 = f[p] /\ \A q \in Procs : q # p => g[q] = f[q]
    BY <1>1
  <2>2. \A q \in Procs : [g EXCEPT ![p] = g[p] + 1][q] = f[q]
    BY <2>1
  <2> QED
    BY <2>2
<1> HIDE DEF g
<1>4. Cardinality(Chunks([g EXCEPT ![p] = g[p] + 1])) = Cardinality(Chunks(g)) + 1
  BY <1>1, <1>2, ChunkMore
<1>5. Cardinality(Chunks(f)) = Cardinality(Chunks(g)) + 1
  BY <1>3, <1>4
<1> QED
  BY <1>5 DEF g

LEMMA ChunkMoves ==
    ASSUME NEW f \in [Procs -> 0 .. Cap], NEW p \in Procs, NEW q \in Procs, p # q, f[p] > 0, f[q] < Cap
    PROVE  Cardinality(Chunks([f EXCEPT ![p] = f[p] - 1, ![q] = f[q] + 1])) = Cardinality(Chunks(f))
<1> DEFINE g == [f EXCEPT ![p] = f[p] - 1]
<1>1. g \in [Procs -> 0 .. Cap] /\ g[q] = f[q] /\ Cap \in Nat
  BY Limits
<1>2. [f EXCEPT ![p] = f[p] - 1, ![q] = f[q] + 1] = [g EXCEPT ![q] = g[q] + 1]
  BY <1>1
<1>3. Cardinality(Chunks(f)) = Cardinality(Chunks(g)) + 1
  BY ChunkLess
<1> HIDE DEF g
<1>4. Cardinality(Chunks([g EXCEPT ![q] = g[q] + 1])) = Cardinality(Chunks(g)) + 1
  BY <1>1, ChunkMore
<1> QED
  BY <1>2, <1>3, <1>4

LEMMA ChunkNone ==
    ASSUME NEW f, \A p \in Procs : f[p] = 0
    PROVE  Cardinality(Chunks(f)) = 0
<1>1. Chunks(f) = {}
  <2> SUFFICES ASSUME NEW c \in Chunks(f) PROVE FALSE
    OBVIOUS
  <2>1. c[1] \in Procs /\ c[2] \in 1 .. Cap /\ c[2] <= f[c[1]]
    BY DEF Chunks
  <2> QED
    BY <2>1, Limits
<1> QED
  BY <1>1, FS_EmptySet

----------------------------------------------------------------------------
(* What is installed.                                                      *)

\* A connection that broke stays broken.
LEMMA LostOnce ==
    ASSUME Next
    PROVE  lost = None \/ lost' = lost
  BY DEF Next, File, Edit, AskSize, DownloadChunk, DownloadEnds, DownloadFails, DownloadBreaks, CopyToPart, RenamePart,
         LocalWriteFails, Client, Resolve, Start, StartFails, Send, SendEof, LocalReadFails, Receive, ReceiveFails, Finish,
         Command, CatChunk, CatEnds, Move, ScriptFails, Dial, Upstream, Downstream, ServiceCloses, DownstreamEnds, ServiceFails,
         Helper, Connect, ConnectFails, ForwardUp, ForwardEof, ShortStdin, ForwardDown, ChildExited, WriteFails, Exit,
         LinkBreaks

LEMMA CountedStep ==
    ASSUME TypeOK, ChainInv, TempInv, FileInv, CountedInv, Next
    PROVE  CountedInv'
<1>0. ProcOK /\ LinkOK /\ EarlyInv /\ MainOK /\ DestOK
  BY TypeParts DEF ChainInv
<1>t. /\ Tip \in Procs /\ 1 \in Procs /\ Tip \in Nat \ {0} /\ None \notin Nat
      /\ Tip = 1 <=> route = <<>>
      /\ \A i \in Procs : i \in Nat \ {0} /\ (i < Tip => i + 1 \in Procs /\ i \in 1 .. MaxHops)
  BY TipFacts, Limits DEF ChainInv
<1> DEFINE Live == ~Tunnel /\ route # <<>> /\ st[Tip] \in {"run", "eof"} /\ lost # Tip
           Sum == /\ temp + up[Tip] + left = total
                  /\ eof[Tip] => left = 0
                  /\ st[Tip] = "eof" => up[Tip] = 0 /\ left = 0
<1>i. Live => Sum
  BY DEF CountedInv
<1>l. Live => temp \in Nat /\ up[Tip] \in Nat /\ left \in Nat /\ total \in Nat /\ eof[Tip] \in BOOLEAN /\ job.wanted # Local
  <2> SUFFICES ASSUME Live
               PROVE  temp \in Nat /\ up[Tip] \in Nat /\ left \in Nat /\ total \in Nat /\ eof[Tip] \in BOOLEAN /\ job.wanted # Local
    OBVIOUS
  <2>1. temp \in Nat
    BY DEF TempInv
  <2>2. st[1] # "absent" /\ job.wanted # Local
    BY <1>0, <1>t DEF EarlyInv
  <2>3. total \in Nat
    BY <2>2 DEF FileInv
  <2>4. up[Tip] \in Nat
    BY <1>0, <1>t, Limits DEF LinkOK
  <2>5. left \in Nat /\ eof[Tip] \in BOOLEAN
    BY <1>0, <1>t DEF LinkOK, ProcOK
  <2> QED
    BY <2>1, <2>2, <2>3, <2>4, <2>5
<1>a. ASSUME UNCHANGED <<job, route, temp, left, total>>, up'[Tip] = up[Tip], eof'[Tip] = eof[Tip],
             st'[Tip] \in {"run", "eof"} => st'[Tip] = st[Tip]
      PROVE  CountedInv'
  <2>1. (Tunnel' <=> Tunnel) /\ Tip' = Tip /\ (lost' # Tip => lost # Tip)
    BY <1>a, <1>t, LostOnce DEF Tunnel, Tip
  <2> QED
    BY <1>a, <1>i, <2>1 DEF CountedInv
\* Nothing that counts is there.
<1>n. ASSUME st'[Tip'] \notin {"run", "eof"} \/ Tunnel' \/ route' = <<>> PROVE CountedInv'
  BY <1>n DEF CountedInv
<1>1. CASE File
  <2>1. UNCHANGED <<job, route, st, up, eof, left>>
    BY <1>1, Untouched
       DEF chainVars, procVars, linkVars, File, Edit, AskSize, DownloadChunk, DownloadEnds, DownloadFails, DownloadBreaks,
           CopyToPart, RenamePart, LocalWriteFails, Stop, jobVars
  <2>2. CASE UNCHANGED <<temp, total>>
    BY <1>a, <2>1, <2>2
  <2>3. CASE ~UNCHANGED <<temp, total>>
    <3>1. st[Tip] = "absent"
      BY <1>0, <1>1, <1>t, <2>3
         DEF File, Edit, AskSize, DownloadChunk, DownloadEnds, DownloadFails, DownloadBreaks,
             CopyToPart, RenamePart, LocalWriteFails, Stop, destVars, EarlyInv
    <3> QED
      BY <1>n, <2>1, <3>1 DEF Tip
  <2> QED
    BY <2>2, <2>3
<1>2. CASE Resolve
  <2>1. st' = st /\ \A i \in Procs : st[i] = "absent"
    BY <1>2, RouteFixed
  <2>2. Tip' \in Procs
    <3>1. RouteInv' /\ MaxHops \in Nat
      BY RouteStep, Limits
    <3>2. Len(route') \in Nat
      <4>1. route' = route \/ Len(route') = Len(route) + 1
        BY <1>0, <1>2 DEF Resolve, Stop, MainOK
      <4> QED
        BY <1>0, <4>1 DEF MainOK
    <3> QED
      BY <3>1, <3>2 DEF RouteInv, Tip, Procs
  <2> QED
    BY <1>n, <2>1, <2>2
<1>3. CASE Start
  <2>1. CASE route = <<>>
    BY <1>3, <1>n, <2>1 DEF Start
  <2>2. CASE route # <<>>
    <3>1. st'[Tip] = "absent" /\ Tip' = Tip
      BY <1>0, <1>3, <1>t, <2>2 DEF Start, EarlyInv, ProcOK, Tip
    <3> QED
      BY <1>n, <3>1
  <2> QED
    BY <2>1, <2>2
<1>4. CASE StartFails \/ Receive \/ Finish
  BY <1>4, <1>a DEF StartFails, Receive, Finish, Stop, chainVars, mainVars, procVars, linkVars, destVars, jobVars
<1>5. CASE Send \/ SendEof \/ LocalReadFails
  <2>1. UNCHANGED <<job, route, st, temp, left, total>>
    BY <1>5 DEF Send, SendEof, LocalReadFails, mainVars, procVars, destVars, jobVars
  <2>2. CASE route = <<>>
    BY <1>n, <2>1, <2>2
  <2>3. CASE route # <<>>
    <3>1. up'[Tip] = up[Tip] /\ eof'[Tip] = eof[Tip]
      BY <1>0, <1>5, <1>t, <2>3 DEF Send, SendEof, LocalReadFails, LinkOK
    <3> QED
      BY <1>a, <2>1, <3>1
  <2> QED
    BY <2>2, <2>3
<1>6. CASE CatChunk
  <2>1. /\ UNCHANGED <<job, route, st, left, total, eof, lost>> /\ up[Tip] > 0 /\ st[Tip] = "run"
        /\ up'[Tip] = up[Tip] - 1 /\ temp' = temp + 1
    BY <1>0, <1>6, <1>t DEF CatChunk, mainVars, procVars, jobVars, LinkOK
  <2>2. (Tunnel' <=> Tunnel) /\ Tip' = Tip
    BY <2>1 DEF Tunnel, Tip
  <2>3. Live => temp' + up'[Tip] + left' = total'
    BY <1>i, <1>l, <2>1
  <2> QED
    BY <1>i, <2>1, <2>2, <2>3 DEF CountedInv
<1>7. CASE CatEnds
  <2>1. UNCHANGED <<job, route, left, total, eof, up, temp, lost>> /\ up[Tip] = 0 /\ eof[Tip] /\ st[Tip] = "run"
    BY <1>7 DEF CatEnds, mainVars, destVars, linkVars, jobVars
  <2>2. (Tunnel' <=> Tunnel) /\ Tip' = Tip
    BY <2>1 DEF Tunnel, Tip
  <2> QED
    BY <1>i, <2>1, <2>2 DEF CountedInv
<1>8. CASE Move \/ ScriptFails \/ DownstreamEnds
  <2>1. st'[Tip] = "leave" /\ Tip' = Tip
    BY <1>0, <1>8, <1>t DEF Move, ScriptFails, DownstreamEnds, Leaves, mainVars, Tip, ProcOK
  <2> QED
    BY <1>n, <2>1
<1>9. CASE Dial \/ Upstream \/ Downstream \/ ServiceCloses \/ ServiceFails \/ ReceiveFails
  <2>1. Tunnel'
    BY <1>9 DEF Dial, Upstream, Downstream, ServiceCloses, ServiceFails, ReceiveFails, Tunnel, Stop, mainVars, jobVars
  <2> QED
    BY <1>n, <2>1
<1>10. ASSUME NEW i \in Procs, Connect(i) PROVE CountedInv'
  <2>1. UNCHANGED <<job, route, total, up, eof, lost>> /\ Tip' = Tip /\ (Tunnel' <=> Tunnel)
    BY <1>10 DEF Connect, mainVars, linkVars, jobVars, Tip, Tunnel
  <2>2. i < Tip /\ (Rest(i) = <<>> <=> i + 1 = Tip) /\ up[i + 1] = 0 /\ ~eof[i + 1] /\ st[i + 1] = "absent"
    BY <1>10, ConnectFacts, RequestFacts DEF Rest, ChainInv
  <2>3. CASE ~Tunnel /\ i + 1 = Tip
    <3>1. temp' = 0 /\ left' = total /\ st'[Tip] \in {"run", "new"}
      BY <1>10, <2>2, <2>3, ConnectFacts DEF Connect
    <3>2. total \in Nat
      <4>1. st[1] # "absent"
        BY <1>0, <1>10 DEF EarlyInv, Connect
      <4> QED
        BY <2>3, <4>1 DEF FileInv
    <3> QED
      BY <2>1, <2>2, <2>3, <3>1, <3>2 DEF CountedInv
  <2>4. CASE ~Tunnel /\ i + 1 # Tip
    <3>1. Tip # i /\ Tip # i + 1
      BY <1>t, <2>2, <2>4
    <3>2. st'[Tip] = st[Tip]
      BY <1>10, <1>t, <3>1, ConnectFacts
    <3>3. UNCHANGED <<temp, left>>
      BY <1>10, <2>2, <2>4 DEF Connect
    <3> QED
      BY <1>a, <2>1, <3>2, <3>3
  <2> QED
    BY <1>n, <2>1, <2>3, <2>4
<1>11. ASSUME NEW i \in Procs, ForwardUp(i) PROVE CountedInv'
  <2>1. UNCHANGED <<job, route, total, temp, st, eof, lost>> /\ Tip' = Tip /\ (Tunnel' <=> Tunnel) /\ i < Tip
    BY <1>11 DEF ForwardUp, Feeding, mainVars, destVars, jobVars, Tip, Tunnel
  <2>2. CASE ~Tunnel /\ i + 1 = Tip
    <3>1. Counts(i) /\ left # 0 /\ left' = left - 1
      BY <1>11, <1>t, <2>2 DEF ForwardUp, Counts, FeederEnds
    <3>2. up'[Tip] = up[Tip] + 1
      BY <1>0, <1>11, <1>t, <2>2 DEF ForwardUp, LinkOK
    <3>3. Live => temp' + up'[Tip] + left' = total'
      <4> SUFFICES ASSUME Live PROVE temp' + up'[Tip] + left' = total'
        OBVIOUS
      <4>1. temp \in Nat /\ up[Tip] \in Nat /\ left \in Nat /\ temp + up[Tip] + left = total
        BY <1>i, <1>l
      <4>2. temp + (up[Tip] + 1) + (left - 1) = total
        BY <4>1
      <4> QED
        BY <2>1, <3>1, <3>2, <4>2
    <3> QED
      BY <1>i, <2>1, <3>1, <3>3 DEF CountedInv
  <2>3. CASE ~Tunnel /\ i + 1 # Tip
    <3>1. Tip # i /\ Tip # i + 1 /\ ~Counts(i)
      BY <1>t, <2>1, <2>3 DEF Counts
    <3>2. up'[Tip] = up[Tip] /\ left' = left
      BY <1>0, <1>11, <1>t, <3>1 DEF ForwardUp, LinkOK
    <3> QED
      BY <1>a, <2>1, <3>2
  <2> QED
    BY <1>n, <2>1, <2>2, <2>3
<1>12. ASSUME NEW i \in Procs, ForwardEof(i) PROVE CountedInv'
  <2>1. UNCHANGED <<job, route, total, temp, st, up, left, lost>> /\ Tip' = Tip /\ (Tunnel' <=> Tunnel) /\ i < Tip
    BY <1>12 DEF ForwardEof, Feeding, mainVars, destVars, jobVars, Tip, Tunnel
  <2>2. CASE ~Tunnel /\ i + 1 = Tip
    <3>1. left = 0
      BY <1>12, <1>t, <2>2 DEF ForwardEof, Counts, FeederEnds
    <3> QED
      BY <1>i, <2>1, <3>1 DEF CountedInv
  <2>3. CASE ~Tunnel /\ i + 1 # Tip
    <3>1. eof'[Tip] = eof[Tip]
      BY <1>0, <1>12, <1>t, <2>3 DEF ForwardEof, LinkOK
    <3> QED
      BY <1>a, <2>1, <3>1
  <2> QED
    BY <1>n, <2>1, <2>2, <2>3
<1>13. ASSUME NEW i \in Procs, Exit(i) PROVE CountedInv'
  <2>1. UNCHANGED <<job, route, total, temp, up, left, lost>> /\ Tip' = Tip /\ (Tunnel' <=> Tunnel)
    BY <1>13 DEF Exit, mainVars, destVars, jobVars, Tip, Tunnel
  <2>2. st'[Tip] \in {"run", "eof"} => st'[Tip] = st[Tip]
    BY <1>0, <1>13, <1>t DEF Exit, ProcOK
  <2>3. CASE i + 1 = Tip
    <3>1. i < Tip /\ i \in 1 .. MaxHops
      BY <1>t, <2>3
    <3>2. \/ st[Tip] \in {"absent", "exited"}
          \/ lost = Tip
          \/ Tunnel
      BY <1>13, <2>3, <3>1 DEF ChainInv, PairInv, Gone, Exit
    <3> QED
      BY <2>1, <2>2, <3>2 DEF CountedInv
  <2>4. CASE i + 1 # Tip
    <3>1. eof'[Tip] = (eof[Tip] \/ Tip = i + 1)
      BY <1>13, <1>t DEF Exit
    <3>2. eof'[Tip] = eof[Tip]
      BY <1>0, <1>t, <2>4, <3>1 DEF LinkOK
    <3> QED
      BY <1>a, <2>1, <2>2, <3>2
  <2> QED
    BY <2>3, <2>4
<1>14. ASSUME NEW i \in Procs, ConnectFails(i) \/ ChildExited(i) \/ WriteFails(i) PROVE CountedInv'
  <2>1. UNCHANGED <<job, route, total, temp, up, left, eof>> /\ st' = [st EXCEPT ![i] = "leave"]
    BY <1>14 DEF ConnectFails, ChildExited, WriteFails, Leaves, mainVars, destVars, linkVars, jobVars
  <2>2. st'[Tip] \in {"run", "eof"} => st'[Tip] = st[Tip]
    BY <1>0, <1>t, <2>1 DEF ProcOK
  <2> QED
    BY <1>a, <2>1, <2>2
<1>15. ASSUME NEW i \in Procs, ShortStdin(i) \/ ForwardDown(i) PROVE CountedInv'
  BY <1>15, <1>a DEF ShortStdin, ForwardDown, mainVars, destVars, procVars, linkVars, jobVars
<1>16. ASSUME NEW i \in Procs, LinkBreaks(i) PROVE CountedInv'
  <2>1. UNCHANGED <<job, route, total, temp, left>> /\ lost' = i
    BY <1>16 DEF LinkBreaks, Stop, mainVars, destVars, jobVars
  <2>2. st'[Tip] \in {"run", "eof"} => st'[Tip] = st[Tip]
    BY <1>0, <1>16, <1>t DEF LinkBreaks, Leaves, ProcOK
  <2>3. CASE i = Tip
    BY <2>1, <2>3 DEF CountedInv, Tip
  <2>4. CASE i # Tip
    <3>1. up'[Tip] = up[Tip] /\ eof'[Tip] = eof[Tip]
      BY <1>0, <1>16, <1>t, <2>4 DEF LinkBreaks, LinkOK
    <3> QED
      BY <1>a, <2>1, <2>2, <3>1
  <2> QED
    BY <2>3, <2>4
<1> QED
  BY <1>1, <1>2, <1>3, <1>4, <1>5, <1>6, <1>7, <1>8, <1>9, <1>10, <1>11, <1>12, <1>13, <1>14, <1>15, <1>16
     DEF Next, Client, Command, Helper

\* Nothing is on its way, or written, that the client did not read.
LEMMA FedStep ==
    ASSUME TypeOK, ChainInv, TempInv, FedInv, Next
    PROVE  FedInv'
<1>0. LinkOK /\ EarlyInv /\ MainOK /\ DestOK /\ ProcOK
  BY TypeParts DEF ChainInv
<1>t. /\ Tip \in Procs /\ 1 \in Procs /\ None \notin Nat /\ Cap \in Nat
      /\ \A i \in Procs : i \in Nat /\ i # i + 1 /\ (i < Tip => i + 1 \in Procs)
  BY TipFacts, Limits DEF ChainInv
<1>u. job' = job
  BY RouteFixed DEF Resolve, Stop, jobVars
<1> SUFFICES ASSUME ~Tunnel, job.wanted # Local
             PROVE  Cardinality(Chunks(up')) + (IF temp' = None THEN 0 ELSE temp') <= sent'
  BY <1>u DEF FedInv, Tunnel, Chunks, Procs
<1> DEFINE Written == IF temp = None THEN 0 ELSE temp
<1>i. /\ Cardinality(Chunks(up)) + Written <= sent /\ Cardinality(Chunks(up)) \in Nat /\ Written \in Nat /\ sent \in Nat
      /\ Cardinality(Chunks(up')) \in Nat /\ up \in [Procs -> 0 .. Cap]
  BY <1>0, ChunksFinite DEF FedInv, MainOK, DestOK, LinkOK
<1> DEFINE Goal == Cardinality(Chunks(up')) + (IF temp' = None THEN 0 ELSE temp') <= sent'
<1>a. ASSUME up' = up, temp' \in {temp, None, 0}, sent' = sent PROVE Goal
  BY <1>a, <1>i, <1>t
<1>1. CASE File
  <2>1. up' = up /\ sent' = sent
    BY <1>1, Untouched
       DEF chainVars, linkVars, File, Edit, AskSize, DownloadChunk, DownloadEnds, DownloadFails, DownloadBreaks,
           CopyToPart, RenamePart, LocalWriteFails, Stop
  <2>2. temp' = temp
    BY <1>1 DEF File, Edit, AskSize, DownloadChunk, DownloadEnds, DownloadFails, DownloadBreaks,
                CopyToPart, RenamePart, LocalWriteFails, destVars
  <2> QED
    BY <1>a, <2>1, <2>2
<1>2. CASE Resolve \/ Start \/ StartFails \/ SendEof \/ LocalReadFails \/ Receive \/ ReceiveFails \/ Finish
  BY <1>2, <1>a DEF Resolve, Start, StartFails, SendEof, LocalReadFails, Receive, ReceiveFails, Finish, Stop, mainVars,
                    chainVars, linkVars, destVars
<1>3. CASE Send
  <2>1. up[1] < Cap /\ up' = [up EXCEPT ![1] = up[1] + 1] /\ sent' = sent + 1 /\ temp' = temp
    BY <1>3 DEF Send, destVars
  <2>2. Cardinality(Chunks(up')) = Cardinality(Chunks(up)) + 1
    BY <1>i, <1>t, <2>1, ChunkMore
  <2> QED
    BY <1>i, <2>1, <2>2
<1>4. CASE CatChunk
  <2>1. up[Tip] > 0 /\ up' = [up EXCEPT ![Tip] = up[Tip] - 1] /\ sent' = sent /\ temp' = temp + 1 /\ temp \in Nat
    BY <1>4 DEF CatChunk, mainVars, TempInv
  <2>2. Cardinality(Chunks(up)) = Cardinality(Chunks(up')) + 1
    BY <1>i, <1>t, <2>1, ChunkLess
  <2>3. Cardinality(Chunks(up)) + temp <= sent /\ temp' # None
    BY <1>i, <1>t, <2>1
  <2>4. Cardinality(Chunks(up')) + (temp + 1) <= sent
    BY <1>i, <2>1, <2>2, <2>3
  <2> QED
    BY <2>1, <2>3, <2>4
<1>5. CASE Command /\ ~CatChunk
  <2>1. up' = up /\ sent' = sent
    BY <1>5 DEF Command, CatEnds, Move, ScriptFails, Dial, Upstream, Downstream, ServiceCloses, DownstreamEnds,
                ServiceFails, linkVars, mainVars
  <2>2. temp' \in {temp, None}
    BY <1>5 DEF Command, CatEnds, Move, ScriptFails, Dial, Upstream, Downstream, ServiceCloses, DownstreamEnds,
                ServiceFails, destVars
  <2> QED
    BY <1>a, <2>1, <2>2
<1>6. ASSUME NEW i \in Procs, ForwardUp(i) PROVE Goal
  <2>1. i < Tip /\ i + 1 \in Procs /\ i # i + 1 /\ up[i] > 0 /\ up[i + 1] < Cap
    BY <1>6, <1>t DEF ForwardUp, Feeding
  <2>2. up' = [up EXCEPT ![i] = up[i] - 1, ![i + 1] = up[i + 1] + 1] /\ sent' = sent /\ temp' = temp
    BY <1>i, <1>6, <2>1 DEF ForwardUp, mainVars, destVars
  <2>3. Cardinality(Chunks(up')) = Cardinality(Chunks(up))
    BY <1>i, <2>1, <2>2, ChunkMoves
  <2> QED
    BY <1>i, <2>2, <2>3
<1>7. ASSUME NEW i \in Procs, Helper(i), ~ForwardUp(i) PROVE Goal
  <2>1. up' = up /\ sent' = sent
    BY <1>7 DEF Helper, Connect, ConnectFails, ForwardEof, ShortStdin, ForwardDown, ChildExited, WriteFails,
                Exit, mainVars, linkVars
  <2>2. temp' \in {temp, None, 0}
    BY <1>7 DEF Helper, Connect, ConnectFails, ForwardEof, ShortStdin, ForwardDown, ChildExited, WriteFails,
                Exit, destVars
  <2> QED
    BY <1>a, <2>1, <2>2
<1>8. ASSUME NEW i \in Procs, LinkBreaks(i) PROVE Goal
  <2>1. sent' = sent /\ temp' = temp
    BY <1>8 DEF LinkBreaks, Stop, mainVars, destVars
  <2>2. PICK n \in 0 .. up[i] : up' = [up EXCEPT ![i] = n]
    BY <1>8 DEF LinkBreaks
  <2>3. \A p \in Procs : up'[p] \in Nat /\ up[p] \in Nat /\ up'[p] <= up[p]
    BY <1>i, <1>t, <2>2
  <2>4. Chunks(up') \subseteq Chunks(up)
    <3> SUFFICES ASSUME NEW c \in Chunks(up') PROVE c \in Chunks(up)
      OBVIOUS
    <3>1. c \in Procs \X (1 .. Cap) /\ c[2] <= up'[c[1]] /\ c[1] \in Procs /\ c[2] \in Nat
      BY <1>t DEF Chunks
    <3>2. c[2] <= up[c[1]]
      BY <2>3, <3>1
    <3> QED
      BY <3>1, <3>2 DEF Chunks
  <2>5. Cardinality(Chunks(up')) <= Cardinality(Chunks(up))
    BY <2>4, ChunksFinite, FS_Subset
  <2> QED
    BY <1>i, <2>1, <2>5
<1> QED
  BY <1>1, <1>2, <1>3, <1>4, <1>5, <1>6, <1>7, <1>8 DEF Next, Client, Command

\* What may be taken for the end stays so.
LEMMA RightKept ==
    ASSUME TypeOK, VersionInv, Next, UNCHANGED <<job, route, total>>, NEW n, Right(n)
    PROVE  Right(n)'
<1>1. Announced' <=> Announced
  BY DEF Announced
<1> QED
  BY <1>1, FileMoves, VersionsKept DEF Right

LEMMA PlainStep ==
    ASSUME TypeOK, ChainInv, TempInv, FileInv, PlainInv, Next
    PROVE  PlainInv'
<1>0. ProcOK /\ LinkOK /\ EarlyInv /\ MainOK /\ DestOK
  BY TypeParts DEF ChainInv
<1>t. /\ Tip \in Procs /\ 1 \in Procs /\ None \notin Nat /\ 0 \notin Procs
      /\ Tip = 1 <=> route = <<>>
      /\ \A i \in Procs : i \in Nat \ {0} /\ (i < Tip => i + 1 \in Procs) /\ (Tip = 1 => ~(i < Tip))
  BY TipFacts, Limits DEF ChainInv
<1> DEFINE Ending == \/ feeder[0] = "failed"
                     \/ feeder[0] = "done" /\ Right(sent)
           Sum == /\ temp + up[1] = sent
                  /\ eof[1] => Ending
                  /\ st[1] = "eof" => up[1] = 0 /\ eof[1]
           Live == ~Tunnel /\ route = <<>> /\ st[1] \in {"run", "eof"} /\ lost # 1
<1>i. Live => Sum
  BY DEF PlainInv
<1>l. Live => temp \in Nat /\ up[1] \in Nat /\ sent \in Nat /\ job.wanted # Local
  <2> SUFFICES ASSUME Live PROVE temp \in Nat /\ up[1] \in Nat /\ sent \in Nat /\ job.wanted # Local
    OBVIOUS
  <2>1. temp \in Nat /\ sent \in Nat
    BY <1>0, <1>t DEF TempInv, MainOK
  <2> QED
    BY <1>0, <1>t, <2>1, Limits DEF LinkOK, EarlyInv
\* What was taken for the end stays right.
<1>r. ASSUME UNCHANGED <<job, route, total, sent>>, Right(sent) PROVE Right(sent)'
  <2>1. PICK n \in Nat : n = sent
    BY <1>0 DEF MainOK
  <2>2. Right(n)'
    BY <1>r, <2>1, RightKept DEF FileInv
  <2> QED
    BY <1>r, <2>1, <2>2
<1>a. ASSUME UNCHANGED <<job, route, temp, sent>>, st[1] # "absent" => total' = total, up'[1] = up[1], eof'[1] = eof[1], feeder'[0] = feeder[0],
             st'[1] \in {"run", "eof"} => st'[1] = st[1]
      PROVE  PlainInv'
  <2>1. (Tunnel' <=> Tunnel) /\ (lost' # 1 => lost # 1)
    BY <1>a, <1>t, LostOnce DEF Tunnel
  <2>2. st'[1] \in {"run", "eof"} /\ Right(sent) => Right(sent)'
    BY <1>a, <1>r
  <2> QED
    BY <1>a, <1>i, <2>1, <2>2 DEF PlainInv
<1>n. ASSUME st'[1] \notin {"run", "eof"} \/ Tunnel' \/ route' # <<>> PROVE PlainInv'
  BY <1>n DEF PlainInv
<1>2. CASE File
  <2>1. UNCHANGED <<job, route, st, up, eof, feeder, sent>>
    BY <1>2, Untouched
       DEF chainVars, procVars, linkVars, File, Edit, AskSize, DownloadChunk, DownloadEnds, DownloadFails, DownloadBreaks,
           CopyToPart, RenamePart, LocalWriteFails, Stop, jobVars
  <2>4. st[1] # "absent" => total' = total
    BY <1>0, <1>2, <1>t
       DEF File, Edit, AskSize, DownloadChunk, DownloadEnds, DownloadFails, DownloadBreaks,
           CopyToPart, RenamePart, LocalWriteFails, Stop, EarlyInv
  <2>2. CASE temp' = temp
    BY <1>a, <2>1, <2>2, <2>4
  <2>3. CASE temp' # temp
    <3>1. st[1] = "absent"
      BY <1>0, <1>2, <1>t, <2>3
         DEF File, Edit, AskSize, DownloadChunk, DownloadEnds, DownloadFails, DownloadBreaks,
             CopyToPart, RenamePart, LocalWriteFails, Stop, destVars, EarlyInv
    <3> QED
      BY <1>n, <2>1, <3>1
  <2> QED
    BY <2>2, <2>3
<1>3. CASE Resolve
  BY <1>3, <1>n, <1>t, RouteFixed
<1>4. CASE Start
  <2>1. CASE route # <<>>
    <3>1. st'[1] = "new"
      BY <1>0, <1>4, <1>t, <2>1 DEF Start, ProcOK
    <3> QED
      BY <1>n, <3>1
  <2>2. CASE route = <<>>
    <3>1. /\ st'[1] = "run" /\ temp' = 0 /\ up'[1] = up[1] /\ eof'[1] = eof[1] /\ sent' = sent
      BY <1>0, <1>4, <1>t, <2>2 DEF Start, ProcOK, linkVars
    <3>2. sent = 0 /\ st[1] = "absent" /\ ~eof[1]
      BY <1>0, <1>4, <1>t DEF EarlyInv, Start
    <3>3. up[1] = 0
      BY <1>t, <3>2 DEF ChainInv, LegInv
    <3> QED
      BY <3>1, <3>2, <3>3 DEF PlainInv
  <2> QED
    BY <2>1, <2>2
<1>5. CASE StartFails \/ Receive \/ Finish
  BY <1>5, <1>a DEF StartFails, Receive, Finish, Stop, chainVars, mainVars, procVars, linkVars, destVars, jobVars
<1>6. CASE Send
  <2>1. /\ UNCHANGED <<job, route, st, eof, feeder, temp, lost>> /\ feeder[0] = "copy"
        /\ up'[1] = up[1] + 1
        /\ ~Tunnel => sent' = sent + 1
    BY <1>0, <1>6, <1>t DEF Send, procVars, destVars, jobVars, LinkOK
  <2>2. Tunnel' <=> Tunnel
    BY <2>1 DEF Tunnel
  <2>3. Live => temp' + up'[1] = sent' /\ ~eof[1] /\ st[1] # "eof"
    <3> SUFFICES ASSUME Live PROVE temp' + up'[1] = sent' /\ ~eof[1] /\ st[1] # "eof"
      OBVIOUS
    <3>1. temp \in Nat /\ up[1] \in Nat /\ sent \in Nat /\ temp + up[1] = sent
      BY <1>i, <1>l
    <3>2. temp + (up[1] + 1) = sent + 1
      BY <3>1
    <3> QED
      BY <1>i, <2>1, <3>2
  <2> QED
    BY <2>1, <2>2, <2>3 DEF PlainInv
<1>7. CASE SendEof
  <2>1. /\ UNCHANGED <<job, route, st, up, temp, sent, staged, total, lost, main>> /\ main = "await"
        /\ feeder'[0] = "done" /\ eof'[1] /\ MeetLocal
        /\ ~Tunnel => sent >= Input
    BY <1>0, <1>7, <1>t DEF SendEof, destVars, jobVars, LinkOK, ProcOK
  <2>2. (Tunnel' <=> Tunnel) /\ (Announced' <=> Announced)
    BY <2>1 DEF Tunnel, Announced
  <2>3. ~Tunnel /\ route = <<>> => Right(sent)'
    <3> SUFFICES ASSUME ~Tunnel, route = <<>> PROVE Right(sent)'
      OBVIOUS
    <3>1. PICK n \in Nat : n = sent
      BY <1>0 DEF MainOK
    <3>2. CASE job.source = "local"
      <4>1. staged = None /\ Told(n) /\ Meet /\ n >= size /\ ~Announced /\ VersionInv
        BY <1>0, <2>1, <3>1, <3>2 DEF FileInv, EarlyInv, MeetLocal, Input, Announced
      <4>2. Fine(n)'
        BY <2>1, <4>1, ReadOn
      <4> QED
        BY <2>1, <2>2, <3>1, <4>1, <4>2 DEF Fine, Right
    <3>3. CASE job.source \in {"ssh", "hop"}
      <4>1. staged \in Nat /\ Fine(staged) /\ (job.source = "hop" => staged = total) /\ sent <= staged
        BY <1>t, <2>1, <3>3 DEF FileInv
      <4>2. n = staged
        BY <1>t, <2>1, <3>1, <4>1 DEF Input
      <4>3. Right(n)
        BY <3>1, <3>3, <4>1, <4>2 DEF Fine, Right, Announced
      <4>4. Right(n)'
        BY <2>1, <4>3, RightKept DEF FileInv
      <4> QED
        BY <2>1, <3>1, <4>4
    <3> QED
      BY <1>0, <3>2, <3>3, JobFacts DEF MainOK
  <2> QED
    BY <1>i, <2>1, <2>2, <2>3 DEF PlainInv
<1>8. CASE LocalReadFails
  <2>1. /\ UNCHANGED <<job, route, st, up, temp, sent, lost>> /\ feeder'[0] = "failed"
        /\ route = <<>> => eof'[1]
    BY <1>0, <1>8, <1>t DEF LocalReadFails, mainVars, destVars, jobVars, LinkOK, ProcOK
  <2>2. Tunnel' <=> Tunnel
    BY <2>1 DEF Tunnel
  <2> QED
    BY <1>i, <2>1, <2>2 DEF PlainInv
<1>9. CASE route # <<>> /\ Command
  BY <1>9, <1>n, Untouched DEF mainVars
<1>10. CASE route = <<>> /\ CatChunk
  <2>1. /\ UNCHANGED <<job, route, st, eof, feeder, sent, total, lost>> /\ st[1] = "run"
        /\ up[1] > 0 /\ up'[1] = up[1] - 1 /\ temp' = temp + 1
    BY <1>0, <1>10, <1>t DEF CatChunk, mainVars, procVars, jobVars, LinkOK
  <2>2. (Tunnel' <=> Tunnel) /\ (Right(sent) => Right(sent)')
    BY <1>r, <2>1 DEF Tunnel
  <2>3. Live => temp' + up'[1] = sent'
    <3> SUFFICES ASSUME Live PROVE temp' + up'[1] = sent'
      OBVIOUS
    <3>1. temp \in Nat /\ up[1] \in Nat /\ temp + up[1] = sent
      BY <1>i, <1>l
    <3>2. (temp + 1) + (up[1] - 1) = sent
      BY <3>1
    <3> QED
      BY <2>1, <3>2
  <2> QED
    BY <1>i, <2>1, <2>2, <2>3 DEF PlainInv
<1>11. CASE route = <<>> /\ CatEnds
  <2>1. /\ UNCHANGED <<job, route, up, temp, eof, feeder, sent, total, lost>> /\ st[1] = "run"
        /\ up[1] = 0 /\ eof[1]
    BY <1>11, <1>t DEF CatEnds, mainVars, destVars, linkVars, jobVars
  <2>2. (Tunnel' <=> Tunnel) /\ (Right(sent) => Right(sent)')
    BY <1>r, <2>1 DEF Tunnel
  <2> QED
    BY <1>i, <2>1, <2>2 DEF PlainInv
<1>12. CASE route = <<>> /\ (Move \/ ScriptFails \/ DownstreamEnds)
  <2>1. st'[1] = "leave"
    BY <1>0, <1>12, <1>t DEF Move, ScriptFails, DownstreamEnds, Leaves, ProcOK
  <2> QED
    BY <1>n, <2>1
<1>13. CASE Dial \/ Upstream \/ Downstream \/ ServiceCloses \/ ServiceFails \/ ReceiveFails
  <2>1. Tunnel'
    BY <1>13 DEF Dial, Upstream, Downstream, ServiceCloses, ServiceFails, ReceiveFails, Tunnel, Stop, mainVars, jobVars
  <2> QED
    BY <1>n, <2>1
<1>14. ASSUME NEW i \in Procs, Helper(i) PROVE PlainInv'
  <2>1. UNCHANGED mainVars
    BY <1>14, Untouched
  <2>2. CASE route # <<>>
    BY <1>n, <2>1, <2>2 DEF mainVars
  <2>3. CASE route = <<>>
    <3>1. ~(i < Tip) /\ ~Connect(i)
      BY <1>t, <2>3, ConnectFacts
    <3>2. CASE Exit(i)
      <4>1. 1 # i + 1
        BY <1>t
      <4>2. eof'[1] = (eof[1] \/ 1 = i + 1)
        BY <1>t, <3>2 DEF Exit
      <4>3. eof'[1] = eof[1]
        BY <1>0, <1>t, <4>1, <4>2 DEF LinkOK
      <4>4. st'[1] \in {"run", "eof"} => st'[1] = st[1]
        BY <1>0, <1>t, <3>2 DEF Exit, ProcOK
      <4> QED
        BY <1>a, <2>1, <3>2, <4>3, <4>4 DEF Exit, mainVars, jobVars, fileVars, destVars
    <3>3. CASE ConnectFails(i) \/ WriteFails(i)
      <4>1. st' = [st EXCEPT ![i] = "leave"] /\ UNCHANGED <<temp, up, eof, feeder>>
        BY <3>3 DEF ConnectFails, WriteFails, Leaves, destVars, linkVars
      <4>2. st'[1] \in {"run", "eof"} => st'[1] = st[1]
        BY <1>0, <1>t, <4>1 DEF ProcOK
      <4> QED
        BY <1>a, <2>1, <4>1, <4>2 DEF mainVars, jobVars, fileVars
    <3> QED
      BY <1>14, <3>1, <3>2, <3>3 DEF Helper, ForwardUp, ForwardEof, ShortStdin, Feeding, ForwardDown, ChildExited, ChildIsOver
  <2> QED
    BY <2>2, <2>3
<1>15. ASSUME NEW i \in Procs, LinkBreaks(i) PROVE PlainInv'
  <2>1. route' = route /\ lost' = i /\ st[i] # "absent"
    BY <1>15 DEF LinkBreaks, Stop, mainVars
  <2>2. CASE route # <<>>
    BY <1>n, <2>1, <2>2
  <2>3. CASE route = <<>>
    <3>1. LegInv(i)
      BY DEF ChainInv
    <3>2. i = 1
      BY <1>t, <2>1, <2>3, <3>1 DEF LegInv
    <3> QED
      BY <2>1, <3>2 DEF PlainInv
  <2> QED
    BY <2>2, <2>3
<1> QED
  BY <1>2, <1>3, <1>4, <1>5, <1>6, <1>7, <1>8, <1>9, <1>10, <1>11, <1>12, <1>13, <1>14, <1>15
     DEF Next, Client, Command

\* Nothing is installed before there is a chain, nor by a tunnel, and a copy to this machine
\* has no feeder that could fail.
DestInv ==
    /\ main \in Before \/ Tunnel => dest = None
    /\ job.wanted = Local => feeder[0] = "none"
    /\ DestinationIsWhole

LEMMA FeederStep ==
    ASSUME TypeOK, ChainInv, Next
    PROVE  /\ main # "start" /\ feeder[0] = "failed" => feeder'[0] = "failed"
           /\ job.wanted = Local => feeder'[0] = feeder[0]
           /\ \/ feeder'[0] \in {feeder[0], "failed"}
              \/ Start /\ feeder'[0] = "copy"
              \/ SendEof /\ feeder'[0] = "done"
<1>0. ProcOK /\ EarlyInv
  BY TypeParts DEF ChainInv
<1>t. Tip \in Procs /\ 0 \notin Procs
  BY TipFacts DEF ChainInv, Procs
<1>1. CASE feeder'[0] = feeder[0]
  BY <1>1
<1>2. CASE Start
  BY <1>0, <1>2 DEF Start, EarlyInv, ProcOK
<1>3. CASE SendEof \/ LocalReadFails
  BY <1>0, <1>3 DEF SendEof, LocalReadFails, EarlyInv, ProcOK
<1>7. CASE ReceiveFails
  BY <1>0, <1>7 DEF ReceiveFails, EarlyInv, ProcOK
<1>4. CASE Command
  <2>1. feeder' = feeder \/ \E v : feeder' = [feeder EXCEPT ![Tip] = v]
    BY <1>4 DEF Command, CatChunk, CatEnds, Move, ScriptFails, Dial, Upstream, Downstream, ServiceCloses,
                DownstreamEnds, ServiceFails, procVars
  <2> QED
    BY <1>0, <1>1, <1>t, <2>1 DEF ProcOK
<1>5. ASSUME NEW i \in Procs, Helper(i) \/ LinkBreaks(i) PROVE feeder'[0] = feeder[0]
  <2>1. feeder' = feeder \/ \E v : feeder' = [feeder EXCEPT ![i] = v]
    BY <1>5 DEF Helper, Connect, ConnectFails, ForwardUp, ForwardEof, ShortStdin, ForwardDown, ChildExited, WriteFails,
                Exit, LinkBreaks, procVars
  <2> QED
    BY <1>0, <1>t, <2>1 DEF ProcOK
<1>6. CASE File \/ Resolve \/ StartFails \/ Send \/ Receive \/ Finish
  BY <1>1, <1>6, Untouched DEF chainVars, Resolve, StartFails, Send, Receive, Finish, procVars
<1> QED
  BY <1>1, <1>2, <1>3, <1>4, <1>5, <1>6, <1>7 DEF Next, Client

LEMMA DestStep ==
    ASSUME HopInv, OutcomeInv, LostInv, CountedInv, PlainInv, FedInv, DestInv, Next, OutcomeInv'
    PROVE  DestInv'
<1>0. TypeOK /\ ChainInv /\ EarlyInv /\ FileInv /\ TempInv /\ RouteInv
  BY DEF HopInv, ChainInv
<1>p. MainOK /\ ProcOK /\ DestOK /\ LinkOK
  BY <1>0, TypeParts
<1>t. /\ Tip \in Procs /\ 1 \in Procs /\ None \notin Nat /\ (Tip = 1 <=> route = <<>>)
      /\ \A i \in Procs : i \in Nat
  BY <1>0, TipFacts, Limits
<1>w. job.wanted \in Hosts \cup {Entry, Local} /\ (Tunnel => job.wanted # Local)
  BY <1>p, JobFacts, ExecHopAssumption DEF MainOK
<1>1. main' \in Before => main \in Before
  <2>1. Steady \/ Connect(1) \/ Start => (main' \in Before => main \in Before)
    BY DEF Steady, Connect, Start, mainVars, Before
  <2>2. \A i \in Procs : Connect(i) => main' = main
    BY DEF Connect, mainVars
  <2>3. Resolve => main \in Before
    BY DEF Resolve, Before
  <2> QED
    BY <1>0, <2>1, <2>2, <2>3, OftenSteady
<1>2. job' = job
  BY <1>0, RouteFixed DEF Resolve, Stop, jobVars
<1>3. job.wanted = Local => feeder'[0] = "none"
  BY <1>0, FeederStep DEF DestInv
<1>4. dest # None \/ st[1] # "absent" => total' = total
  <2>1. AskSize \/ Start => st[1] = "absent" /\ main \in Before
    BY <1>0, <1>t DEF AskSize, Start, EarlyInv, Before
  <2>2. ~AskSize /\ ~Start => total' = total
    BY Untouched
       DEF Next, File, Edit, DownloadChunk, DownloadEnds, DownloadFails, DownloadBreaks, CopyToPart, RenamePart,
           LocalWriteFails, Client, Resolve, StartFails, Send, SendEof, LocalReadFails, Receive, ReceiveFails, Finish,
           LinkBreaks, Stop, mainVars
  <2> QED
    BY <2>1, <2>2 DEF DestInv
<1>r. ASSUME NEW n, Right(n), UNCHANGED <<route, total>> PROVE Right(n)'
  BY <1>0, <1>2, <1>r, RightKept DEF FileInv
\* What is at the destination stays as good as it was.
<1>a. ASSUME dest' = dest PROVE DestInv'
  <2>1. main' \in Before \/ Tunnel' => dest' = None
    BY <1>a, <1>1, <1>2 DEF DestInv, Tunnel
  <2>2. ASSUME dest # None PROVE DestinationIsWhole'
    <3>1. main \notin Before /\ ~Tunnel
      BY <2>2 DEF DestInv
    <3>2. ~Resolve /\ route' = route /\ (Announced' <=> Announced) /\ Tip' = Tip
      BY <1>0, <3>1, RouteFixed DEF Resolve, Before, Announced, Tip
    <3>4. CASE Right(dest)
      <4>1. PICK n : n = dest
        OBVIOUS
      <4>2. Right(n)'
        BY <1>4, <1>r, <2>2, <3>2, <3>4, <4>1
      <4>3. Right(dest)'
        BY <1>a, <4>1, <4>2
      <4> QED
        BY <4>3 DEF DestinationIsWhole, Right
    <3>5. CASE ~Right(dest)
      <4>1. (lost = Tip \/ feeder[0] = "failed") /\ result # "ok"
        BY <2>2, <3>5 DEF DestInv, DestinationIsWhole, Right
      <4>2. CASE lost = Tip
        <5>1. lost' = Tip
          BY <1>t, <4>2, LostOnce
        <5>2. result' # "ok"
          BY <1>t, <5>1 DEF OutcomeInv
        <5> QED
          BY <3>2, <5>1, <5>2 DEF DestinationIsWhole
      <4>3. CASE feeder[0] = "failed"
        <5>1. feeder'[0] = "failed" /\ job.wanted # Local
          BY <1>0, <3>1, <4>3, FeederStep DEF Before, DestInv
        <5>2. result' # "ok"
          BY <1>2, <3>1, <5>1 DEF OutcomeInv, Tunnel
        <5> QED
          BY <5>1, <5>2 DEF DestinationIsWhole
      <4> QED
        BY <4>1, <4>2, <4>3
    <3> QED
      BY <3>4, <3>5
  <2>3. dest = None => DestinationIsWhole'
    BY <1>a DEF DestinationIsWhole
  <2> QED
    BY <1>2, <1>3, <2>1, <2>2, <2>3 DEF DestInv
\* It is put there.
<1>5. CASE RenamePart
  <2>1. dest' = temp /\ main' = "done" /\ UNCHANGED <<route, total, fileVars>> /\ ~Tunnel /\ temp \in Nat /\ temp = staged
        /\ main = "resolve" /\ job.wanted = Local
    BY <1>0, <1>5, <1>p, <1>w DEF RenamePart, Stop, FileInv, DestOK
  <2>2. PICK n \in Nat : n = temp
    BY <2>1
  <2>3. job.source \in {"ssh", "hop"}
    BY <1>0, <1>p, <1>t, <2>1, JobFacts DEF FileInv, MainOK
  <2>4. Fine(n) /\ (job.source = "hop" => n = total)
    BY <1>0, <2>1, <2>2, <2>3 DEF FileInv
  <2>5. Right(n)
    BY <2>3, <2>4 DEF Fine, Right, Announced
  <2>6. Right(n)'
    BY <1>r, <2>1, <2>5
  <2>7. Right(dest)'
    BY <2>1, <2>2, <2>6
  <2> QED
    BY <1>2, <1>3, <2>1, <2>7 DEF DestInv, DestinationIsWhole, Right, Before, Tunnel
<1>6. CASE Move
  <2>1. /\ dest' = temp /\ ~Tunnel /\ st[Tip] = "eof" /\ temp \in Nat
        /\ UNCHANGED <<main, result, route, total, lost, feeder>> /\ Tip' = Tip
    BY <1>0, <1>6 DEF Move, mainVars, Tip, TempInv
  <2>2. st[1] # "absent" /\ main \notin Before /\ (Announced' <=> Announced)
    BY <1>0, <1>2, <1>t, <2>1 DEF EarlyInv, Before, Announced
  <2>3. result # "ok"
    <3> SUFFICES ASSUME result = "ok" PROVE FALSE
      OBVIOUS
    <3>1. job.wanted # Local
      BY <1>0, <1>t, <2>1 DEF EarlyInv
    <3>2. Good(1) /\ ~Good(Tip) /\ Tip \in Nat /\ Tip >= 1
      BY <1>0, <2>1, <3>1, TipFacts DEF OutcomeInv, Good, Gone
    <3>3. Tip # 1
      BY <3>2
    <3>4. 1 \in 1 .. Tip /\ Tip \in 1 + 1 .. Tip
      BY <3>2, <3>3
    <3> QED
      BY <3>2, <3>4 DEF OutcomeInv
  <2>4. CASE lost = Tip \/ feeder[0] = "failed"
    BY <1>2, <1>3, <2>1, <2>2, <2>3, <2>4 DEF DestInv, DestinationIsWhole, Tunnel
  <2>5. ASSUME NEW n \in Nat, n = temp, Right(n) PROVE DestInv'
    <3>1. Right(n)'
      BY <1>r, <2>1, <2>5
    <3>2. Right(dest)'
      BY <2>1, <2>5, <3>1
    <3> QED
      BY <1>2, <1>3, <2>1, <2>2, <3>2 DEF DestInv, DestinationIsWhole, Right, Tunnel
  <2>6. CASE lost # Tip /\ route # <<>>
    <3>1. temp + up[Tip] + left = total /\ up[Tip] = 0 /\ left = 0
      BY <2>1, <2>6 DEF CountedInv
    <3>2. PICK n \in Nat : n = temp /\ n = total
      BY <2>1, <3>1
    <3>3. CASE job.source # "local"
      <4>1. Fine(total)
        BY <1>0, <2>1, <2>2, <3>3 DEF FileInv
      <4> QED
        BY <2>5, <3>2, <4>1 DEF Fine, Right
    <3>4. CASE job.source = "local"
      <4>1. Told(sent) /\ job.wanted # Local
        BY <1>0, <1>t, <2>2, <3>4 DEF FileInv, EarlyInv
      <4>2. n <= sent /\ sent \in Nat
        <5>1. Cardinality(Chunks(up)) + n <= sent /\ Cardinality(Chunks(up)) \in Nat
          BY <1>t, <2>1, <3>2, <4>1, ChunksFinite DEF FedInv
        <5> QED
          BY <1>p, <5>1 DEF MainOK
      <4>3. CASE ChangedMeanwhile
        BY <2>5, <3>2, <4>3 DEF Right
      <4>4. CASE ~ChangedMeanwhile
        <5>1. sent = n /\ n < Len(read) /\ n = seen[read[1] + 1]
          BY <3>2, <4>1, <4>2, <4>4 DEF Told
        <5>2. Len(read) \in Nat /\ DOMAIN read = 1 .. Len(read)
          BY <1>p DEF MainOK
        <5>3. \A k \in 1 .. n : read[k + 1] = read[1]
          BY <4>4, <5>1, <5>2 DEF ChangedMeanwhile
        <5>4. read[1] \in 0 .. edits
          BY <1>0, <5>1, <5>2 DEF FileInv, VersionInv
        <5>5. IsVersion(n, read[1])
          BY <5>1, <5>3 DEF IsVersion
        <5> QED
          BY <2>5, <3>2, <5>4, <5>5 DEF Right
      <4> QED
        BY <4>3, <4>4
    <3> QED
      BY <3>3, <3>4
  <2>7. CASE lost # Tip /\ route = <<>> /\ feeder[0] # "failed"
    <3>1. temp + up[1] = sent /\ up[1] = 0 /\ Right(sent)
      BY <1>t, <2>1, <2>7 DEF PlainInv
    <3>2. temp = sent
      BY <2>1, <3>1
    <3> QED
      BY <2>1, <2>5, <3>1, <3>2
  <2> QED
    BY <2>4, <2>6, <2>7
<1>7. CASE ~RenamePart /\ ~Move
  <2>1. dest' = dest
    BY <1>7
     DEF Next, File, Edit, AskSize, DownloadChunk, DownloadEnds, DownloadFails, DownloadBreaks, CopyToPart,
         LocalWriteFails, Client, Resolve, Start, StartFails, Send, SendEof, LocalReadFails, Receive, ReceiveFails, Finish,
         Command, CatChunk, CatEnds, ScriptFails, Dial, Upstream, Downstream, ServiceCloses, DownstreamEnds, ServiceFails,
         Helper, Connect, ConnectFails, ForwardUp, ForwardEof, ShortStdin, ForwardDown, ChildExited, WriteFails, Exit,
         LinkBreaks, destVars
  <2> QED
    BY <1>a, <2>1
<1> QED
  BY <1>5, <1>6, <1>7

\* The third invariant: what is installed.
WholeInv == EndInv /\ CountedInv /\ PlainInv /\ FedInv /\ DestInv

\* What cp puts at the destination is one version of the source, of its size and with every
\* chunk read from it, unless the source changed while it was read: for every length of the
\* chain and of the file, every capacity of the links and every moment at which the file
\* changes or a link breaks.  The length that was announced is counted by the last helper,
\* no end of input reaches the command before it, and nothing is installed that was not
\* read.  Two exceptions the code has, and the theorem states: of a source that changes
\* meanwhile only the announced length is right, where one is announced; and a payload that
\* the last leg or the local read cuts off is installed, after which the command reports an
\* error.
THEOREM DestinationAlwaysWhole == Spec => []DestinationIsWhole
<1>1. Init => WholeInv
  <2> SUFFICES ASSUME Init PROVE WholeInv
    OBVIOUS
  <2>1. EndInv /\ Tip \in Procs /\ 1 \in Procs
    BY EndInit, TipFacts DEF EndInv, HopInv, ChainInv
  <2>2. /\ st[Tip] = "absent" /\ st[1] = "absent" /\ dest = None /\ feeder[0] = "none" /\ temp = None /\ sent = 0
        /\ \A p \in Procs : up[p] = 0
    BY <2>1 DEF Init
  <2>3. Cardinality(Chunks(up)) = 0
    BY <2>2, ChunkNone
  <2> QED
    BY <2>1, <2>2, <2>3 DEF WholeInv, CountedInv, PlainInv, FedInv, DestInv, DestinationIsWhole
<1>2. WholeInv /\ [Next]_vars => WholeInv'
  <2> SUFFICES ASSUME WholeInv, [Next]_vars PROVE WholeInv'
    OBVIOUS
  <2>1. EndInv'
    BY EndNext DEF WholeInv
  <2>2. CASE Next
    <3>1. CountedInv' /\ PlainInv' /\ FedInv'
      BY <2>2, CountedStep, PlainStep, FedStep DEF WholeInv, EndInv, HopInv
    <3>2. DestInv'
      BY <2>1, <2>2, DestStep DEF WholeInv, EndInv
    <3> QED
      BY <2>1, <3>1, <3>2 DEF WholeInv
  <2>3. CASE UNCHANGED vars
    <3>1. CountedInv'
      BY <2>3 DEF WholeInv, CountedInv, Tip, Tunnel, vars, jobVars, destVars, procVars, linkVars
    <3>2. PlainInv'
      BY <2>3 DEF WholeInv, PlainInv, Right, IsVersion, ChangedMeanwhile, Tunnel, Announced, vars, jobVars, fileVars,
                  destVars, procVars, linkVars
    <3>4. FedInv'
      BY <2>3 DEF WholeInv, FedInv, Chunks, Procs, Tunnel, vars, jobVars, destVars, linkVars
    <3>3. DestInv'
      BY <2>3 DEF WholeInv, DestInv, DestinationIsWhole, IsVersion, ChangedMeanwhile, Tip, Tunnel, Announced, vars, jobVars, fileVars, destVars, procVars
    <3> QED
      BY <2>1, <3>1, <3>2, <3>3, <3>4 DEF WholeInv
  <2> QED
    BY <2>2, <2>3
<1>3. WholeInv => DestinationIsWhole
  BY DEF WholeInv, DestInv
<1> QED
  BY <1>1, <1>2, <1>3, PTL DEF Spec

----------------------------------------------------------------------------
(* The streams of a tunnel.                                                *)

\* The chunks on their way to the service, and back.
LEMMA UpFlows ==
    ASSUME TypeOK, ChainInv, Next, Tunnel, lost' = None
    PROVE  \/ up' = up /\ cli'.left = cli.left /\ srv'.got = srv.got
           \/ /\ up' = [up EXCEPT ![1] = up[1] + 1] /\ up[1] < Cap
              /\ cli.left > 0 /\ cli'.left = cli.left - 1 /\ srv' = srv
           \/ \E i \in Procs :
                  /\ i < Tip /\ up[i] > 0 /\ up[i + 1] < Cap
                  /\ up' = [up EXCEPT ![i] = up[i] - 1, ![i + 1] = up[i + 1] + 1]
                  /\ cli' = cli /\ srv' = srv
           \/ /\ up[Tip] > 0 /\ up' = [up EXCEPT ![Tip] = up[Tip] - 1]
              /\ srv'.got = srv.got + 1 /\ cli' = cli
<1>0. cli \in Ends /\ srv \in Ends /\ LinkOK /\ None \notin Nat
  BY Limits, TypeParts DEF TypeOK
<1>t. 1 \in Procs /\ \A i \in Procs : i \in Nat /\ i # i + 1 /\ (i < Tip => i + 1 \in Procs)
  BY TipFacts DEF ChainInv
<1> DEFINE Same == up' = up /\ cli'.left = cli.left /\ srv'.got = srv.got
<1>1. CASE File
  BY <1>1, Untouched DEF chainVars, linkVars, tcpVars
<1>2. CASE Resolve \/ Start \/ StartFails \/ LocalReadFails
  BY <1>2 DEF Resolve, Start, StartFails, LocalReadFails, chainVars, linkVars, tcpVars
<1>3. CASE SendEof \/ Receive \/ ReceiveFails \/ Finish
  BY <1>0, <1>3 DEF SendEof, Receive, ReceiveFails, Finish, linkVars, Ends
<1>4. CASE Send
  BY <1>0, <1>4, <1>t DEF Send, Ends
<1>5. CASE CatChunk
  BY <1>5 DEF CatChunk
<1>6. CASE Upstream
  BY <1>0, <1>6 DEF Upstream, Ends
<1>7. CASE CatEnds \/ Move \/ ScriptFails \/ Dial \/ ServiceFails
  BY <1>7 DEF CatEnds, Move, ScriptFails, Dial, ServiceFails, linkVars, tcpVars
<1>8. CASE Downstream \/ ServiceCloses \/ DownstreamEnds
  BY <1>0, <1>8 DEF Downstream, ServiceCloses, DownstreamEnds, ServiceFails, linkVars, Ends
<1>9. ASSUME NEW i \in Procs, ForwardUp(i)
      PROVE  /\ i < Tip /\ up[i] > 0 /\ up[i + 1] < Cap
             /\ up' = [up EXCEPT ![i] = up[i] - 1, ![i + 1] = up[i + 1] + 1]
             /\ cli' = cli /\ srv' = srv
  <2>1. i < Tip /\ i + 1 \in Procs /\ i # i + 1
    BY <1>9, <1>t DEF ForwardUp, Feeding
  <2>2. up' = [up EXCEPT ![i] = up[i] - 1, ![i + 1] = up[i + 1] + 1]
    BY <1>0, <1>9, <2>1 DEF ForwardUp, LinkOK
  <2> QED
    BY <1>9, <2>1, <2>2 DEF ForwardUp, tcpVars
<1>10. ASSUME NEW i \in Procs, Helper(i), ~ForwardUp(i) PROVE Same
  BY <1>10
     DEF Helper, Connect, ConnectFails, ForwardEof, ShortStdin, ForwardDown, ChildExited, WriteFails, Exit, linkVars, tcpVars
<1>11. ASSUME NEW i \in Procs, LinkBreaks(i) PROVE FALSE
  BY <1>0, <1>11, <1>t DEF LinkBreaks
<1> QED
  BY <1>1, <1>2, <1>3, <1>4, <1>5, <1>6, <1>7, <1>8, <1>9, <1>10, <1>11 DEF Next, Client, Command

LEMMA DownFlows ==
    ASSUME TypeOK, ChainInv, Next, Tunnel, lost' = None
    PROVE  \/ down' = down /\ srv'.left = srv.left /\ cli'.got = cli.got
           \/ /\ down' = [down EXCEPT ![Tip] = down[Tip] + 1] /\ down[Tip] < Cap
              /\ srv.left > 0 /\ srv'.left = srv.left - 1 /\ cli' = cli
           \/ \E i \in Procs :
                  /\ i < Tip /\ down[i + 1] > 0 /\ down[i] < Cap
                  /\ down' = [down EXCEPT ![i + 1] = down[i + 1] - 1, ![i] = down[i] + 1]
                  /\ cli' = cli /\ srv' = srv
           \/ /\ down[1] > 0 /\ down' = [down EXCEPT ![1] = down[1] - 1]
              /\ cli'.got = cli.got + 1 /\ srv' = srv
<1>0. cli \in Ends /\ srv \in Ends /\ LinkOK /\ None \notin Nat /\ (lost = None \/ lost' = lost)
  BY Limits, LostOnce, TypeParts DEF TypeOK
<1>t. Tip \in Procs /\ \A i \in Procs : i \in Nat /\ i # i + 1 /\ (i < Tip => i + 1 \in Procs)
  BY TipFacts DEF ChainInv
<1> DEFINE Same == down' = down /\ srv'.left = srv.left /\ cli'.got = cli.got
<1>1. CASE File
  BY <1>1, Untouched DEF chainVars, linkVars, tcpVars
<1>2. CASE Resolve \/ Start \/ StartFails \/ LocalReadFails
  BY <1>2 DEF Resolve, Start, StartFails, LocalReadFails, chainVars, linkVars, tcpVars
<1>3. CASE SendEof \/ Send \/ ReceiveFails \/ Finish
  BY <1>0, <1>3 DEF SendEof, Send, ReceiveFails, Finish, linkVars, Ends
<1>4. CASE Receive
  BY <1>0, <1>4 DEF Receive, Ends
<1>5. CASE Downstream
  BY <1>0, <1>5 DEF Downstream, Ends
<1>6. CASE CatChunk \/ CatEnds \/ Move \/ ScriptFails \/ Dial
  BY <1>6 DEF CatChunk, CatEnds, Move, ScriptFails, Dial, linkVars, tcpVars
<1>7. CASE Upstream \/ ServiceCloses \/ DownstreamEnds
  BY <1>0, <1>7 DEF Upstream, ServiceCloses, DownstreamEnds, linkVars, Ends
<1>11. CASE ServiceFails
  BY <1>11 DEF ServiceFails, linkVars, tcpVars
<1>8. ASSUME NEW i \in Procs, ForwardDown(i)
      PROVE  /\ i < Tip /\ down[i + 1] > 0 /\ down[i] < Cap
             /\ down' = [down EXCEPT ![i + 1] = down[i + 1] - 1, ![i] = down[i] + 1]
             /\ cli' = cli /\ srv' = srv
  <2>1. i < Tip /\ i + 1 \in Procs /\ i # i + 1
    BY <1>8, <1>t DEF ForwardDown
  <2>2. down' = [down EXCEPT ![i + 1] = down[i + 1] - 1, ![i] = down[i] + 1]
    BY <1>0, <1>8, <2>1 DEF ForwardDown, LinkOK
  <2> QED
    BY <1>8, <2>1, <2>2 DEF ForwardDown, tcpVars
<1>9. ASSUME NEW i \in Procs, Helper(i), ~ForwardDown(i) PROVE Same
  <2>1. ~WriteFails(i)
    BY <1>0, <1>t DEF WriteFails
  <2> QED
    BY <1>9, <2>1
       DEF Helper, Connect, ConnectFails, ForwardUp, ForwardEof, ShortStdin, ChildExited, Exit, linkVars, tcpVars
<1>10. ASSUME NEW i \in Procs, LinkBreaks(i) PROVE FALSE
  BY <1>0, <1>10, <1>t DEF LinkBreaks
<1> QED
  BY <1>1, <1>2, <1>3, <1>4, <1>5, <1>6, <1>7, <1>8, <1>9, <1>10, <1>11 DEF Next, Client, Command

\* Where the end of input can come from.
LEMMA EofOrigin ==
    ASSUME TypeOK, ChainInv, Next, Tunnel, lost' = None, feeder'[0] # "failed",
           main = "await" => feeder[0] # "none" /\ (feeder[0] = "done" => cli.left = 0),
           NEW i \in Procs, i <= Tip, eof'[i], st'[i] \in {"new", "run"}
    PROVE  \/ eof[i] /\ st[i] \in {"new", "run"}
           \/ i = 1 /\ up' = up /\ cli'.left = cli.left /\ cli.left = 0
           \/ \E k \in Procs : /\ i = k + 1 /\ up' = up /\ cli' = cli
                               /\ up[k] = 0 /\ eof[k] /\ st[k] = "run"
<1>0. ProcOK /\ LinkOK /\ EarlyInv /\ cli \in Ends /\ None \notin Nat /\ (lost = None \/ lost' = lost)
  BY Limits, LostOnce, TypeParts DEF ChainInv, TypeOK
<1>t. /\ Tip \in Procs /\ 1 \in Procs
      /\ \A j \in Procs : j \in Nat \ {0} /\ (j < Tip => j + 1 \in Procs /\ j \in 1 .. MaxHops)
  BY TipFacts DEF ChainInv
<1> DEFINE Old == eof[i] /\ st[i] \in {"new", "run"}
<1>a. ASSUME eof' = eof, st' = st \/ \E p \in Procs, s \in {"leave", "eof", "exited"} : st' = [st EXCEPT ![p] = s] PROVE Old
  BY <1>0, <1>a DEF ProcOK
<1>1. CASE File
  BY <1>1, <1>a, Untouched DEF chainVars, procVars, linkVars
<1>2. CASE Resolve \/ StartFails \/ Send \/ Receive \/ Finish
  BY <1>2, <1>a DEF Resolve, StartFails, Send, Receive, Finish, chainVars, procVars, linkVars
<1>14. CASE ReceiveFails
  <2>1. feeder[0] = "done" /\ main = "await"
    BY <1>0, <1>14 DEF ReceiveFails, ProcOK
  <2>2. cli.left = 0 /\ cli'.left = cli.left /\ up' = up /\ st' = st
    BY <1>0, <1>14, <2>1 DEF ReceiveFails, Ends
  <2>3. i # 1 => eof'[i] = eof[i]
    BY <1>0, <1>14 DEF ReceiveFails, LinkOK
  <2> QED
    BY <2>2, <2>3
<1>3. CASE Start
  <2>1. /\ st[i] = "absent" /\ ~eof[1] /\ eof' = eof
        /\ i # 1 => st'[i] = st[i]
    BY <1>0, <1>3, <1>t DEF EarlyInv, Start, ProcOK, linkVars
  <2> QED
    BY <2>1
<1>4. CASE SendEof
  <2>1. cli.left = 0 /\ cli'.left = cli.left /\ up' = up /\ st' = st
    BY <1>0, <1>4 DEF SendEof, Ends
  <2>2. i # 1 => eof'[i] = eof[i]
    BY <1>0, <1>4 DEF SendEof, LinkOK
  <2> QED
    BY <2>1, <2>2
<1>5. CASE LocalReadFails \/ CatChunk \/ CatEnds \/ Move \/ ScriptFails
  BY <1>0, <1>5 DEF LocalReadFails, CatChunk, CatEnds, Move, ScriptFails, ProcOK
<1>6. CASE Dial
  <2>1. eof' = eof /\ st[Tip] = "new" /\ (i # Tip => st'[i] = st[i])
    BY <1>0, <1>6 DEF Dial, linkVars, ProcOK
  <2> QED
    BY <2>1
<1>7. CASE Upstream \/ Downstream \/ ServiceCloses \/ DownstreamEnds \/ ServiceFails
  BY <1>7, <1>a, <1>t DEF Upstream, Downstream, ServiceCloses, DownstreamEnds, ServiceFails, Leaves, procVars, linkVars
<1>8. ASSUME NEW k \in Procs, Connect(k) PROVE Old
  <2>1. eof' = eof /\ st[k] = "new" /\ (i \notin {k, k + 1} => st'[i] = st[i])
    BY <1>0, <1>8 DEF Connect, linkVars, ProcOK
  <2>2. ~eof[k + 1]
    BY <1>8, ConnectFacts
  <2> QED
    BY <2>1, <2>2
<1>9. ASSUME NEW k \in Procs, ConnectFails(k) \/ ChildExited(k) \/ WriteFails(k) PROVE Old
  BY <1>9, <1>a DEF ConnectFails, ChildExited, WriteFails, Leaves, linkVars
<1>10. ASSUME NEW k \in Procs, ForwardUp(k) \/ ShortStdin(k) \/ ForwardDown(k) PROVE Old
  BY <1>10, <1>a DEF ForwardUp, ShortStdin, ForwardDown, procVars, linkVars
<1>11. ASSUME NEW k \in Procs, ForwardEof(k)
       PROVE  Old \/ (i = k + 1 /\ up' = up /\ cli' = cli /\ up[k] = 0 /\ eof[k] /\ st[k] = "run")
  <2>1. st[k] = "run" /\ up' = up /\ cli' = cli /\ st' = st /\ up[k] = 0 /\ eof[k]
    BY <1>11 DEF ForwardEof, Feeding, FeederEnds, Counts, tcpVars
  <2>2. i # k + 1 => eof'[i] = eof[i]
    BY <1>0, <1>11 DEF ForwardEof, LinkOK
  <2> QED
    BY <2>1, <2>2
<1>12. ASSUME NEW k \in Procs, Exit(k) PROVE Old
  <2>1. st[k] = "leave" /\ lost' = lost /\ st'[k] = "exited" /\ (i # k => st'[i] = st[i])
    BY <1>0, <1>12 DEF Exit, ProcOK
  <2>2. i # k
    BY <2>1
  <2>3. CASE i = k + 1
    <3>1. k < Tip /\ k \in 1 .. MaxHops
      BY <1>t, <2>3
    <3>2. st[k + 1] \in {"absent", "exited"} \/ lost = k + 1 \/ lost = k
      BY <2>1, <3>1 DEF ChainInv, PairInv, Gone
    <3>3. FALSE
      BY <1>0, <1>t, <2>1, <2>2, <2>3, <3>2
    <3> QED
      BY <3>3
  <2>4. CASE i # k + 1
    <3>1. eof'[i] = (eof[i] \/ i = k + 1)
      BY <1>12 DEF Exit
    <3>2. eof[i] \in BOOLEAN
      BY <1>0 DEF LinkOK
    <3> QED
      BY <2>1, <2>2, <2>4, <3>1, <3>2
  <2> QED
    BY <2>3, <2>4
<1>13. ASSUME NEW k \in Procs, LinkBreaks(k) PROVE FALSE
  BY <1>0, <1>13, <1>t DEF LinkBreaks
<1> QED
  BY <1>1, <1>2, <1>3, <1>4, <1>5, <1>6, <1>7, <1>8, <1>9, <1>10, <1>11, <1>12, <1>13, <1>14 DEF Next, Client, Command, Helper

LEMMA StreamStep ==
    ASSUME TypeOK, ChainInv, OutcomeInv, StreamInv, Next, TypeOK'
    PROVE  StreamInv'
<1> SUFFICES ASSUME Tunnel', lost' = None
             PROVE  /\ cli'.left + Cardinality(Chunks(up')) + srv'.got = size'
                    /\ srv'.left + Cardinality(Chunks(down')) + cli'.got = 1
                    /\ ~srv'.closed /\ feeder'[0] # "failed" => \A i \in 1 .. Tip' : eof'[i] /\ st'[i] \in {"new", "run"} =>
                                           cli'.left = 0 /\ \A j \in 1 .. i - 1 : up'[j] = 0
                    /\ srv'.eof => srv'.got = size' \/ srv'.closed \/ feeder'[0] = "failed"
                    /\ result' = "ok" => down'[1] = 0
                    /\ main' = "await" => feeder'[0] # "none" /\ (feeder'[0] = "done" => cli'.left = 0)
                    /\ srv'.eof => st'[1] # "absent"
  BY DEF StreamInv, Chunks, Procs
<1>0. /\ ProcOK /\ LinkOK /\ EarlyInv /\ MainOK /\ cli \in Ends /\ srv \in Ends
      /\ cli' \in Ends /\ srv' \in Ends /\ LinkOK' /\ size' \in Nat
  BY TypeParts DEF ChainInv, TypeOK, MainOK
<1>t. /\ Tip \in Procs /\ Tip \in Nat \ {0} /\ 1 \in Procs /\ None \notin Nat /\ 1 .. Tip \subseteq Procs
      /\ \A i \in Procs : i \in Nat \ {0} /\ (i < Tip => i + 1 \in Procs)
  BY TipFacts, Limits DEF ChainInv, Procs
<1>u. Tunnel /\ lost = None /\ job' = job /\ (route' = route \/ (Resolve /\ st' = st /\ \A i \in Procs : st[i] = "absent"))
  BY <1>t, LostOnce, RouteFixed DEF Resolve, Stop, jobVars, Tunnel
<1>i. /\ cli.left + Cardinality(Chunks(up)) + srv.got = size
      /\ srv.left + Cardinality(Chunks(down)) + cli.got = 1
      /\ ~srv.closed /\ feeder[0] # "failed" => \A i \in 1 .. Tip : eof[i] /\ st[i] \in {"new", "run"} =>
                            cli.left = 0 /\ \A j \in 1 .. i - 1 : up[j] = 0
      /\ srv.eof => srv.got = size \/ srv.closed \/ feeder[0] = "failed"
      /\ result = "ok" => down[1] = 0
      /\ main = "await" => feeder[0] # "none" /\ (feeder[0] = "done" => cli.left = 0)
      /\ srv.eof => st[1] # "absent"
  BY <1>u DEF StreamInv
<1>n. /\ cli.left \in Nat /\ srv.got \in Nat /\ srv.left \in Nat /\ cli.got \in Nat
      /\ cli'.left \in Nat /\ srv'.got \in Nat
      /\ Cardinality(Chunks(up)) \in Nat /\ Cardinality(Chunks(down)) \in Nat /\ Cardinality(Chunks(up')) \in Nat
      /\ Cardinality(Chunks(down')) \in Nat /\ size \in Nat
  BY <1>0, ChunksFinite DEF Ends, MainOK
<1>f. up \in [Procs -> 0 .. Cap] /\ down \in [Procs -> 0 .. Cap] /\ Cap \in Nat
  BY <1>0, Limits DEF LinkOK
<1>s. size' = size
  <2>1. ~Edit
    BY <1>u DEF Edit
  <2> QED
    BY <2>1, FileMoves DEF Meet, fileVars
\* Only the command hears of the end of input, once its helper runs.
<1>e. srv'.eof /\ ~srv.eof => Upstream \/ DownstreamEnds
  <2> SUFFICES ASSUME srv'.eof, ~srv.eof PROVE Upstream \/ DownstreamEnds
    OBVIOUS
  <2>1. CASE File
    BY <2>1, Untouched DEF chainVars, tcpVars
  <2>2. CASE Client \/ \E i \in Procs : Helper(i) \/ LinkBreaks(i)
    BY <2>2
       DEF Client, Resolve, Start, StartFails, Send, SendEof, LocalReadFails, Receive, ReceiveFails, Finish, Helper, Connect,
           ConnectFails, ForwardUp, ForwardEof, ShortStdin, ForwardDown, ChildExited, WriteFails, Exit, LinkBreaks,
           chainVars, tcpVars
  <2>3. CASE Downstream \/ ServiceCloses
    BY <1>0, <2>3 DEF Downstream, ServiceCloses, Ends
  <2>4. CASE CatChunk \/ CatEnds \/ Move \/ ScriptFails \/ Dial \/ ServiceFails
    BY <2>4 DEF CatChunk, CatEnds, Move, ScriptFails, Dial, ServiceFails, tcpVars
  <2> QED
    BY <2>1, <2>2, <2>3, <2>4 DEF Next, Command
<1>1. cli'.left + Cardinality(Chunks(up')) + srv'.got = size'
  <2>1. CASE up' = up /\ cli'.left = cli.left /\ srv'.got = srv.got
    BY <1>i, <1>s, <2>1
  <2>2. CASE up' = [up EXCEPT ![1] = up[1] + 1] /\ up[1] < Cap /\ cli.left > 0 /\ cli'.left = cli.left - 1 /\ srv' = srv
    <3>1. Cardinality(Chunks(up')) = Cardinality(Chunks(up)) + 1
      BY <1>f, <1>t, <2>2, ChunkMore
    <3> QED
      BY <1>i, <1>n, <1>s, <2>2, <3>1
  <2>3. ASSUME NEW i \in Procs, i < Tip, up[i] > 0, up[i + 1] < Cap,
               up' = [up EXCEPT ![i] = up[i] - 1, ![i + 1] = up[i + 1] + 1], cli' = cli, srv' = srv
        PROVE  cli'.left + Cardinality(Chunks(up')) + srv'.got = size'
    <3>1. i + 1 \in Procs /\ i # i + 1
      BY <1>t, <2>3
    <3>2. Cardinality(Chunks(up')) = Cardinality(Chunks(up))
      BY <1>f, <2>3, <3>1, ChunkMoves
    <3> QED
      BY <1>i, <1>s, <2>3, <3>2
  <2>4. CASE up[Tip] > 0 /\ up' = [up EXCEPT ![Tip] = up[Tip] - 1] /\ srv'.got = srv.got + 1 /\ cli' = cli
    <3>1. Cardinality(Chunks(up)) = Cardinality(Chunks(up')) + 1
      BY <1>f, <1>t, <2>4, ChunkLess
    <3> QED
      BY <1>i, <1>n, <1>s, <2>4, <3>1
  <2> QED
    BY <1>u, <2>1, <2>2, <2>3, <2>4, UpFlows
<1>2. srv'.left + Cardinality(Chunks(down')) + cli'.got = 1
  <2>1. CASE down' = down /\ srv'.left = srv.left /\ cli'.got = cli.got
    BY <1>i, <2>1
  <2>2. CASE down' = [down EXCEPT ![Tip] = down[Tip] + 1] /\ down[Tip] < Cap /\ srv.left > 0 /\ srv'.left = srv.left - 1 /\ cli' = cli
    <3>1. Cardinality(Chunks(down')) = Cardinality(Chunks(down)) + 1
      BY <1>f, <1>t, <2>2, ChunkMore
    <3> QED
      BY <1>i, <1>n, <2>2, <3>1
  <2>3. ASSUME NEW i \in Procs, i < Tip, down[i + 1] > 0, down[i] < Cap,
               down' = [down EXCEPT ![i + 1] = down[i + 1] - 1, ![i] = down[i] + 1], cli' = cli, srv' = srv
        PROVE  srv'.left + Cardinality(Chunks(down')) + cli'.got = 1
    <3>1. i + 1 \in Procs /\ i + 1 # i
      BY <1>t, <2>3
    <3>2. Cardinality(Chunks(down')) = Cardinality(Chunks(down))
      BY <1>f, <2>3, <3>1, ChunkMoves
    <3> QED
      BY <1>i, <2>3, <3>2
  <2>4. CASE down[1] > 0 /\ down' = [down EXCEPT ![1] = down[1] - 1] /\ cli'.got = cli.got + 1 /\ srv' = srv
    <3>1. Cardinality(Chunks(down)) = Cardinality(Chunks(down')) + 1
      BY <1>f, <1>t, <2>4, ChunkLess
    <3> QED
      BY <1>i, <1>n, <2>4, <3>1
  <2> QED
    BY <1>u, <2>1, <2>2, <2>3, <2>4, DownFlows
<1>c. srv.closed => srv'.closed
  BY ServiceStep DEF OutcomeInv
\* A feeder that failed does not start again.
<1>g. feeder[0] = "failed" /\ (main # "start" \/ st[1] # "absent") => feeder'[0] = "failed"
  BY <1>0, <1>t, FeederStep DEF EarlyInv
\* The end of input stays behind the chunks.
<1>3. ASSUME ~srv'.closed, feeder'[0] # "failed", NEW i \in 1 .. Tip', eof'[i], st'[i] \in {"new", "run"}
      PROVE  cli'.left = 0 /\ \A j \in 1 .. i - 1 : up'[j] = 0
  <2>0. Tip' = Tip /\ i \in 1 .. Tip /\ i \in Procs /\ i <= Tip
    <3>1. route' = route \/ \A k \in Procs : st'[k] = "absent"
      BY <1>u
    <3>2. i \in Procs
      <4>1. RouteInv' /\ MaxHops \in Nat /\ route' \in Seq(Hosts)
        BY RouteStep, Limits DEF TypeOK
      <4> QED
        BY <4>1 DEF RouteInv, Tip, Procs
    <3>3. route' = route
      BY <1>3, <3>1, <3>2
    <3> QED
      BY <1>t, <3>2, <3>3 DEF Tip
  <2>1. CASE eof[i] /\ st[i] \in {"new", "run"}
    <3>0. feeder[0] # "failed"
      BY <1>0, <1>3, <1>g, <1>t, <2>0, <2>1 DEF EarlyInv
    <3>1. cli.left = 0 /\ \A j \in 1 .. i - 1 : up[j] = 0
      BY <1>3, <1>c, <1>i, <2>0, <2>1, <3>0
    <3>2. cli'.left = 0
      BY <1>u, <3>1, UpFlows
    <3>3. ASSUME NEW j \in 1 .. i - 1 PROVE up'[j] = 0
      <4>0. j \in Procs /\ j < i /\ j < Tip /\ up[j] = 0 /\ j \in Nat
        BY <1>t, <2>0, <3>1
      <4>1. CASE up' = up
        BY <4>0, <4>1
      <4>2. ASSUME NEW k \in Procs, up[k] > 0, up' = [up EXCEPT ![k] = up[k] - 1, ![k + 1] = up[k + 1] + 1] PROVE up'[j] = 0
        <5>1. k # j
          BY <4>0, <4>2
        <5>2. k + 1 # j
          <6> SUFFICES ASSUME k + 1 = j PROVE FALSE
            OBVIOUS
          <6>1. k \in 1 .. i - 1
            BY <1>t, <4>0
          <6> QED
            BY <3>1, <4>2, <6>1
        <5> QED
          BY <1>f, <4>0, <4>2, <5>1, <5>2
      <4>3. CASE up' = [up EXCEPT ![Tip] = up[Tip] - 1]
        BY <1>f, <4>0, <4>3
      <4>4. CASE up' = [up EXCEPT ![1] = up[1] + 1] /\ cli.left > 0
        BY <3>1, <4>4
      <4> QED
        BY <1>u, <4>1, <4>2, <4>3, <4>4, UpFlows
    <3> QED
      BY <3>2, <3>3
  <2>2. CASE i = 1 /\ up' = up /\ cli'.left = cli.left /\ cli.left = 0
    BY <2>2
  <2>3. ASSUME NEW k \in Procs, i = k + 1, up' = up, cli' = cli, up[k] = 0, eof[k], st[k] = "run"
        PROVE  cli'.left = 0 /\ \A j \in 1 .. i - 1 : up'[j] = 0
    <3>1. k \in 1 .. Tip
      BY <1>t, <2>0, <2>3
    <3>0. feeder[0] # "failed"
      BY <1>0, <1>3, <1>g, <1>t, <2>3 DEF EarlyInv
    <3>2. cli.left = 0 /\ \A j \in 1 .. k - 1 : up[j] = 0
      BY <1>3, <1>c, <1>i, <2>3, <3>0, <3>1
    <3>3. \A j \in 1 .. i - 1 : j = k \/ j \in 1 .. k - 1
      BY <1>t, <2>3
    <3> QED
      BY <2>3, <3>2, <3>3
  <2> QED
    BY <1>3, <1>i, <1>u, <2>0, <2>1, <2>2, <2>3, EofOrigin
\* The service hears of it after all chunks.
<1>4. srv'.eof => srv'.got = size' \/ srv'.closed \/ feeder'[0] = "failed"
  <2> SUFFICES ASSUME srv'.eof, ~srv'.closed, feeder'[0] # "failed" PROVE srv'.got = size'
    OBVIOUS
  <2>0. ~srv.closed
    BY <1>c
  <2>1. CASE srv.eof
    <3>0. feeder[0] # "failed"
      BY <1>g, <1>i, <2>1
    <3>1. srv.got = size
      BY <1>i, <2>0, <2>1, <3>0
    <3>2. srv'.got = srv.got \/ srv'.got = srv.got + 1
      BY <1>u, UpFlows
    <3>3. srv'.got # size + 1
      BY <1>1, <1>n, <1>s
    <3> QED
      BY <1>s, <3>1, <3>2, <3>3
  <2>2. CASE ~srv.eof
    <3>1. Upstream \/ DownstreamEnds
      BY <1>e, <2>2
    <3>2. CASE DownstreamEnds
      BY <2>0, <3>2 DEF DownstreamEnds
    <3>3. CASE Upstream
      <4>1. up[Tip] = 0 /\ eof[Tip] /\ st[Tip] = "run" /\ srv'.got = srv.got
        BY <1>0, <2>2, <3>3 DEF Upstream, Ends
      <4>0. feeder[0] # "failed"
        BY <1>0, <1>g, <1>t, <4>1 DEF EarlyInv
      <4>2. cli.left = 0 /\ \A j \in 1 .. Tip - 1 : up[j] = 0
        BY <1>i, <1>t, <2>0, <4>0, <4>1
      <4>3. \A j \in Procs : up[j] = 0
        <5>1. \A j \in Procs : j > Tip => up[j] = 0
          BY DEF ChainInv, LegInv
        <5>2. \A j \in Procs : j > Tip \/ j = Tip \/ j \in 1 .. Tip - 1
          BY <1>t
        <5> QED
          BY <4>1, <4>2, <5>1, <5>2
      <4>4. Cardinality(Chunks(up)) = 0
        BY <4>3, ChunkNone
      <4> QED
        BY <1>i, <1>n, <1>s, <4>1, <4>2, <4>4
    <3> QED
      BY <3>1, <3>2, <3>3
  <2> QED
    BY <2>1, <2>2
<1>5. result' = "ok" => down'[1] = 0
  <2> SUFFICES ASSUME result' = "ok" PROVE down'[1] = 0
    OBVIOUS
  <2>w. job.wanted # Local
    BY <1>0, <1>u, JobFacts, ExecHopAssumption DEF MainOK
  <2>1. CASE result = "ok"
    <3>1. Gone(1) /\ down[1] = 0
      BY <1>i, <2>1, <2>w DEF OutcomeInv, Good
    <3> QED
      BY <1>t, <3>1, Fates
  <2>2. CASE result # "ok"
    BY <2>2, <2>w, Succeeds DEF RenamePart, Finish, linkVars
  <2> QED
    BY <2>1, <2>2
\* The client's feeder is there as long as the client, and done only after its last chunk.
<1>6. ASSUME main' = "await" PROVE feeder'[0] # "none" /\ (feeder'[0] = "done" => cli'.left = 0)
  <2>1. CASE Start
    BY <1>0, <2>1 DEF Start, ProcOK
  <2>2. CASE SendEof
    BY <1>0, <1>u, <2>2 DEF SendEof, Ends, ProcOK
  <2>3. CASE ~Start /\ ~SendEof
    <3>1. main = "await" /\ feeder'[0] \in {feeder[0], "failed"}
      BY <1>6, <2>3, FeederStep, OftenSteady DEF Steady, Resolve, Stop, Connect, mainVars
    <3>2. feeder[0] = "done" => cli'.left = 0
      BY <1>i, <1>n, <1>u, <3>1, UpFlows
    <3> QED
      BY <1>i, <3>1, <3>2
  <2> QED
    BY <2>1, <2>2, <2>3
<1>7. srv'.eof => st'[1] # "absent"
  <2>1. srv'.eof => st[1] # "absent"
    <3>1. Upstream \/ DownstreamEnds => st[1] # "absent"
      BY <1>0, <1>t DEF Upstream, DownstreamEnds, EarlyInv
    <3> QED
      BY <1>e, <1>i, <3>1
  <2>2. CASE Resolve
    BY <1>u, <2>1, <2>2 DEF Resolve, Stop, chainVars, procVars, tcpVars
  <2>3. CASE Start
    BY <1>0, <1>t, <2>3 DEF Start, ProcOK
  <2>4. ASSUME NEW k \in Procs, Connect(k) PROVE st'[1] # "absent"
    <3>1. st[1] # "absent"
      BY <1>0, <2>4 DEF Connect, EarlyInv
    <3>2. st'[1] \in {st[1], "run", "new"}
      BY <1>0, <1>t, <2>4 DEF Connect, ProcOK
    <3> QED
      BY <3>1, <3>2
  <2>5. CASE Steady
    BY <1>t, <2>1, <2>5 DEF Steady
  <2> QED
    BY <2>2, <2>3, <2>4, <2>5, <2>1, OftenSteady
<1> QED
  BY <1>1, <1>2, <1>3, <1>4, <1>5, <1>6, <1>7

\* Unless a connection breaks, its TCP client's included, a service meets the end of input
\* only after all its client sent, or after it closed its own side, and a client told that
\* its connection ended well has all the service sent: for every length of the chain and
\* every interleaving of the chunks of both directions in the helpers, whose ends of input
\* never overtake them.
THEOREM EndOfStreamAlwaysMeansAll == Spec => []EndOfStreamMeansAll
<1> DEFINE Inv == EndInv /\ StreamInv
<1>1. Init => Inv
  <2> SUFFICES ASSUME Init PROVE Inv
    OBVIOUS
  <2>1. EndInv /\ TypeOK
    BY EndInit DEF EndInv, HopInv
  <2>2. (\A p \in Procs : up[p] = 0 /\ down[p] = 0 /\ st[p] = "absent") /\ 1 \in Procs /\ 1 .. Tip \subseteq Procs
    BY <2>1, TipFacts, Limits DEF Init, EndInv, HopInv, ChainInv, Procs
  <2>3. Cardinality(Chunks(up)) = 0 /\ Cardinality(Chunks(down)) = 0
    BY <2>2, ChunkNone
  <2>4. /\ Tunnel => cli.left = size /\ srv.left = 1
        /\ main # "await"
        /\ cli.got = 0 /\ srv.got = 0 /\ ~srv.eof /\ result = None /\ None # "ok" /\ size \in Nat
    BY <2>1, AbsenceAssumption DEF Init, TypeOK
  <2> QED
    BY <2>1, <2>2, <2>3, <2>4 DEF StreamInv
<1>2. Inv /\ [Next]_vars => Inv'
  <2> SUFFICES ASSUME Inv, [Next]_vars PROVE Inv'
    OBVIOUS
  <2>1. EndInv'
    BY EndNext
  <2>2. CASE Next
    BY <2>1, <2>2, StreamStep DEF EndInv, HopInv
  <2>3. CASE UNCHANGED vars
    <3>1. StreamInv'
      BY <2>3 DEF StreamInv, Chunks, Procs, Tip, Tunnel, vars, jobVars, fileVars, procVars, linkVars, tcpVars
    <3> QED
      BY <2>1, <3>1
  <2> QED
    BY <2>2, <2>3
<1>3. Inv => EndOfStreamMeansAll
  <2> SUFFICES ASSUME Inv, Tunnel
               PROVE  /\ srv.eof /\ lost = None /\ feeder[0] # "failed" => srv.got = size \/ srv.closed
                      /\ result = "ok" => cli.got = 1 /\ srv.closed
    BY DEF EndOfStreamMeansAll
  <2>0. TypeOK /\ ChainInv /\ OutcomeInv /\ MainOK
    BY TypeParts DEF EndInv, HopInv
  <2>t. Tip \in Nat \ {0} /\ \A i \in Procs : i \in Nat \ {0}
    BY <2>0, TipFacts DEF ChainInv
  <2>1. srv.eof /\ lost = None /\ feeder[0] # "failed" => srv.got = size \/ srv.closed
    BY DEF StreamInv
  <2>2. ASSUME result = "ok" PROVE cli.got = 1 /\ srv.closed
    <3>1. lost = None /\ Good(1) /\ down[1] = 0
      <4>1. job.wanted # Local
        BY <2>0, JobFacts, ExecHopAssumption DEF MainOK
      <4> QED
        BY <2>0, <2>2, <4>1 DEF OutcomeInv, StreamInv
    <3>2. \A j \in 1 + 1 .. Tip : Good(j) /\ down[j] = 0
      BY <2>0, <2>t, <3>1 DEF OutcomeInv
    <3>3. Good(Tip)
      BY <2>t, <3>1, <3>2
    <3>4. srv.closed /\ srv.left = 0
      BY <2>0, <3>3 DEF OutcomeInv
    <3>5. \A j \in Procs : down[j] = 0
      <4>1. \A j \in Procs : j > Tip => down[j] = 0
        BY <2>0 DEF ChainInv, LegInv
      <4>2. \A j \in Procs : j = 1 \/ j \in 1 + 1 .. Tip \/ j > Tip
        BY <2>t
      <4> QED
        BY <3>1, <3>2, <4>1, <4>2
    <3>6. Cardinality(Chunks(down)) = 0
      BY <3>5, ChunkNone
    <3>7. 0 + 0 + cli.got = 1 /\ cli.got \in Nat
      BY <2>0, <3>1, <3>4, <3>6 DEF StreamInv, TypeOK, Ends
    <3> QED
      BY <3>4, <3>7
  <2> QED
    BY <2>1, <2>2
<1> QED
  BY <1>1, <1>2, <1>3, PTL DEF Spec
=============================================================================
