---------------------------- MODULE WatchProofs ----------------------------
(***************************************************************************)
(* Machine-checked proofs about Watch, for every number of hosts, every    *)
(* way to reach them, every set of snapshots, all options and any number   *)
(* of ticks, whatever the environment does.                                *)
(***************************************************************************)
EXTENDS Watch, TLAPS

\* What the record of a target says of its past: nothing before the first attempt, the
\* last snapshot (which is the last event's) while it is online, OFFLINE otherwise.
RecordInv(h) ==
    /\ ~attempted[h] => said[h] = None /\ ~online[h] /\ last[h] = None
    /\ attempted[h] /\ online[h] => last[h] \in Snapshots /\ said[h] = last[h]
    /\ attempted[h] /\ ~online[h] => said[h] = Offline

\* A finished task has an answer; once it is joined the record agrees with it.
AnswerInv(h) ==
    /\ stage[h] = "finished" => answer[h] \in Snapshots \cup {Offline}
    /\ main = "join" /\ stage[h] = "idle" =>
           (answer[h] \in Good <=> online[h] /\ last[h] \in Good)

\* Between the ticks the exit code is that of the last one.
CodeInv ==
    main \in {"select", "done"} /\ iteration > 0 =>
        (code = 0 <=> \A h \in Hosts : online[h] /\ last[h] \in Good)

WatchInv ==
    /\ TypeOK
    /\ \A h \in Hosts : RecordInv(h) /\ AnswerInv(h)
    /\ CodeInv

----------------------------------------------------------------------------
LEMMA InitInv == Init => WatchInv
<1> SUFFICES ASSUME Init PROVE WatchInv
  OBVIOUS
<1>1. TypeOK
  BY DEF Init, TypeOK
<1>2. (\A h \in Hosts : RecordInv(h) /\ AnswerInv(h)) /\ CodeInv
  BY DEF Init, RecordInv, AnswerInv, CodeInv
<1> QED
  BY <1>1, <1>2 DEF WatchInv

\* What the environment does touches no record, no answer and no exit code; a signal may
\* end the command.
LEMMA EnvironmentStep ==
    ASSUME WatchInv, TypeOK', main' \in {main, "killed"},
           UNCHANGED <<iteration, code, stage, answer, last, online, attempted, said>>
    PROVE  WatchInv'
  BY DEF WatchInv, RecordInv, AnswerInv, CodeInv, TypeOK

\* A task gives its answer to nobody but the join loop.
LEMMA WorkStep ==
    ASSUME WatchInv, TypeOK', UNCHANGED <<control, last, online, attempted, said>>,
           NEW h \in Hosts, stage[h] # "idle", NEW s \in {"run", "finished"},
           stage' = [stage EXCEPT ![h] = s],
           \A i \in Hosts \ {h} : answer'[i] = answer[i],
           s = "finished" => answer'[h] \in Snapshots \cup {Offline}
    PROVE  WatchInv'
<1>1. ASSUME NEW i \in Hosts PROVE RecordInv(i)'
  BY <1>1 DEF WatchInv, RecordInv
<1>2. ASSUME NEW i \in Hosts PROVE AnswerInv(i)'
  <2>1. CASE i = h
    BY <1>2, <2>1 DEF WatchInv, AnswerInv, TypeOK
  <2>2. CASE i # h
    BY <1>2, <2>2 DEF WatchInv, AnswerInv, TypeOK, control
  <2> QED
    BY <2>1, <2>2
<1>3. CodeInv'
  BY DEF WatchInv, CodeInv, control
<1> QED
  BY <1>1, <1>2, <1>3 DEF WatchInv

\* Joining a task changes the record, and what was said, of its host alone.
LEMMA JoinStep ==
    ASSUME WatchInv, TypeOK', main = "join", UNCHANGED <<control, answer>>, NEW h \in Hosts,
           stage' = [stage EXCEPT ![h] = "idle"],
           \A i \in Hosts \ {h} :
               /\ last'[i] = last[i] /\ online'[i] = online[i]
               /\ attempted'[i] = attempted[i] /\ said'[i] = said[i],
           RecordInv(h)',
           answer[h] \in Good <=> online'[h] /\ last'[h] \in Good
    PROVE  WatchInv'
<1>1. ASSUME NEW i \in Hosts PROVE RecordInv(i)'
  BY <1>1 DEF WatchInv, RecordInv
<1>2. ASSUME NEW i \in Hosts PROVE AnswerInv(i)'
  <2>1. CASE i = h
    BY <1>2, <2>1 DEF AnswerInv, TypeOK, WatchInv
  <2>2. CASE i # h
    BY <1>2, <2>2 DEF WatchInv, AnswerInv, TypeOK, control
  <2> QED
    BY <2>1, <2>2
<1>3. CodeInv'
  BY DEF CodeInv, control
<1> QED
  BY <1>1, <1>2, <1>3 DEF WatchInv

LEMMA StepInv == WatchInv /\ [Next]_vars => WatchInv'
<1> SUFFICES ASSUME WatchInv, [Next]_vars PROVE WatchInv'
  OBVIOUS
<1>0. TypeOK
  BY DEF WatchInv
<1>1. ASSUME NEW h \in Hosts, HostDown(h) PROVE WatchInv'
  <2>1. TypeOK'
    BY <1>0, <1>1 DEF HostDown, TypeOK, control
  <2> QED
    BY <1>1, <2>1, EnvironmentStep DEF HostDown, control
<1>2. ASSUME NEW h \in Hosts, HostUp(h) PROVE WatchInv'
  <2>1. TypeOK'
    BY <1>0, <1>2 DEF HostUp, TypeOK, control, target
  <2> QED
    BY <1>2, <2>1, EnvironmentStep DEF HostUp, control, target
<1>2s. ASSUME NEW h \in Hosts, FallsSilent(h) PROVE WatchInv'
  <2>1. TypeOK'
    BY <1>0, <1>2s DEF FallsSilent, TypeOK, control, target
  <2> QED
    BY <1>2s, <2>1, EnvironmentStep DEF FallsSilent, control, target
<1>3. ASSUME NEW h \in Hosts, SessionBreaks(h) PROVE WatchInv'
  <2>1. TypeOK'
    BY <1>0, <1>3 DEF SessionBreaks, TypeOK, world, control
  <2> QED
    BY <1>3, <2>1, EnvironmentStep DEF SessionBreaks, control
<1>4. ASSUME JumpBreaks PROVE WatchInv'
  <2>1. TypeOK'
    BY <1>0, <1>4 DEF JumpBreaks, TypeOK, control
  <2> QED
    BY <1>4, <2>1, EnvironmentStep DEF JumpBreaks, control
<1>5. ASSUME CtrlC PROVE WatchInv'
  <2>1. TypeOK'
    BY <1>0, <1>5 DEF CtrlC, TypeOK, world, target
  <2> QED
    BY <1>5, <2>1, EnvironmentStep DEF CtrlC, target
<1>6. ASSUME Tick PROVE WatchInv'
  <2>1. iteration' \in Nat
    BY <1>0, <1>6 DEF Tick, Counted, TypeOK
  <2>2. TypeOK'
    BY <1>0, <1>6, <2>1 DEF Tick, TypeOK, world, target
  <2>3. \A h \in Hosts : RecordInv(h)' /\ AnswerInv(h)'
    BY <1>6 DEF Tick, WatchInv, RecordInv, AnswerInv, target
  <2>4. CodeInv'
    BY <1>6 DEF Tick, CodeInv
  <2> QED
    BY <2>2, <2>3, <2>4 DEF WatchInv
<1>7. ASSUME Wait PROVE WatchInv'
  <2>1. TypeOK'
    BY <1>0, <1>7 DEF Wait, TypeOK, world, target
  <2> QED
    BY <1>7, <2>1, EnvironmentStep DEF Wait, target
<1>8. ASSUME Shutdown PROVE WatchInv'
  <2>1. TypeOK'
    BY <1>0, <1>8 DEF Shutdown, TypeOK, world, target
  <2>2. \A h \in Hosts : RecordInv(h)' /\ AnswerInv(h)'
    BY <1>8 DEF Shutdown, WatchInv, RecordInv, AnswerInv, target
  <2>3. CodeInv'
    BY <1>8 DEF Shutdown, WatchInv, CodeInv, target
  <2> QED
    BY <2>1, <2>2, <2>3 DEF WatchInv
<1>9. ASSUME EndIteration PROVE WatchInv'
  <2>1. TypeOK'
    BY <1>0, <1>9 DEF EndIteration, IterationCode, TypeOK, world, target
  <2>2. \A h \in Hosts : RecordInv(h)' /\ AnswerInv(h)'
    BY <1>9 DEF EndIteration, WatchInv, RecordInv, AnswerInv, target
  <2>3. \A h \in Hosts : Successful(h) <=> online[h] /\ last[h] \in Good
    BY <1>9 DEF EndIteration, WatchInv, AnswerInv, Successful
  <2>4. CodeInv'
    BY <1>9, <2>3 DEF EndIteration, IterationCode, CodeInv, target
  <2> QED
    BY <2>1, <2>2, <2>4 DEF WatchInv
<1>10. ASSUME NEW h \in Hosts, Connect(h) PROVE WatchInv'
  <2>1. TypeOK'
    BY <1>0, <1>10 DEF Connect, TypeOK, world, control
  <2>2. /\ UNCHANGED <<control, last, online, attempted, said>> /\ stage[h] # "idle"
        /\ \A i \in Hosts \ {h} : answer'[i] = answer[i]
    BY <1>0, <1>10 DEF Connect, TypeOK
  <2>3. \/ stage' = [stage EXCEPT ![h] = "run"]
        \/ stage' = [stage EXCEPT ![h] = "finished"] /\ answer'[h] = Offline
    BY <1>0, <1>10 DEF Connect, TypeOK
  <2> QED
    BY <2>1, <2>2, <2>3, WorkStep
<1>11. ASSUME NEW h \in Hosts, Run(h) \/ RunFails(h) PROVE WatchInv'
  <2>1. stage[h] = "run"
    BY <1>11 DEF Run, RunFails
  <2>2. PICK s \in Snapshots \cup {Offline} : Finish(h, s)
    BY <1>11 DEF Run, RunFails
  <2>3. TypeOK'
    BY <1>0, <2>2 DEF Finish, TypeOK, world, control
  <2>4. /\ UNCHANGED <<control, last, online, attempted, said>>
        /\ \A i \in Hosts \ {h} : answer'[i] = answer[i]
        /\ stage' = [stage EXCEPT ![h] = "finished"]
        /\ answer'[h] \in Snapshots \cup {Offline}
    BY <1>0, <2>2 DEF Finish, TypeOK
  <2> QED
    BY <2>1, <2>3, <2>4, WorkStep
<1>12. ASSUME NEW h \in Hosts, JoinSnapshot(h) PROVE WatchInv'
  <2> DEFINE s == answer[h]
  <2>1. s \in Snapshots
    BY <1>12 DEF JoinSnapshot, WatchInv, AnswerInv
  <2>2. Kind(h, s) \in Kinds
    BY DEF Kind, Kinds
  <2>3. TypeOK'
    BY <1>0, <1>12, <2>1, <2>2 DEF JoinSnapshot, Emit, TypeOK, world, control
  <2>4. \A i \in Hosts \ {h} :
          /\ last'[i] = last[i] /\ online'[i] = online[i]
          /\ attempted'[i] = attempted[i] /\ said'[i] = said[i]
    BY <1>0, <1>12 DEF JoinSnapshot, Emit, TypeOK
  <2>5. online'[h] /\ attempted'[h] /\ last'[h] = s
    BY <1>0, <1>12 DEF JoinSnapshot, TypeOK
  <2>6. said'[h] = s
    <3>1. CASE Kind(h, s) # "UNCHANGED" \/ args.all
      BY <1>0, <1>12, <3>1 DEF JoinSnapshot, Emit, TypeOK
    <3>2. CASE ~(Kind(h, s) # "UNCHANGED" \/ args.all)
      <4>1. said'[h] = said[h] /\ last[h] = s /\ last[h] # None
        BY <1>12, <3>2 DEF JoinSnapshot, Kind
      <4>2. ~(attempted[h] /\ ~online[h])
        BY <3>2 DEF Kind
      <4> QED
        BY <4>1, <4>2 DEF WatchInv, RecordInv
    <3> QED
      BY <3>1, <3>2
  <2>7. RecordInv(h)'
    BY <2>1, <2>5, <2>6 DEF RecordInv
  <2>8. main = "join" /\ UNCHANGED <<control, answer>> /\ stage' = [stage EXCEPT ![h] = "idle"]
    BY <1>12 DEF JoinSnapshot
  <2> QED
    BY <2>3, <2>4, <2>5, <2>7, <2>8, JoinStep
<1>13. ASSUME NEW h \in Hosts, JoinError(h) PROVE WatchInv'
  <2>1. TypeOK'
    BY <1>0, <1>13 DEF JoinError, Emit, Kinds, TypeOK, world, control
  <2>2. \A i \in Hosts \ {h} :
          /\ last'[i] = last[i] /\ online'[i] = online[i]
          /\ attempted'[i] = attempted[i] /\ said'[i] = said[i]
    BY <1>0, <1>13 DEF JoinError, Emit, TypeOK
  <2>3. ~online'[h] /\ attempted'[h]
    BY <1>0, <1>13 DEF JoinError, TypeOK
  <2>4. said'[h] = Offline
    BY <1>0, <1>13 DEF JoinError, Emit, TypeOK, WatchInv, RecordInv
  <2>5. RecordInv(h)'
    BY <2>3, <2>4 DEF RecordInv
  <2>6. answer[h] \notin Good
    BY <1>13, WatchAssumption DEF JoinError
  <2>7. main = "join" /\ UNCHANGED <<control, answer>> /\ stage' = [stage EXCEPT ![h] = "idle"]
    BY <1>13 DEF JoinError
  <2> QED
    BY <2>1, <2>2, <2>3, <2>5, <2>6, <2>7, JoinStep
<1>u. CASE UNCHANGED vars
  <2>1. TypeOK'
    BY <1>0, <1>u DEF vars, TypeOK, world, control, target
  <2> QED
    BY <1>u, <2>1, EnvironmentStep DEF vars, control, target
<1> QED
  BY <1>1, <1>2, <1>2s, <1>3, <1>4, <1>5, <1>6, <1>7, <1>8, <1>9, <1>10, <1>11, <1>12, <1>13, <1>u
  DEF Next, Environment, Work

LEMMA WatchInvariant == Spec => []WatchInv
<1> QED
  BY InitInv, StepInv, PTL DEF Spec

----------------------------------------------------------------------------
(* Theorems.                                                               *)

\* Every variable keeps its type: a finished target is either offline or has a snapshot,
\* and an event says one of the six things an event can say.
THEOREM WatchTypeCorrect == Spec => []TypeOK
<1>1. WatchInv => TypeOK
  BY DEF WatchInv
<1> QED
  BY <1>1, WatchInvariant, PTL

\* A reader of the events knows the last result of every target that has been tried:
\* what is not printed without --all is what was said already.
THEOREM ReaderAlwaysKnows == Spec => []ReaderKnows
<1>1. WatchInv => ReaderKnows
  BY DEF WatchInv, RecordInv, ReaderKnows
<1> QED
  BY <1>1, WatchInvariant, PTL

\* The exit code is that of the last complete iteration, however the watch ends.
THEOREM ExitCodeAlwaysOfLastSnapshot == Spec => []ExitCodeIsOfLastSnapshot
<1>1. WatchInv => ExitCodeIsOfLastSnapshot
  BY DEF WatchInv, CodeInv, ExitCodeIsOfLastSnapshot
<1> QED
  BY <1>1, WatchInvariant, PTL

\* An event is printed for a host by joining its task, and says one of these things.
LEMMA SnapshotIsNews ==
    ASSUME WatchInv, NEW h \in Hosts, JoinSnapshot(h), ~args.all, event'[h] # event[h]
    PROVE  IsNews(h, event'[h])
<1> DEFINE s == answer[h]
<1>1. s \in Snapshots /\ RecordInv(h)
  BY DEF WatchInv, AnswerInv, JoinSnapshot
<1>2. Kind(h, s) # "UNCHANGED"
  BY DEF JoinSnapshot
<1>3. event'[h] = [kind |-> Kind(h, s), of |-> s]
  BY <1>2 DEF JoinSnapshot, Emit, WatchInv, TypeOK
<1>4. CASE attempted[h] /\ ~online[h]
  <2>1. Kind(h, s) = "RECOVERED" /\ said[h] = Offline
    BY <1>1, <1>4 DEF Kind, RecordInv
  <2> QED
    BY <1>3, <2>1 DEF IsNews
<1>5. CASE ~attempted[h]
  <2>1. Kind(h, s) = "INITIAL" /\ said[h] = None
    BY <1>1, <1>5 DEF Kind, RecordInv
  <2> QED
    BY <1>3, <2>1 DEF IsNews
<1>6. CASE attempted[h] /\ online[h]
  <2>1. last[h] \in Snapshots /\ last[h] # None /\ said[h] = last[h] /\ last[h] # s
    BY <1>1, <1>2, <1>6, WatchAssumption DEF Kind, RecordInv
  <2>2. CASE s \in Clear /\ last[h] \notin Clear
    <3>1. Kind(h, s) = "CLEARED"
      BY <1>6, <2>1, <2>2 DEF Kind
    <3> QED
      BY <1>3, <2>1, <2>2, <3>1 DEF IsNews
  <2>3. CASE ~(s \in Clear /\ last[h] \notin Clear)
    <3>1. Kind(h, s) = "CHANGED"
      BY <1>6, <2>1, <2>3 DEF Kind
    <3> QED
      BY <1>3, <2>1, <3>1 DEF IsNews
  <2> QED
    BY <2>2, <2>3
<1> QED
  BY <1>1, <1>4, <1>5, <1>6 DEF WatchInv, TypeOK

LEMMA OfflineIsNews ==
    ASSUME WatchInv, NEW h \in Hosts, JoinError(h), ~args.all, event'[h] # event[h]
    PROVE  IsNews(h, event'[h])
<1>1. online[h] \/ ~attempted[h]
  BY DEF JoinError
<1>2. event'[h] = [kind |-> "OFFLINE", of |-> Offline]
  BY <1>1 DEF JoinError, Emit, WatchInv, TypeOK
<1>3. said[h] # Offline
  BY <1>1, WatchAssumption DEF WatchInv, RecordInv
<1> QED
  BY <1>2, <1>3 DEF IsNews

\* Without --all every event is news to whoever has read the previous ones.
THEOREM EventsAreAlwaysNews == Spec => EventsAreNews
<1> DEFINE News(h) == ~args.all /\ event[h] = None /\ event'[h] # None => IsNews(h, event'[h])
<1>1. ASSUME WatchInv, [Next]_vars PROVE [\A h \in Hosts : News(h)]_vars
  <2> SUFFICES ASSUME Next, NEW h \in Hosts, ~args.all, event[h] = None, event'[h] # None
               PROVE  IsNews(h, event'[h])
    BY <1>1
  <2>1. \E i \in Hosts : JoinSnapshot(i) \/ JoinError(i)
    <3>1. ~Environment
      BY DEF Environment, HostDown, HostUp, FallsSilent, SessionBreaks, JumpBreaks, CtrlC
    <3>2. ~(Tick \/ Wait \/ Shutdown \/ EndIteration)
      BY DEF Tick, Wait, Shutdown, EndIteration
    <3>3. \A i \in Hosts : ~(Connect(i) \/ Run(i) \/ RunFails(i))
      BY DEF Connect, Run, RunFails, Finish
    <3> QED
      BY <3>1, <3>2, <3>3 DEF Next, Work
  <2>2. JoinSnapshot(h) \/ JoinError(h)
    BY <1>1, <2>1 DEF JoinSnapshot, JoinError, Emit, WatchInv, TypeOK
  <2> QED
    BY <1>1, <2>2, SnapshotIsNews, OfflineIsNews
<1> QED
  BY <1>1, WatchInvariant, PTL DEF Spec, EventsAreNews
=============================================================================
