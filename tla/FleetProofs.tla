---------------------------- MODULE FleetProofs ----------------------------
(***************************************************************************)
(* Machine-checked proofs about Fleet, for every number of hosts, permits  *)
(* and jump hosts, every routing and every kind of machine.                *)
(***************************************************************************)
EXTENDS Fleet, FiniteSetTheorems, TLAPS

\* What can be said of the shared jump connections: they are what their host made
\* them, and all are settled once tasks exist.
JumpInv ==
    /\ \A j \in Jumps : /\ jump[j] = "up" => jhealth[j] = "good"
                        /\ jump[j] = "down" => jhealth[j] # "good"
    /\ main # "jumps" => \A j \in JumpAliases : jump[j] \in {"up", "down"}

\* A task carries what its host, and nobody else, made of it.
TaskInv ==
    /\ main = "jumps" => \A h \in Hosts : task[h] = "unborn"
    /\ \A h \in Hosts :
        /\ task[h] = "running" => Reachable(h) /\ health[h] \notin {"silent", "refuses"}
        /\ task[h] = "finished" => (result[h] = "ok" <=> ~Doomed(h))

\* The hosts that have been joined, by what they had to do.
Joined(bad) == {h \in Hosts : task[h] = "joined" /\ (Doomed(h) <=> bad)}

\* The counts are those of the joined hosts, until a panic ends the command.
CountInv ==
    /\ exit = "running" <=> main # "done"
    /\ exit # "error" => /\ succeeded = Cardinality(Joined(FALSE))
                         /\ failed = Cardinality(Joined(TRUE))
    /\ exit \in {"zero", "one"} =>
        /\ \A h \in Hosts : task[h] = "joined"
        /\ exit = "zero" <=> failed = 0

Holders == {h \in Hosts : Active(h)}

\* Every permit is free or held by one task: whichever way a task ends (success,
\* failure, panic, abort), its permit comes back.
PermitsAccounted == permits + Cardinality(Holders) = Concurrency

\* The types of the variables whose range does not follow from the counts.
Shape ==
    /\ jumpOf \in Routings
    /\ health \in [Hosts -> HostHealth]
    /\ jhealth \in [Jumps -> JumpHealth]
    /\ main \in {"jumps", "join", "done"}
    /\ jump \in [Jumps -> {"none", "dialling", "up", "down"}]
    /\ task \in [Hosts -> Tasks]
    /\ result \in [Hosts -> {None, "ok", "status", "error"}]
    /\ permits \in Nat
    /\ succeeded \in 0..Cardinality(Hosts)
    /\ failed \in 0..Cardinality(Hosts)
    /\ exit \in {"running", "zero", "one", "error"}

FleetInv == Shape /\ JumpInv /\ TaskInv /\ CountInv /\ PermitsAccounted

----------------------------------------------------------------------------
(* Counting.                                                               *)

LEMMA Subsets ==
    \A P \in SUBSET Hosts :
        IsFiniteSet(P) /\ Cardinality(P) \in Nat /\ Cardinality(P) <= Cardinality(Hosts)
  BY FleetAssumption, FS_Subset, FS_CardinalityType

\* Joining one more host adds one to the count it belongs to.
LEMMA OneMoreJoined ==
    ASSUME NEW h \in Hosts, task \in [Hosts -> Tasks], task[h] = "finished",
           task' = [task EXCEPT ![h] = "joined"], UNCHANGED world,
           NEW bad \in BOOLEAN
    PROVE  Cardinality(Joined(bad))' =
               IF Doomed(h) <=> bad THEN Cardinality(Joined(bad)) + 1 ELSE Cardinality(Joined(bad))
<1>1. \A i \in Hosts : Doomed(i)' <=> Doomed(i)
  BY DEF Doomed, world
<1>2. h \notin Joined(bad) /\ IsFiniteSet(Joined(bad))
  BY Subsets DEF Joined
<1>3. CASE Doomed(h) <=> bad
  <2>1. Joined(bad)' = Joined(bad) \cup {h}
    BY <1>1, <1>3 DEF Joined
  <2> QED
    BY <1>2, <1>3, <2>1, FS_AddElement
<1>4. CASE ~(Doomed(h) <=> bad)
  <2>1. Joined(bad)' = Joined(bad)
    BY <1>1, <1>4 DEF Joined
  <2> QED
    BY <1>4, <2>1
<1> QED
  BY <1>3, <1>4

\* A task that takes or gives back a permit moves the two sides of the account.
LEMMA OneMoreHolder ==
    ASSUME NEW h \in Hosts, task \in [Hosts -> Tasks], ~Active(h),
           NEW t \in {"connecting", "running"}, task' = [task EXCEPT ![h] = t]
    PROVE  Cardinality(Holders)' = Cardinality(Holders) + 1
<1>1. Holders' = Holders \cup {h} /\ h \notin Holders
  BY DEF Holders, Active
<1> QED
  BY <1>1, Subsets, FS_AddElement DEF Holders

LEMMA OneHolderLess ==
    ASSUME NEW h \in Hosts, task \in [Hosts -> Tasks], Active(h),
           NEW t, t \notin {"connecting", "running"}, task' = [task EXCEPT ![h] = t]
    PROVE  Cardinality(Holders)' = Cardinality(Holders) - 1
<1>1. Holders' = Holders \ {h} /\ h \in Holders
  BY DEF Holders, Active
<1> QED
  BY <1>1, Subsets, FS_RemoveElement DEF Holders

LEMMA SameHolders ==
    ASSUME \A h \in Hosts : Active(h)' <=> Active(h)
    PROVE  Holders' = Holders
  BY DEF Holders

----------------------------------------------------------------------------
(* The initial state.                                                      *)

LEMMA InitInv == Init => FleetInv
<1> SUFFICES ASSUME Init PROVE FleetInv
  OBVIOUS
<1>1. Cardinality(Hosts) \in Nat /\ Cardinality({}) = 0
  BY FleetAssumption, FS_CardinalityType, FS_EmptySet
<1>2. Holders = {} /\ Joined(TRUE) = {} /\ Joined(FALSE) = {}
  BY DEF Init, Holders, Active, Joined
<1>3. Shape
  BY <1>1, FleetAssumption DEF Init, Shape, Tasks
<1>4. JumpInv /\ TaskInv
  BY DEF Init, JumpInv, TaskInv
<1>5. CountInv /\ PermitsAccounted
  <2>1. CountInv
    BY <1>1, <1>2 DEF Init, CountInv
  <2>2. PermitsAccounted
    BY <1>1, <1>2, FleetAssumption DEF Init, PermitsAccounted
  <2> QED
    BY <2>1, <2>2
<1> QED
  BY <1>3, <1>4, <1>5 DEF FleetInv

----------------------------------------------------------------------------
(* Steps.                                                                  *)

\* What a step of a task keeps that neither joins it nor touches the main task.
LEMMA TaskStep ==
    ASSUME FleetInv, NEW h \in Hosts, NEW t \in {"connecting", "running", "finished", "panicked"},
           task[h] \in {"waiting", "connecting", "running"},
           task' = [task EXCEPT ![h] = t],
           UNCHANGED <<world, main, jump, tally>>,
           result' \in [Hosts -> {None, "ok", "status", "error"}],
           \A i \in Hosts \ {h} : result'[i] = result[i],
           t = "running" => Reachable(h) /\ health[h] \notin {"silent", "refuses"},
           t = "finished" => (result'[h] = "ok" <=> ~Doomed(h)),
           permits' \in Nat, PermitsAccounted'
    PROVE  FleetInv'
<1> USE DEF FleetInv
<1>1. \A i \in Hosts : (Doomed(i)' <=> Doomed(i)) /\ (Reachable(i)' <=> Reachable(i))
  BY DEF Doomed, Reachable, world
<1>2. Shape'
  BY DEF Shape, world, tally, Tasks
<1>3. JumpInv'
  BY DEF JumpInv, JumpAliases, world
<1>4. TaskInv'
  <2>1. main # "jumps"
    BY DEF TaskInv, Shape
  <2> QED
    BY <1>1, <2>1 DEF TaskInv, Shape, world
<1>5. CountInv'
  <2>1. \A bad \in BOOLEAN : Joined(bad)' = Joined(bad)
    BY <1>1 DEF Joined, Shape
  <2>2. exit \notin {"zero", "one"}
    BY DEF CountInv, Shape
  <2> QED
    BY <2>1, <2>2 DEF CountInv, tally
<1> QED
  BY <1>2, <1>3, <1>4, <1>5

\* The main task only changes the state of jump hosts.
LEMMA JumpStep ==
    ASSUME FleetInv, UNCHANGED <<world, main, task, result, permits, tally>>,
           Shape', JumpInv',
           \A h \in Hosts : task[h] = "running" => Reachable(h)'
    PROVE  FleetInv'
<1> USE DEF FleetInv
<1>1. \A i \in Hosts : Doomed(i)' <=> Doomed(i)
  BY DEF Doomed, world
<1>2. TaskInv'
  BY <1>1 DEF TaskInv, world
<1>3. \A bad \in BOOLEAN : Joined(bad)' = Joined(bad)
  BY <1>1 DEF Joined
<1>4. CountInv'
  BY <1>3 DEF CountInv, tally
<1>5. PermitsAccounted'
  BY DEF PermitsAccounted, Holders, Active
<1> QED
  BY <1>2, <1>4, <1>5

LEMMA StepInv == FleetInv /\ [Next]_vars => FleetInv'
<1> SUFFICES ASSUME FleetInv, [Next]_vars PROVE FleetInv'
  OBVIOUS
<1> USE DEF FleetInv
<1>1. ASSUME NEW j \in Jumps, DialJump(j) PROVE FleetInv'
  <2>1. main = "jumps" /\ \A h \in Hosts : task[h] = "unborn"
    BY <1>1 DEF DialJump, TaskInv
  <2>2. Shape'
    BY <1>1 DEF DialJump, Shape, world, tally
  <2>3. JumpInv'
    BY <1>1 DEF DialJump, JumpInv, JumpAliases, Shape, world
  <2> QED
    BY <1>1, <2>1, <2>2, <2>3, JumpStep DEF DialJump
<1>2. ASSUME NEW j \in Jumps, JumpAnswers(j) PROVE FleetInv'
  <2>1. Shape'
    BY <1>2 DEF JumpAnswers, Shape, world, tally
  <2>2. JumpInv'
    BY <1>2 DEF JumpAnswers, JumpInv, JumpAliases, Shape, world
  <2>3. \A h \in Hosts : task[h] = "running" => Reachable(h)'
    BY <1>2 DEF JumpAnswers, TaskInv, Reachable, Shape, world
  <2> QED
    BY <1>2, <2>1, <2>2, <2>3, JumpStep DEF JumpAnswers
<1>3. ASSUME SpawnAll PROVE FleetInv'
  <2>1. \A h \in Hosts : task[h] = "unborn" /\ task'[h] = "waiting"
    BY <1>3 DEF SpawnAll, TaskInv
  <2>2. Shape' /\ JumpInv'
    BY <1>3 DEF SpawnAll, Shape, JumpInv, JumpAliases, world, tally, Tasks
  <2>3. TaskInv'
    BY <1>3, <2>1 DEF SpawnAll, TaskInv
  <2>4. \A bad \in BOOLEAN : Joined(bad)' = Joined(bad)
    BY <2>1 DEF Joined
  <2>5. CountInv'
    BY <1>3, <2>4 DEF SpawnAll, CountInv, Shape, tally
  <2>6. PermitsAccounted'
    BY <1>3, <2>1, SameHolders DEF SpawnAll, PermitsAccounted, Active
  <2> QED
    BY <2>2, <2>3, <2>5, <2>6
<1>4. ASSUME NEW h \in Hosts, Acquire(h) PROVE FleetInv'
  <2>1. Cardinality(Holders)' = Cardinality(Holders) + 1
    BY <1>4, OneMoreHolder DEF Acquire, Active, Shape
  <2>2. permits' \in Nat /\ PermitsAccounted'
    BY <1>4, <2>1, Subsets, FleetAssumption DEF Acquire, PermitsAccounted, Shape, Holders
  <2> QED
    BY <1>4, <2>2, TaskStep DEF Acquire, Shape
<1>p. ASSUME NEW h \in Hosts, Active(h), NEW t, t \notin {"connecting", "running"},
             task' = [task EXCEPT ![h] = t], permits' = permits + 1
      PROVE  permits' \in Nat /\ PermitsAccounted'
  <2>1. Cardinality(Holders)' = Cardinality(Holders) - 1
    BY <1>p, OneHolderLess DEF Shape
  <2> QED
    BY <1>p, <2>1, Subsets, FleetAssumption DEF PermitsAccounted, Shape, Holders
<1>5. ASSUME NEW h \in Hosts, JumpFailed(h) PROVE FleetInv'
  <2>1. Doomed(h)
    BY <1>5, FleetAssumption DEF JumpFailed, JumpInv, Doomed, Shape
  <2>2. permits' \in Nat /\ PermitsAccounted'
    BY <1>5, <1>p DEF JumpFailed, Finish, Active
  <2> QED
    BY <1>5, <2>1, <2>2, TaskStep DEF JumpFailed, Finish, Shape
<1>6. ASSUME NEW h \in Hosts, Connect(h) PROVE FleetInv'
  <2>1. CASE health[h] = "refuses"
    <3>1. permits' \in Nat /\ PermitsAccounted'
      BY <1>6, <2>1, <1>p DEF Connect, Finish, Active
    <3> QED
      BY <1>6, <2>1, <3>1, TaskStep DEF Connect, Finish, Shape, Doomed
  <2>2. CASE health[h] # "refuses"
    <3>1. \A i \in Hosts : Active(i)' <=> Active(i)
      BY <1>6, <2>2 DEF Connect, Active, Shape
    <3>2. permits' \in Nat /\ PermitsAccounted'
      BY <1>6, <2>2, <3>1, SameHolders DEF Connect, PermitsAccounted, Shape
    <3> QED
      BY <1>6, <2>2, <3>2, TaskStep DEF Connect, Shape
  <2> QED
    BY <2>1, <2>2
<1>7. ASSUME NEW h \in Hosts, ToolEnds(h) PROVE FleetInv'
  <2>1. Doomed(h) <=> health[h] # "good"
    BY <1>7, FleetAssumption DEF ToolEnds, TaskInv, JumpInv, Reachable, Doomed, Shape
  <2>2. permits' \in Nat /\ PermitsAccounted'
    BY <1>7, <1>p DEF ToolEnds, Finish, Active
  <2> QED
    BY <1>7, <2>1, <2>2, TaskStep DEF ToolEnds, Finish, Shape
<1>8. ASSUME NEW h \in Hosts, Panic(h) PROVE FleetInv'
  <2>1. permits' \in Nat /\ PermitsAccounted'
    BY <1>8, <1>p DEF Panic, Active
  <2> QED
    BY <1>8, <2>1, TaskStep DEF Panic, Shape
<1>9. ASSUME NEW h \in Hosts, Join(h) PROVE FleetInv'
  <2>1. \A i \in Hosts : (Doomed(i)' <=> Doomed(i)) /\ (Reachable(i)' <=> Reachable(i))
    BY <1>9 DEF Join, Doomed, Reachable, world
  <2>2. /\ Cardinality(Joined(TRUE))' =
               IF Doomed(h) THEN Cardinality(Joined(TRUE)) + 1 ELSE Cardinality(Joined(TRUE))
        /\ Cardinality(Joined(FALSE))' =
               IF Doomed(h) THEN Cardinality(Joined(FALSE)) ELSE Cardinality(Joined(FALSE)) + 1
    BY <1>9, OneMoreJoined DEF Join, Shape
  <2>3. exit = "running" /\ (result[h] = "ok" <=> ~Doomed(h))
    BY <1>9 DEF Join, CountInv, TaskInv
  <2>4. CountInv'
    BY <1>9, <2>2, <2>3 DEF Join, CountInv
  <2>5. Shape'
    <3>1. /\ Cardinality(Joined(TRUE))' <= Cardinality(Hosts)
          /\ Cardinality(Joined(FALSE))' <= Cardinality(Hosts)
      <4>1. Joined(TRUE)' \in SUBSET Hosts /\ Joined(FALSE)' \in SUBSET Hosts
        BY DEF Joined
      <4> QED
        BY <4>1, Subsets
    <3>2. succeeded' \in 0..Cardinality(Hosts) /\ failed' \in 0..Cardinality(Hosts)
      <4>1. exit' # "error"
        BY <1>9, <2>3 DEF Join
      <4>2. succeeded' = Cardinality(Joined(FALSE))' /\ failed' = Cardinality(Joined(TRUE))'
        BY <2>4, <4>1 DEF CountInv
      <4>3. Cardinality(Hosts) \in Nat /\ succeeded \in Nat /\ failed \in Nat
        BY Subsets, FleetAssumption, FS_CardinalityType DEF Shape
      <4>4. succeeded' \in Nat /\ failed' \in Nat
        BY <1>9, <4>3 DEF Join
      <4>5. succeeded' <= Cardinality(Hosts) /\ failed' <= Cardinality(Hosts)
        BY Zenon, <3>1, <4>2
      <4> QED
        BY <4>3, <4>4, <4>5
    <3> QED
      BY <1>9, <3>2 DEF Join, Shape, world, Tasks
  <2>6. JumpInv'
    BY <1>9 DEF Join, JumpInv, JumpAliases, world
  <2>7. TaskInv'
    BY <1>9, <2>1 DEF Join, TaskInv, Shape, world
  <2>8. PermitsAccounted'
    <3>1. \A i \in Hosts : Active(i)' <=> Active(i)
      BY <1>9 DEF Join, Active, Shape
    <3> QED
      BY <1>9, <3>1, SameHolders DEF Join, PermitsAccounted
  <2> QED
    BY <2>4, <2>5, <2>6, <2>7, <2>8
<1>10. ASSUME NEW h \in Hosts, JoinPanicked(h) PROVE FleetInv'
  <2>1. \A i \in Hosts : (Doomed(i)' <=> Doomed(i)) /\ (Reachable(i)' <=> Reachable(i))
    BY <1>10 DEF JoinPanicked, Doomed, Reachable, world
  <2>2. Holders' = {}
    BY <1>10 DEF JoinPanicked, Holders, Active
  <2>3. permits' = Concurrency /\ PermitsAccounted'
    <3>1. permits' = permits + Cardinality(Holders)
      BY <1>10 DEF JoinPanicked, Holders
    <3>2. Cardinality({}) = 0
      BY FS_EmptySet
    <3> QED
      BY <2>2, <3>1, <3>2, FleetAssumption DEF PermitsAccounted
  <2>4. Shape'
    BY <1>10, <2>3, FleetAssumption DEF JoinPanicked, Shape, world, Tasks
  <2>5. JumpInv'
    BY <1>10 DEF JoinPanicked, JumpInv, JumpAliases, world
  <2>6. TaskInv'
    BY <1>10, <2>1 DEF JoinPanicked, TaskInv, Shape, Active
  <2>7. CountInv'
    BY <1>10 DEF JoinPanicked, CountInv
  <2> QED
    BY <2>3, <2>4, <2>5, <2>6, <2>7
<1>11. ASSUME Summary PROVE FleetInv'
  <2>1. \A i \in Hosts : (Doomed(i)' <=> Doomed(i)) /\ (Reachable(i)' <=> Reachable(i))
    BY <1>11 DEF Summary, Doomed, Reachable, world
  <2>2. Shape' /\ JumpInv' /\ TaskInv'
    BY <1>11, <2>1 DEF Summary, Shape, JumpInv, TaskInv, JumpAliases, world
  <2>3. \A bad \in BOOLEAN : Joined(bad)' = Joined(bad)
    BY <1>11, <2>1 DEF Summary, Joined
  <2>4. CountInv'
    BY <1>11, <2>3 DEF Summary, CountInv
  <2>5. PermitsAccounted'
    BY <1>11 DEF Summary, PermitsAccounted, Holders, Active
  <2> QED
    BY <2>2, <2>4, <2>5
<1>u. CASE UNCHANGED vars
  <2>1. \A i \in Hosts : Doomed(i)' <=> Doomed(i)
    BY <1>u DEF vars, Doomed, world
  <2>2. \A bad \in BOOLEAN : Joined(bad)' = Joined(bad)
    BY <1>u, <2>1 DEF vars, Joined
  <2>3. Shape' /\ JumpInv' /\ TaskInv'
    BY <1>u, <2>1 DEF vars, Shape, JumpInv, TaskInv, JumpAliases, Reachable, world, tally
  <2>4. CountInv' /\ PermitsAccounted'
    BY <1>u, <2>2 DEF vars, CountInv, PermitsAccounted, Holders, Active, tally
  <2> QED
    BY <2>3, <2>4
<1> QED
  BY <1>1, <1>2, <1>3, <1>4, <1>5, <1>6, <1>7, <1>8, <1>9, <1>10, <1>11, <1>u
  DEF Next, Main, Task

----------------------------------------------------------------------------
(* Theorems.                                                               *)

LEMMA FleetInvariant == Spec => []FleetInv
<1> QED
  BY InitInv, StepInv, PTL DEF Spec

\* Every variable keeps its type; for the free permits and the counts this is a
\* consequence of the accounts.
THEOREM FleetTypeCorrect == Spec => []TypeOK
<1>1. FleetInv => TypeOK
  BY Subsets, FleetAssumption DEF FleetInv, Shape, TypeOK, PermitsAccounted, Holders
<1> QED
  BY <1>1, FleetInvariant, PTL

\* The semaphore of `--concurrency` leaks no permit and gives out none twice.
THEOREM PermitsNeverLeak == Spec => []PermitsAccounted
<1>1. FleetInv => PermitsAccounted
  BY DEF FleetInv
<1> QED
  BY <1>1, FleetInvariant, PTL

\* The summary counts as failed exactly the hosts that had to fail, and the exit
\* code says whether there were any.
THEOREM SummaryAlwaysRight == Spec => []SummaryIsRight
<1>1. ASSUME FleetInv PROVE SummaryIsRight
  <2> SUFFICES ASSUME exit \in {"zero", "one"} PROVE SummaryIsRight
    BY DEF SummaryIsRight
  <2> DEFINE Bad == {h \in Hosts : Doomed(h)}
  <2>1. \A h \in Hosts : task[h] = "joined"
    BY <1>1 DEF FleetInv, CountInv
  <2>2. Joined(TRUE) = Bad /\ Joined(FALSE) = Hosts \ Bad
    BY <2>1 DEF Joined
  <2>3. failed = Cardinality(Bad) /\ succeeded = Cardinality(Hosts \ Bad)
    BY <1>1, <2>2 DEF FleetInv, CountInv
  <2>4. Cardinality(Hosts \ Bad) = Cardinality(Hosts) - Cardinality(Bad)
    <3>1. Hosts \cap Bad = Bad
      OBVIOUS
    <3> QED
      BY <3>1, FleetAssumption, FS_Difference
  <2>5. failed = 0 <=> Bad = {}
    BY <2>3, Subsets, FS_EmptySet
  <2>6. exit = "zero" <=> failed = 0
    BY <1>1 DEF FleetInv, CountInv
  <2> QED
    BY <2>3, <2>4, <2>5, <2>6 DEF SummaryIsRight
<1> QED
  BY <1>1, FleetInvariant, PTL
=============================================================================
