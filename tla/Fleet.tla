------------------------------- MODULE Fleet -------------------------------
(***************************************************************************)
(* One fleet command: `binport @GROUP TOOL`, `warm @GROUP`, `doctor        *)
(* @GROUP`.  The main task first connects every distinct ProxyJump, one    *)
(* after the other (prepare_connections), then spawns one task per host,   *)
(* bounded by a semaphore, and joins them in the order they finish,        *)
(* counting successes and failures into the exit code.  The three commands *)
(* have the same skeleton and differ in what a task does once it is        *)
(* connected (see RemoteCache).                                            *)
(*                                                                         *)
(* What the machines of the fleet are like is chosen once, in Init.  No    *)
(* connection or command has a timeout, so a silent machine holds whoever  *)
(* waits for it for good.                                                  *)
(***************************************************************************)
EXTENDS Integers, FiniteSets

CONSTANTS
    Hosts,        \* the selected aliases
    Jumps,        \* ProxyJump aliases
    Routings,     \* the ways the hosts may be routed over the jump hosts
    Concurrency,  \* --concurrency
    HostHealth,   \* the kinds of host the fleet may have
    JumpHealth,   \* the kinds of jump host the fleet may have
    None

\* A host runs the tool with status 0, with another status, refuses the
\* connection (or fails a later step), is silent, or its task panics.
AllHostHealth == {"good", "status", "refuses", "silent", "panics"}
AllJumpHealth == {"good", "refuses", "silent"}

ASSUME FleetAssumption ==
    /\ IsFiniteSet(Hosts)
    /\ Routings \subseteq [Hosts -> Jumps \cup {None}]
    /\ Concurrency \in Nat \ {0}
    /\ HostHealth \subseteq AllHostHealth
    /\ JumpHealth \subseteq AllJumpHealth
    /\ None \notin Jumps

VARIABLES
    jumpOf,    \* the ProxyJump of each host, or None
    health,    \* what each host is like
    jhealth,   \* what each jump host is like
    main,      \* where the main task is
    jump,      \* the shared jump connections: "none", "dialling", "up", "down"
    task,      \* where each host's task is
    result,    \* the result each finished task carries
    permits,   \* free permits of the semaphore
    succeeded, failed,
    exit       \* "zero", "one", "error", or "running" before it ends

world == <<jumpOf, health, jhealth>>
tally == <<succeeded, failed, exit>>
vars == <<world, main, jump, task, result, permits, tally>>

Tasks == {"unborn", "waiting", "connecting", "running", "finished", "panicked",
          "joined", "aborted"}

\* A task that holds a permit.
Active(h) == task[h] \in {"connecting", "running"}

\* The distinct ProxyJump aliases of the selected hosts.
JumpAliases == {jumpOf[h] : h \in Hosts} \ {None}

TypeOK ==
    /\ jumpOf \in Routings
    /\ health \in [Hosts -> HostHealth]
    /\ jhealth \in [Jumps -> JumpHealth]
    /\ main \in {"jumps", "join", "done"}
    /\ jump \in [Jumps -> {"none", "dialling", "up", "down"}]
    /\ task \in [Hosts -> Tasks]
    /\ result \in [Hosts -> {None, "ok", "status", "error"}]
    /\ permits \in 0..Concurrency
    /\ succeeded \in 0..Cardinality(Hosts)
    /\ failed \in 0..Cardinality(Hosts)
    /\ exit \in {"running", "zero", "one", "error"}

Init ==
    /\ jumpOf \in Routings
    /\ health \in [Hosts -> HostHealth]
    /\ jhealth \in [Jumps -> JumpHealth]
    /\ main = "jumps"
    /\ jump = [j \in Jumps |-> "none"]
    /\ task = [h \in Hosts |-> "unborn"]
    /\ result = [h \in Hosts |-> None]
    /\ permits = Concurrency
    /\ succeeded = 0
    /\ failed = 0
    /\ exit = "running"

----------------------------------------------------------------------------
(* prepare_connections: the jump hosts, one at a time.                     *)

DialJump(j) ==
    /\ main = "jumps"
    /\ j \in JumpAliases
    /\ jump[j] = "none"
    /\ \A i \in Jumps : jump[i] # "dialling"
    /\ jump' = [jump EXCEPT ![j] = "dialling"]
    /\ UNCHANGED <<world, main, task, result, permits, tally>>

\* A refused jump is an entry of jump_errors, not the end of the command.
JumpAnswers(j) ==
    /\ jump[j] = "dialling"
    /\ jhealth[j] # "silent"
    /\ jump' = [jump EXCEPT ![j] = IF jhealth[j] = "good" THEN "up" ELSE "down"]
    /\ UNCHANGED <<world, main, task, result, permits, tally>>

\* One task per host.  The loop awaits nothing.
SpawnAll ==
    /\ main = "jumps"
    /\ \A j \in JumpAliases : jump[j] \in {"up", "down"}
    /\ main' = "join"
    /\ task' = [h \in Hosts |-> "waiting"]
    /\ UNCHANGED <<world, jump, result, permits, tally>>

----------------------------------------------------------------------------
(* A host's task.                                                          *)

\* acquire_owned().await
Acquire(h) ==
    /\ task[h] = "waiting"
    /\ permits > 0
    /\ permits' = permits - 1
    /\ task' = [task EXCEPT ![h] = "connecting"]
    /\ UNCHANGED <<world, main, jump, result, tally>>

\* Wrong variant: a task that fails forgets its permit.
FinishKeepingPermit(h, res) ==
    /\ task' = [task EXCEPT ![h] = "finished"]
    /\ result' = [result EXCEPT ![h] = res]
    /\ permits' = IF res = "error" THEN permits ELSE permits + 1

\* The task returns: the permit is dropped with it.
Finish(h, res) ==
    /\ task' = [task EXCEPT ![h] = "finished"]
    /\ result' = [result EXCEPT ![h] = res]
    /\ permits' = permits + 1

\* The host's jump is in jump_errors: the task fails without connecting.
JumpFailed(h) ==
    /\ task[h] = "connecting"
    /\ jumpOf[h] # None
    /\ jump[jumpOf[h]] = "down"
    /\ Finish(h, "error")
    /\ UNCHANGED <<world, main, jump, tally>>

\* Over the shared jump, or directly.
Reachable(h) == jumpOf[h] # None => jump[jumpOf[h]] = "up"

Connect(h) ==
    /\ task[h] = "connecting"
    /\ Reachable(h)
    /\ health[h] # "silent"
    /\ IF health[h] = "refuses"
       THEN Finish(h, "error")
       ELSE /\ task' = [task EXCEPT ![h] = "running"]
            /\ UNCHANGED <<result, permits>>
    /\ UNCHANGED <<world, main, jump, tally>>

\* The probe, the upload and the tool, for warm and doctor the checks and uploads.
ToolEnds(h) ==
    /\ task[h] = "running"
    /\ health[h] \in {"good", "status"}
    /\ Finish(h, IF health[h] = "good" THEN "ok" ELSE "status")
    /\ UNCHANGED <<world, main, jump, tally>>

\* Unwinding drops the permit, but the task carries no result.
Panic(h) ==
    /\ task[h] = "running"
    /\ health[h] = "panics"
    /\ task' = [task EXCEPT ![h] = "panicked"]
    /\ permits' = permits + 1
    /\ UNCHANGED <<world, main, jump, result, tally>>

----------------------------------------------------------------------------
(* The join loop of the main task.                                         *)

\* Wrong variant: only errors count as failures.
JoinIgnoringStatus(h) ==
    /\ main = "join"
    /\ task[h] = "finished"
    /\ task' = [task EXCEPT ![h] = "joined"]
    /\ IF result[h] # "error"
       THEN succeeded' = succeeded + 1 /\ UNCHANGED failed
       ELSE failed' = failed + 1 /\ UNCHANGED succeeded
    /\ UNCHANGED <<world, main, jump, result, permits, exit>>

\* An error and a status other than 0 both count as failures.
Join(h) ==
    /\ main = "join"
    /\ task[h] = "finished"
    /\ task' = [task EXCEPT ![h] = "joined"]
    /\ IF result[h] = "ok"
       THEN succeeded' = succeeded + 1 /\ UNCHANGED failed
       ELSE failed' = failed + 1 /\ UNCHANGED succeeded
    /\ UNCHANGED <<world, main, jump, result, permits, exit>>

\* `task.map_err(..)??`: the command fails, and dropping the JoinSet aborts the
\* tasks that still run.
JoinPanicked(h) ==
    /\ main = "join"
    /\ task[h] = "panicked"
    /\ main' = "done"
    /\ exit' = "error"
    /\ task' = [i \in Hosts |->
                  IF i = h THEN "joined"
                  ELSE IF task[i] = "waiting" \/ Active(i) THEN "aborted" ELSE task[i]]
    /\ permits' = permits + Cardinality({i \in Hosts : Active(i)})
    /\ UNCHANGED <<world, jump, result, succeeded, failed>>

\* join_next returns None: the summary, and the exit code.
Summary ==
    /\ main = "join"
    /\ \A h \in Hosts : task[h] = "joined"
    /\ main' = "done"
    /\ exit' = IF failed = 0 THEN "zero" ELSE "one"
    /\ UNCHANGED <<world, jump, task, result, permits, succeeded, failed>>

----------------------------------------------------------------------------
Main ==
    \/ \E j \in Jumps : DialJump(j) \/ JumpAnswers(j)
    \/ SpawnAll
    \/ \E h \in Hosts : Join(h) \/ JoinPanicked(h)
    \/ Summary

Task(h) == Acquire(h) \/ JumpFailed(h) \/ Connect(h) \/ ToolEnds(h) \/ Panic(h)

Next == Main \/ \E h \in Hosts : Task(h)

Spec == Init /\ [][Next]_vars

\* The tokio runtime polls a task that has been woken.  Every task acquires
\* once, so weak fairness is enough for the semaphore.
FairSpec == Spec /\ WF_vars(Main) /\ \A h \in Hosts : WF_vars(Task(h))

----------------------------------------------------------------------------
(* Properties.                                                             *)

\* What has to fail: the host's own connection or command, or its own jump.
Doomed(h) ==
    \/ health[h] # "good"
    \/ jumpOf[h] # None /\ jhealth[jumpOf[h]] # "good"

\* Each host is isolated: whatever the order, the concurrency and the failures of
\* the others, the summary counts as failed exactly the hosts that had to fail,
\* and the exit code says whether there were any.
SummaryIsRight ==
    exit \in {"zero", "one"} =>
        /\ failed = Cardinality({h \in Hosts : Doomed(h)})
        /\ succeeded = Cardinality(Hosts) - failed
        /\ exit = "zero" <=> \A h \in Hosts : ~Doomed(h)

Silent == {h \in Hosts : health[h] = "silent"}

\* Fewer silent hosts than permits cannot keep the others from being joined,
\* unless a jump host is silent or a task panics.
Calm ==
    /\ \A j \in JumpAliases : jhealth[j] # "silent"
    /\ \A h \in Hosts : health[h] # "panics"
    /\ Cardinality(Silent) < Concurrency

OthersAreJoined ==
    \A h \in Hosts : (Calm /\ h \notin Silent) ~> task[h] = "joined"
=============================================================================
