------------------------------- MODULE Watch -------------------------------
(***************************************************************************)
(* `binport watch`: at every tick each host runs the tool once, over a     *)
(* session kept from the previous tick where there is one, and the main    *)
(* task turns the results into events, one per change.                     *)
(*                                                                         *)
(* The environment takes hosts and jump hosts down and up, lets a machine  *)
(* fall silent, breaks connections, makes the tool answer differently or   *)
(* its start fail, and presses Ctrl-C.  Neither a connect nor a command    *)
(* has a timeout: a silent machine is waited for.                          *)
(* A snapshot (status, stdout, stderr) is a model value.  The semaphore    *)
(* that bounds the tasks of one tick is the one of Fleet and is left out.  *)
(***************************************************************************)
EXTENDS Integers, FiniteSets

CONSTANTS
    Hosts,
    Routings,   \* how the hosts may be reached
    Endless,    \* on which hosts the tool may be one that does not end by itself
    Snapshots,  \* what a run of the tool can answer
    Good,       \* snapshots with status 0
    Clear,      \* snapshots without output
    Options,    \* the options the command may be given, see Arguments
    Faults,     \* what the environment may do
    None, Offline

Routes == {"direct", "jump", "bastion", "exec-hop"}

FaultKinds ==
    {"host_down", "host_silent", "session_breaks", "jump_breaks", "run_fails", "ctrl_c"}

\* --count, --until-success and --all
Arguments ==
    [count : {None} \cup (Nat \ {0}), untilSuccess : BOOLEAN, all : BOOLEAN]

ASSUME WatchAssumption ==
    /\ IsFiniteSet(Hosts)
    /\ Routings \subseteq [Hosts -> Routes]
    /\ Endless \subseteq SUBSET Hosts
    /\ Good \subseteq Snapshots
    /\ Clear \subseteq Snapshots
    /\ Options \subseteq Arguments
    /\ Faults \subseteq FaultKinds
    /\ None \notin Snapshots \cup {Offline}
    /\ Offline \notin Snapshots

VARIABLES
    route,      \* how each host is reached
    args,       \* the options
    endless,    \* hosts on which the tool does not end
    way,        \* what a connection to each host meets: "open", "refused", or "silent",
                \* a machine that takes the connection and then says nothing
    shared,     \* the shared jump connection of prepare_connections
    main,       \* "select", "join", "done", or "killed" by the signal
    iteration,  \* ticks taken, up to the bound that matters
    handler,    \* whether the Ctrl-C handler is installed
    pressed,    \* whether Ctrl-C has been pressed
    stage,      \* where the task of each host is
    answer,     \* the result it has: a snapshot, or Offline for an error
    ssh,        \* each target's session: "none", "live" or "dead"
    last, online, attempted,  \* the rest of WatchTarget
    code,       \* final_code
    event,      \* the event printed for each host since the tick, or None
    said        \* what the last event printed for each host said of it

world == <<route, args, endless, way, shared>>
target == <<ssh, last, online, attempted>>
control == <<main, iteration, handler, pressed, code>>
vars == <<world, control, stage, answer, target, event, said>>

Kinds == {"INITIAL", "UNCHANGED", "CHANGED", "CLEARED", "RECOVERED", "OFFLINE"}

TypeOK ==
    /\ route \in Routings
    /\ args \in Options
    /\ endless \in Endless
    /\ way \in [Hosts -> {"open", "refused", "silent"}]
    /\ shared \in {"absent", "live", "dead"}
    /\ main \in {"select", "join", "done", "killed"}
    /\ iteration \in Nat
    /\ handler \in BOOLEAN
    /\ pressed \in BOOLEAN
    /\ stage \in [Hosts -> {"idle", "connect", "run", "finished"}]
    /\ answer \in [Hosts -> Snapshots \cup {None, Offline}]
    /\ ssh \in [Hosts -> {"none", "live", "dead"}]
    /\ last \in [Hosts -> Snapshots \cup {None}]
    /\ online \in [Hosts -> BOOLEAN]
    /\ attempted \in [Hosts -> BOOLEAN]
    /\ code \in {0, 1}
    /\ event \in [Hosts -> {None} \cup [kind : Kinds, of : Snapshots \cup {Offline}]]
    /\ said \in [Hosts -> Snapshots \cup {None, Offline}]

\* prepare_connections dials the jump host of the targets once; watch ignores its errors.
Init ==
    /\ route \in Routings
    /\ args \in Options
    /\ endless \in Endless
    /\ way \in [Hosts -> {"open", "refused"}]
    /\ shared \in IF \E h \in Hosts : route[h] = "jump" THEN {"absent", "live"} ELSE {"absent"}
    /\ main = "select"
    /\ iteration = 0
    /\ handler = FALSE
    /\ pressed = FALSE
    /\ stage = [h \in Hosts |-> "idle"]
    /\ answer = [h \in Hosts |-> None]
    /\ ssh = [h \in Hosts |-> "none"]
    /\ last = [h \in Hosts |-> None]
    /\ online = [h \in Hosts |-> FALSE]
    /\ attempted = [h \in Hosts |-> FALSE]
    /\ code = 0
    /\ event = [h \in Hosts |-> None]
    /\ said = [h \in Hosts |-> None]

----------------------------------------------------------------------------
(* The environment.                                                        *)

HostDown(h) ==
    /\ "host_down" \in Faults
    /\ way[h] # "refused"
    /\ way' = [way EXCEPT ![h] = "refused"]
    /\ ssh' = [ssh EXCEPT ![h] = IF @ = "live" THEN "dead" ELSE @]
    /\ UNCHANGED <<route, args, endless, shared, control, stage, answer, last, online, attempted, event, said>>

HostUp(h) ==
    /\ way[h] # "open"
    /\ way' = [way EXCEPT ![h] = "open"]
    /\ UNCHANGED <<route, args, endless, shared, control, stage, answer, target, event, said>>

\* Sessions stay as they are: nobody is told.
FallsSilent(h) ==
    /\ "host_silent" \in Faults
    /\ way[h] = "open"
    /\ way' = [way EXCEPT ![h] = "silent"]
    /\ UNCHANGED <<route, args, endless, shared, control, stage, answer, target, event, said>>

SessionBreaks(h) ==
    /\ "session_breaks" \in Faults
    /\ ssh[h] = "live"
    /\ ssh' = [ssh EXCEPT ![h] = "dead"]
    /\ UNCHANGED <<world, control, stage, answer, last, online, attempted, event, said>>

\* The connection to the jump host goes, and with it the sessions over it.  The
\* jump host itself accepts connections again.
JumpBreaks ==
    /\ "jump_breaks" \in Faults
    /\ shared = "live"
    /\ shared' = "dead"
    /\ ssh' = [h \in Hosts |->
                 IF route[h] = "jump" /\ ssh[h] = "live" THEN "dead" ELSE ssh[h]]
    /\ UNCHANGED <<route, args, endless, way, control, stage, answer, last, online, attempted, event, said>>

\* Until tokio's handler is installed, SIGINT ends the process.
CtrlC ==
    /\ "ctrl_c" \in Faults
    /\ ~pressed
    /\ main \in {"select", "join"}
    /\ pressed' = TRUE
    /\ main' = IF handler THEN main ELSE "killed"
    /\ UNCHANGED <<world, iteration, handler, code, stage, answer, target, event, said>>

----------------------------------------------------------------------------
(* The select! between Ctrl-C and the ticker.                              *)

\* Iterations are counted as far as --count, or the first one, needs.
Counted(n) == IF n < (IF args.count = None THEN 1 ELSE args.count) THEN n + 1 ELSE n

\* ctrl_c() installs its handler when it is first polled.  The first tick is due
\* at once, and select! may poll the ticker first; at later ticks it has waited.
Tick ==
    /\ main = "select"
    /\ handler' \in IF iteration = 0 THEN BOOLEAN ELSE {TRUE}
    /\ iteration' = Counted(iteration)
    /\ main' = "join"
    /\ stage' = [h \in Hosts |-> "connect"]
    /\ event' = [h \in Hosts |-> None]
    /\ UNCHANGED <<world, pressed, code, answer, target, said>>

\* Waiting for the ticker installs the handler.
Wait ==
    /\ main = "select"
    /\ iteration > 0
    /\ ~handler
    /\ handler' = TRUE
    /\ UNCHANGED <<world, main, iteration, pressed, code, stage, answer, target, event, said>>

Shutdown ==
    /\ main = "select"
    /\ pressed
    /\ handler
    /\ main' = "done"
    /\ UNCHANGED <<world, iteration, handler, pressed, code, stage, answer, target, event, said>>

----------------------------------------------------------------------------
(* watch_target_once.                                                      *)

\* A new connection succeeds when the host accepts it and, behind a jump host, when
\* the shared connection is live, or absent (then the host dials its own).
CanConnect(h) == way[h] = "open" /\ (route[h] = "jump" => shared # "dead")

Kept(h) == route[h] \in {"direct", "jump"} /\ ssh[h] # "none"

\* Wrong variant: a host that refuses the connection is tried until it accepts.
ConnectRetrying(h) ==
    /\ stage[h] = "connect"
    /\ Kept(h) \/ CanConnect(h)
    /\ stage' = [stage EXCEPT ![h] = "run"]
    /\ ssh' = [ssh EXCEPT ![h] = IF @ = "none" \/ route[h] = "bastion" THEN "live" ELSE @]
    /\ UNCHANGED <<world, control, answer, last, online, attempted, event, said>>

\* A session is kept, except that a bastion's is made anew at every tick; an
\* exec-hop host keeps none.  On a silent way the connect neither succeeds nor fails,
\* unless a dead shared connection makes it fail at once.
Connect(h) ==
    /\ stage[h] = "connect"
    /\ \/ /\ Kept(h)
          /\ stage' = [stage EXCEPT ![h] = "run"]
          /\ UNCHANGED <<ssh, answer>>
       \/ /\ ~Kept(h) /\ CanConnect(h)
          /\ stage' = [stage EXCEPT ![h] = "run"]
          /\ ssh' = [ssh EXCEPT ![h] = "live"]
          /\ UNCHANGED answer
       \/ /\ ~Kept(h) /\ ~CanConnect(h)
          /\ way[h] = "silent" => route[h] = "jump" /\ shared = "dead"
          /\ stage' = [stage EXCEPT ![h] = "finished"]
          /\ answer' = [answer EXCEPT ![h] = Offline]
          /\ UNCHANGED ssh
    /\ UNCHANGED <<world, control, last, online, attempted, event, said>>

\* At a bastion the later commands of run_remote dial again: they outlive the session,
\* and wait for a silent machine even when the session is dead.
Hangs(h) == way[h] = "silent" /\ (ssh[h] # "dead" \/ route[h] = "bastion")

Finish(h, result) ==
    /\ stage' = [stage EXCEPT ![h] = "finished"]
    /\ answer' = [answer EXCEPT ![h] = result]
    /\ ssh' = IF route[h] = "exec-hop" THEN [ssh EXCEPT ![h] = "none"] ELSE ssh
    /\ UNCHANGED <<world, control, last, online, attempted, event, said>>

\* run_remote over the session: a snapshot, or an error when the session is dead.
Run(h) ==
    /\ stage[h] = "run"
    /\ ~Hangs(h)
    /\ \/ ssh[h] = "dead" /\ Finish(h, Offline)
       \/ /\ ssh[h] # "dead" \/ (route[h] = "bastion" /\ way[h] = "open")
          /\ h \notin endless
          /\ \E s \in Snapshots : Finish(h, s)

\* An error of run_remote although the session is not dead: an unknown platform or none
\* the tool has, a failed upload, a bootstrap that does not start.  At the join it counts
\* like any other.
RunFails(h) ==
    /\ "run_fails" \in Faults
    /\ stage[h] = "run"
    /\ ssh[h] # "dead" \/ Hangs(h)
    /\ Finish(h, Offline)

----------------------------------------------------------------------------
(* The join loop.                                                          *)

\* Wrong variant: the comparison with the last snapshot comes first.
KindComparingFirst(h, s) ==
    IF last[h] = None THEN "INITIAL"
    ELSE IF last[h] = s THEN "UNCHANGED"
    ELSE IF attempted[h] /\ ~online[h] THEN "RECOVERED"
    ELSE IF s \in Clear /\ last[h] \notin Clear THEN "CLEARED"
    ELSE "CHANGED"

Kind(h, s) ==
    IF attempted[h] /\ ~online[h] THEN "RECOVERED"
    ELSE IF last[h] = None THEN "INITIAL"
    ELSE IF last[h] = s THEN "UNCHANGED"
    ELSE IF s \in Clear /\ last[h] \notin Clear THEN "CLEARED"
    ELSE "CHANGED"

Emit(h, kind, what) ==
    /\ event' = [event EXCEPT ![h] = [kind |-> kind, of |-> what]]
    /\ said' = [said EXCEPT ![h] = what]

JoinSnapshot(h) ==
    LET s == answer[h] IN
    /\ main = "join"
    /\ stage[h] = "finished"
    /\ s # Offline
    /\ IF Kind(h, s) # "UNCHANGED" \/ args.all
       THEN Emit(h, Kind(h, s), s)
       ELSE UNCHANGED <<event, said>>
    /\ last' = [last EXCEPT ![h] = s]
    /\ online' = [online EXCEPT ![h] = TRUE]
    /\ attempted' = [attempted EXCEPT ![h] = TRUE]
    /\ stage' = [stage EXCEPT ![h] = "idle"]
    /\ UNCHANGED <<world, control, answer, ssh>>

\* Wrong variant: OFFLINE is printed at every failed attempt.
JoinErrorRepeating(h) ==
    /\ main = "join"
    /\ stage[h] = "finished"
    /\ answer[h] = Offline
    /\ Emit(h, "OFFLINE", Offline)
    /\ online' = [online EXCEPT ![h] = FALSE]
    /\ attempted' = [attempted EXCEPT ![h] = TRUE]
    /\ ssh' = [ssh EXCEPT ![h] = "none"]
    /\ stage' = [stage EXCEPT ![h] = "idle"]
    /\ UNCHANGED <<world, control, answer, last>>

\* Wrong variant: the broken session is kept.
JoinErrorKeepingSession(h) ==
    /\ main = "join"
    /\ stage[h] = "finished"
    /\ answer[h] = Offline
    /\ IF online[h] \/ ~attempted[h] \/ args.all
       THEN Emit(h, "OFFLINE", Offline)
       ELSE UNCHANGED <<event, said>>
    /\ online' = [online EXCEPT ![h] = FALSE]
    /\ attempted' = [attempted EXCEPT ![h] = TRUE]
    /\ stage' = [stage EXCEPT ![h] = "idle"]
    /\ UNCHANGED <<world, control, answer, last, ssh>>

\* Any error: the session is dropped, to be made anew at the next tick.
JoinError(h) ==
    /\ main = "join"
    /\ stage[h] = "finished"
    /\ answer[h] = Offline
    /\ IF online[h] \/ ~attempted[h] \/ args.all
       THEN Emit(h, "OFFLINE", Offline)
       ELSE UNCHANGED <<event, said>>
    /\ online' = [online EXCEPT ![h] = FALSE]
    /\ attempted' = [attempted EXCEPT ![h] = TRUE]
    /\ ssh' = [ssh EXCEPT ![h] = "none"]
    /\ stage' = [stage EXCEPT ![h] = "idle"]
    /\ UNCHANGED <<world, control, answer, last>>

Successful(h) == answer[h] \in Good

\* Wrong variant: only errors make an iteration fail.
IterationCodeIgnoringStatus == IF \E h \in Hosts : answer[h] = Offline THEN 1 ELSE 0

\* iteration_failed, as an exit code.
IterationCode == IF \A h \in Hosts : Successful(h) THEN 0 ELSE 1

EndIteration ==
    /\ main = "join"
    /\ \A h \in Hosts : stage[h] = "idle"
    /\ code' = IterationCode
    /\ main' = IF \/ args.untilSuccess /\ \A h \in Hosts : Successful(h)
                  \/ args.count # None /\ iteration >= args.count
               THEN "done" ELSE "select"
    /\ UNCHANGED <<world, iteration, handler, pressed, stage, answer, target, event, said>>

----------------------------------------------------------------------------
Environment ==
    \/ \E h \in Hosts : HostDown(h) \/ HostUp(h) \/ FallsSilent(h) \/ SessionBreaks(h)
    \/ JumpBreaks
    \/ CtrlC

Work(h) == Connect(h) \/ Run(h) \/ JoinSnapshot(h) \/ JoinError(h)

Next ==
    \/ Environment
    \/ Tick \/ Wait \/ Shutdown \/ EndIteration
    \/ \E h \in Hosts : Work(h) \/ RunFails(h)

Spec == Init /\ [][Next]_vars

\* The ticker ticks, a task goes on when what it waits for has come, and select!, which
\* polls its branches in random order, does not pass over a pressed Ctrl-C for ever.
\* Nothing makes a silent machine speak, or a tool end.
FairSpec ==
    /\ Spec
    /\ WF_vars(Tick) /\ WF_vars(EndIteration) /\ SF_vars(Shutdown)
    /\ \A h \in Hosts : WF_vars(Work(h))

----------------------------------------------------------------------------
(* Properties.                                                             *)

\* Suppressing unchanged snapshots and repeated errors hides nothing: whoever has
\* read the events knows the last result of every host that has been tried.
ReaderKnows ==
    \A h \in Hosts :
        /\ attempted[h] /\ online[h] => said[h] = last[h]
        /\ attempted[h] /\ ~online[h] => said[h] = Offline
        /\ ~attempted[h] => said[h] = None

\* Without --all every event is news, and its kind is what a reader of the previous
\* event takes it for.
IsNews(h, e) ==
    CASE e.kind = "INITIAL" -> said[h] = None
      [] e.kind = "OFFLINE" -> said[h] # Offline
      [] e.kind = "RECOVERED" -> said[h] = Offline
      [] e.kind = "CHANGED" -> said[h] \in Snapshots \ {e.of}
      [] e.kind = "CLEARED" -> e.of \in Clear /\ said[h] \in Snapshots \ Clear
      [] OTHER -> FALSE

EventsAreNews ==
    [][\A h \in Hosts :
         ~args.all /\ event[h] = None /\ event'[h] # None => IsNews(h, event'[h])]_vars

\* A watch that ends, by whatever of its three ways, returns the status of the last
\* complete iteration: 0 exactly when every host was reached and succeeded in it.
ExitCodeIsOfLastSnapshot ==
    main = "done" /\ iteration > 0 =>
        (code = 0 <=> \A h \in Hosts : online[h] /\ last[h] \in Good)

Ended == main \in {"done", "killed"}

\* The tick waits for a tool that does not end, or for a machine that is silent: no
\* connect (ssh.rs:207-225, 929-949) and no command has a timeout.
Held ==
    \E h \in Hosts :
        \/ stage[h] = "run" /\ h \in endless
        \/ stage[h] \in {"connect", "run"} /\ way[h] = "silent"

SilenceRecurs == \E h \in Hosts : []<><<FallsSilent(h)>>_vars

\* README.md:702-705: connections are reused and failed targets retried, so a host
\* that can be reached is reported again; as long as its way through a jump host is
\* open, for the shared connection is never dialled again, the tick is not held for
\* good, and no fault repeats itself for ever: a session that broke and a run that
\* failed cost one tick each, and the connection is then made anew.
ReachableTargetsRecover ==
    \A h \in Hosts :
        \/ []<>(~CanConnect(h) \/ online[h] \/ Ended)
        \/ <>[]Held
        \/ []<><<SessionBreaks(h)>>_vars \/ []<><<RunFails(h)>>_vars \/ SilenceRecurs

\* Ctrl-C ends the watch (README.md:717), except when the tick is held for good by a
\* tool that does not end or a machine that stays silent: the signal is only looked at
\* between ticks (watch.rs:150).
CtrlCStops == (pressed ~> (Ended \/ []Held)) \/ SilenceRecurs
=============================================================================
