--------------------------- MODULE ToolboxProofs ---------------------------
(***************************************************************************)
(* Machine-checked proofs about Toolbox: for every set of tools, versions  *)
(* and processes, any number of commands, edits and crashes, and every     *)
(* interleaving of their system calls.                                     *)
(***************************************************************************)
EXTENDS Toolbox, TLAPS

\* What a process's place in its command says of what it holds.
LabelInv(p) ==
    /\ pc[p] = "vouch" => op[p] \in {"resolve", "build"} /\ heldLock[p] \in Locks
    /\ pc[p] \in {"lock", "lock2"} =>
           op[p] \in {"resolve", "build", "unpack"} /\ heldLock[p] \in Locks
    /\ pc[p] \in {"copy", "copying", "hash", "manifest", "manifest2"} =>
           op[p] = "build" /\ heldLock[p] \in Locks
    /\ pc[p] \in {"copying", "hash"} => cur[p] \in todo[p]
    /\ pc[p] \in {"manifest", "manifest2"} => todo[p] = {}
    /\ pc[p] = "remove" => op[p] \in {"load", "unpack"}
    /\ pc[p] = "manifest_rm" => op[p] = "unpack"
    /\ pc[p] = "manifest_mv" => op[p] \in {"load", "unpack"}
    /\ op[p] = "build" => \A t \in todo[p] : held[p][t] = None
    /\ op[p] = "export" => heldLock[p] \in Files \cup {Partial}
    /\ op[p] = "pack" => heldLock[p] \in Locks \cup {None}
                         /\ \A t \in Tools \ todo[p] : held[p][t] # Partial
    /\ op[p] = "load" => heldLock[p] \in Files /\ Describes(heldLock[p], held[p])
    /\ op[p] = "unpack" => heldLock[p] \in Locks \cup {None}

\* Who changes the toolbox is known to have touched it.
TouchInv(p) ==
    \/ pc[p] \in {"copying", "hash", "manifest", "manifest2", "manifest_rm", "manifest_mv"}
    \/ pc[p] \in {"lock", "lock2"} /\ op[p] = "unpack"
    => p \in touched

\* A process that is alone is the only writer, or there is none.
AloneInv == \A p \in alone, q \in Procs : op[q] \in Writers => p = q

\* A toolbox that its manifest describes.
Sound == manifest = None \/ (manifest \in Files /\ Describes(manifest, files))

\* The toolbox is sound until a writer has touched it; failures before it do not matter
\* once a later writer has finished alone.
SoundInv == ~dirty /\ (\A q \in Writing : q \notin touched) => Sound

\* How far a writer that is alone has come with the toolbox.
WriterInv(p) ==
    /\ op[p] = "build" => \A t \in Listed(held[p]) : files[t] = held[p][t]
    /\ pc[p] = "remove" => \A t \in Tools \ todo[p] : files[t] = None
    /\ pc[p] \in {"manifest_rm", "manifest_mv"} => files = held[p]
    /\ pc[p] \in {"lock", "lock2"} /\ op[p] = "unpack" => Sound

\* How far a build that is alone and undisturbed has come with its lock.
Names(l) == Listed(l.entries) = binfile \/ crossed

BuildInv(p) ==
    op[p] = "build" /\ p \in steady =>
        /\ Names(heldLock[p])
        /\ \A t \in Tools \ todo[p] : held[p][t] = heldLock[p].entries[t]
        /\ pc[p] = "copying" =>
               files[cur[p]] = Partial /\ source[cur[p]] = heldLock[p].entries[cur[p]]
        /\ pc[p] = "hash" => files[cur[p]] = heldLock[p].entries[cur[p]]

\* What an export has gathered, and what it has yet to gather, is the sound toolbox.
ExportInv(p) ==
    op[p] = "export" /\ ~dirty =>
        /\ heldLock[p] \in Files
        /\ \A t \in Listed(heldLock[p]) :
               heldLock[p][t] = IF t \in todo[p] THEN files[t] ELSE held[p][t]

OwnInv(p) == p \in alone => WriterInv(p) /\ BuildInv(p) /\ ExportInv(p)

\* Every lock is about the tools it lists, unless the Binfile was edited while one was made.
LockOK(l) == l \notin {None, Partial} => l.of = Listed(l.entries) \/ crossed

LockInv ==
    /\ LockOK(plock)
    /\ layout \notin {None, Partial} => LockOK(layout.lock)
    /\ \A p \in Procs :
        /\ pc[p] = "vouch" => Names(heldLock[p])
        /\ op[p] \in {"resolve", "build", "pack", "unpack"} /\ pc[p] # "vouch" => LockOK(heldLock[p])

Typed == TypeOK /\ \A p \in Procs : LabelInv(p) /\ TouchInv(p)

ToolboxInv ==
    /\ AloneInv
    /\ SoundInv
    /\ \A p \in Procs : OwnInv(p)
    /\ ExportsCanBeLoaded
    /\ LockInv

----------------------------------------------------------------------------
(* What every step of a process leaves alone.                              *)

Frame(p) ==
    /\ UNCHANGED <<binfile, source, crossed>>
    /\ \A q \in Procs \ {p} :
        /\ op'[q] = op[q] /\ pc'[q] = pc[q] /\ todo'[q] = todo[q] /\ cur'[q] = cur[q]
        /\ held'[q] = held[q] /\ heldLock'[q] = heldLock[q]
        /\ q \in alone' => q \in alone
        /\ q \in steady' => q \in steady
        /\ q \in touched' <=> q \in touched

LEMMA StepFrame == ASSUME TypeOK, NEW p \in Procs, Step(p) \/ Crash(p) PROVE Frame(p)
<1> USE DEF TypeOK, Frame, Touch, Goto, proc, disk, bounds, history
<1>1. ASSUME Leave(p), UNCHANGED <<binfile, source>> PROVE Frame(p)
  BY <1>1 DEF Leave
<1>2. ASSUME NEW o, NEW s, NEW ts, NEW f, NEW l, Enter(p, o, s, ts, f, l),
             UNCHANGED <<binfile, source>>
      PROVE  Frame(p)
  BY <1>2 DEF Enter
<1>3. CASE ResolveStart(p)
  BY <1>3, <1>2 DEF ResolveStart
<1>4. CASE Vouch(p)
  BY <1>4 DEF Vouch
<1>5. CASE LockTruncate(p)
  BY <1>5 DEF LockTruncate
<1>6. CASE LockWrite(p)
  BY <1>6, <1>1 DEF LockWrite, Finish
<1>7. CASE BuildStart(p)
  BY <1>7, <1>2 DEF BuildStart
<1>8. CASE CopyStart(p)
  BY <1>8 DEF CopyStart
<1>9. CASE CopyRefused(p)
  BY <1>9, <1>1 DEF CopyRefused, Fail
<1>10. CASE CopyEnd(p)
  BY <1>10 DEF CopyEnd
<1>11. CASE Hash(p)
  BY <1>11, <1>1 DEF Hash, Fail
<1>12. CASE ManifestTruncate(p)
  BY <1>12 DEF ManifestTruncate
<1>13. CASE ManifestWrite(p)
  BY <1>13, <1>1 DEF ManifestWrite, Finish
<1>14. CASE ExportStart(p)
  BY <1>14, <1>2 DEF ExportStart
<1>15. CASE ExportFile(p)
  BY <1>15 DEF ExportFile
<1>16. CASE ExportEnd(p)
  BY <1>16, <1>1 DEF ExportEnd, Finish
<1>17. CASE PackStart(p)
  BY <1>17, <1>2 DEF PackStart
<1>18. CASE PackTool(p)
  BY <1>18, <1>1 DEF PackTool, Fail
<1>19. CASE PackEnd(p)
  BY <1>19, <1>1 DEF PackEnd, Finish
<1>20. CASE LoadStart(p)
  BY <1>20, <1>2 DEF LoadStart
<1>21. CASE UnpackStart(p)
  BY <1>21, <1>2 DEF UnpackStart
<1>22. CASE Remove(p)
  BY <1>22 DEF Remove
<1>23. CASE RenameToolbox(p)
  BY <1>23, <1>1 DEF RenameToolbox, Fail
<1>24. CASE ManifestRemove(p)
  BY <1>24 DEF ManifestRemove
<1>25. CASE ManifestRename(p)
  BY <1>25, <1>1 DEF ManifestRename, Finish
<1>26. CASE Crash(p)
  BY <1>26, <1>1 DEF Crash
<1> QED
  BY <1>3, <1>4, <1>5, <1>6, <1>7, <1>8, <1>9, <1>10, <1>11, <1>12, <1>13, <1>14, <1>15, <1>16, <1>17, <1>18, <1>19, <1>20, <1>21, <1>22, <1>23, <1>24, <1>25, <1>26 DEF Step

----------------------------------------------------------------------------
(* Types.                                                                  *)

DiskOK ==
    /\ binfile \in Listings
    /\ source \in [Tools -> Versions]
    /\ files \in Files
    /\ manifest \in Files \cup {None, Partial}
    /\ plock \in Locks \cup {None, Partial}
    /\ archive \in {None, Partial}
                   \cup [manifest : Files \cup {Partial}, files : Files, sound : BOOLEAN]
    /\ layout \in {None, Partial} \cup [files : Whole, lock : Locks \cup {None}]

ProcOK ==
    /\ op \in [Procs -> AllOps \cup {None}]
    /\ pc \in [Procs -> Steps]
    /\ todo \in [Procs -> SUBSET Tools]
    /\ cur \in [Procs -> Tools \cup {None}]
    /\ held \in [Procs -> Files]
    /\ heldLock \in [Procs -> Files \cup Locks \cup {None, Partial}]

BoundsOK == ops \in 0..MaxOps /\ edits \in 0..MaxEdits /\ crashes \in 0..MaxCrashes

HistoryOK ==
    /\ alone \subseteq Procs /\ steady \subseteq Procs /\ touched \subseteq Procs
    /\ dirty \in BOOLEAN /\ crossed \in BOOLEAN

LEMMA TypeParts ==
    /\ TypeOK <=> DiskOK /\ ProcOK /\ BoundsOK /\ HistoryOK
    /\ TypeOK' <=> DiskOK' /\ ProcOK' /\ BoundsOK' /\ HistoryOK'
  BY DEF TypeOK, DiskOK, ProcOK, BoundsOK, HistoryOK

\* What files and locks are made of.
LEMMA Parts ==
    /\ NoFiles \in Files /\ Present \in SUBSET Tools /\ \A f \in Files : Listed(f) \in SUBSET Tools
    /\ \A f \in Files, t \in Tools, v \in Content : [f EXCEPT ![t] = v] \in Files
    /\ \A f \in Files, t \in Tools : f[t] \in Content
    /\ Versions \subseteq Content /\ {None, Partial} \subseteq Content
    /\ Whole \subseteq Files
  BY DEF NoFiles, Files, Content, Whole, Present, Listed

\* What beginning and ending a command does to the types.
LEMMA EnterTypes ==
    ASSUME TypeOK, NEW p \in Procs, NEW o, NEW s \in Steps, NEW ts \in SUBSET Tools,
           NEW f \in Files, NEW l \in Files \cup Locks \cup {None, Partial},
           Enter(p, o, s, ts, f, l)
    PROVE  ProcOK' /\ BoundsOK' /\ HistoryOK'
<1>1. ProcOK'
  BY ToolboxAssumption DEF Enter, TypeOK, ProcOK
<1>2. BoundsOK'
  BY ToolboxAssumption DEF Enter, TypeOK, BoundsOK
<1>3. HistoryOK'
  BY DEF Enter, TypeOK, HistoryOK
<1> QED
  BY <1>1, <1>2, <1>3

LEMMA HashedLock == ASSUME DiskOK PROVE Hashed \in Locks
  BY DEF DiskOK, Hashed, Locks, Whole, Listings

LEMMA LeaveTypes ==
    ASSUME TypeOK, NEW p \in Procs, Finish(p) \/ Fail(p) \/ Crash(p)
    PROVE  ProcOK' /\ BoundsOK' /\ HistoryOK'
<1>1. Leave(p)
  BY DEF Finish, Fail, Crash
<1>2. ProcOK'
  BY <1>1, Parts DEF Leave, TypeOK, ProcOK, Steps
<1>3. BoundsOK'
  BY <1>1, ToolboxAssumption DEF Finish, Fail, Crash, Leave, TypeOK, BoundsOK
<1>4. HistoryOK'
  BY <1>1 DEF Finish, Fail, Crash, Leave, TypeOK, HistoryOK
<1> QED
  BY <1>2, <1>3, <1>4

\* Commands that begin.
LEMMA BeginTypes ==
    ASSUME TypeOK, NEW p \in Procs,
           \/ ResolveStart(p) \/ BuildStart(p) \/ ExportStart(p)
           \/ PackStart(p) \/ LoadStart(p) \/ UnpackStart(p)
    PROVE  TypeOK'
<1>0. DiskOK /\ (DiskOK' /\ ProcOK' /\ BoundsOK' /\ HistoryOK' => TypeOK')
  BY TypeParts
<1>1. CASE ResolveStart(p)
  <2>1. DiskOK'
    BY <1>0, <1>1 DEF ResolveStart, DiskOK, disk
  <2> QED
    BY <1>0, <1>1, <2>1, EnterTypes, HashedLock, Parts DEF ResolveStart, Steps
<1>2. CASE BuildStart(p)
  <2>1. DiskOK'
    BY <1>0, <1>2 DEF BuildStart, DiskOK, disk
  <2>2. CASE plock = None
    BY <1>0, <1>2, <2>1, <2>2, EnterTypes, HashedLock, Parts DEF BuildStart, Steps, DiskOK, Listings
  <2>3. CASE plock # None
    <3>1. plock \in Locks
      BY <1>0, <1>2, <2>3 DEF BuildStart, DiskOK
    <3>2. Listed(plock.entries) \in SUBSET Tools
      BY DEF Listed
    <3> QED
      BY <1>0, <1>2, <2>1, <2>3, <3>1, <3>2, EnterTypes, Parts DEF BuildStart, Steps
  <2> QED
    BY <2>2, <2>3
<1>3. CASE ExportStart(p)
  <2>1. DiskOK'
    BY <1>0, <1>3 DEF ExportStart, DiskOK
  <2>2. manifest \in Files \cup Locks \cup {None, Partial}
    BY <1>0 DEF DiskOK
  <2> QED
    BY <1>0, <1>3, <2>1, <2>2, EnterTypes, Parts DEF ExportStart, Steps
<1>4. CASE PackStart(p)
  <2>1. DiskOK'
    BY <1>0, <1>4 DEF PackStart, DiskOK
  <2>2. (IF plock = Partial THEN None ELSE plock) \in Files \cup Locks \cup {None, Partial}
    BY <1>0 DEF DiskOK
  <2> QED
    BY <1>0, <1>4, <2>1, <2>2, EnterTypes, Parts DEF PackStart, Steps
<1>5. CASE LoadStart(p)
  <2>1. DiskOK'
    BY <1>0, <1>5 DEF LoadStart, DiskOK, disk
  <2>2. archive.files \in Files /\ archive.manifest \in Files
    BY <1>5 DEF LoadStart, Acceptable
  <2> QED
    BY <1>0, <1>5, <2>1, <2>2, EnterTypes, Parts DEF LoadStart, Steps
<1>6. CASE UnpackStart(p)
  <2>1. DiskOK'
    BY <1>0, <1>6 DEF UnpackStart, DiskOK, disk
  <2>2. layout.files \in Files /\ layout.lock \in Locks \cup {None}
    BY <1>0, <1>6, Parts DEF UnpackStart, DiskOK
  <2> QED
    BY <1>0, <1>6, <2>1, <2>2, EnterTypes, Parts DEF UnpackStart, Steps
<1> QED
  BY <1>1, <1>2, <1>3, <1>4, <1>5, <1>6


\* Commands that go on or end.
LEMMA GoOnTypes ==
    ASSUME TypeOK, NEW p \in Procs, LabelInv(p),
           \/ Vouch(p) \/ LockTruncate(p) \/ LockWrite(p)
           \/ CopyStart(p) \/ CopyRefused(p) \/ CopyEnd(p) \/ Hash(p)
           \/ ManifestTruncate(p) \/ ManifestWrite(p)
           \/ ExportFile(p) \/ ExportEnd(p) \/ PackTool(p) \/ PackEnd(p)
           \/ Remove(p) \/ RenameToolbox(p)
           \/ ManifestRemove(p) \/ ManifestRename(p) \/ Crash(p)
    PROVE  TypeOK'
<1>0. DiskOK /\ ProcOK
  BY TypeParts
<1>a. ASSUME DiskOK', Finish(p) \/ Fail(p) \/ Crash(p) PROVE TypeOK'
  BY <1>a, LeaveTypes, TypeParts
<1>b. ASSUME DiskOK', ProcOK', UNCHANGED bounds, UNCHANGED history \/ Touch(p) PROVE TypeOK'
  BY <1>b, TypeParts DEF bounds, BoundsOK, history, HistoryOK, Touch, TypeOK
<1>1. CASE Vouch(p)
  <2>1. heldLock' \in [Procs -> Files \cup Locks \cup {None, Partial}]
    <3>1. [heldLock[p] EXCEPT !.of = binfile] \in Locks
      BY <1>0, <1>1 DEF Vouch, LabelInv, DiskOK, Locks
    <3> QED
      BY <1>0, <1>1, <3>1 DEF Vouch, ProcOK
  <2>2. DiskOK' /\ ProcOK'
    BY <1>0, <1>1, <2>1 DEF Vouch, Goto, disk, DiskOK, ProcOK, Steps
  <2> QED
    BY <1>1, <2>2, <1>b DEF Vouch
<1>2. CASE LockTruncate(p)
  <2>1. DiskOK' /\ ProcOK'
    BY <1>0, <1>2 DEF LockTruncate, Goto, DiskOK, ProcOK, Steps
  <2> QED
    BY <1>2, <2>1, <1>b DEF LockTruncate
<1>3. CASE LockWrite(p)
  <2>1. DiskOK'
    BY <1>0, <1>3 DEF LockWrite, LabelInv, DiskOK
  <2>2. CASE op[p] = "build"
    <3>1. ProcOK'
      BY <1>0, <1>3, <2>2 DEF LockWrite, Goto, ProcOK, Steps
    <3> QED
      BY <1>3, <2>1, <2>2, <3>1, <1>b DEF LockWrite
  <2> QED
    BY <1>3, <2>1, <2>2, <1>a DEF LockWrite
<1>4. CASE CopyStart(p)
  <2>1. PICK t \in Tools : files' = [files EXCEPT ![t] = Partial] /\ cur' = [cur EXCEPT ![p] = t]
    BY <1>0, <1>4 DEF CopyStart, ProcOK
  <2>2. files' \in Files
    BY <1>0, <2>1, Parts DEF DiskOK
  <2>3. DiskOK' /\ ProcOK'
    BY <1>0, <1>4, <2>1, <2>2 DEF CopyStart, Goto, DiskOK, ProcOK, Steps
  <2> QED
    BY <1>4, <2>3, <1>b DEF CopyStart
<1>5. CASE CopyRefused(p)
  BY <1>0, <1>5, <1>a DEF CopyRefused, DiskOK, disk
<1>6. CASE CopyEnd(p)
  <2>1. cur[p] \in Tools
    BY <1>0, <1>6 DEF CopyEnd, LabelInv, ProcOK
  <2>2. files' \in Files
    <3>1. source[cur[p]] \in Content
      BY <1>0, <2>1, Parts DEF DiskOK
    <3> QED
      BY <1>0, <1>6, <2>1, <3>1, Parts DEF CopyEnd, DiskOK
  <2>3. DiskOK' /\ ProcOK'
    BY <1>0, <1>6, <2>2 DEF CopyEnd, Goto, DiskOK, ProcOK, Steps
  <2> QED
    BY <1>6, <2>3, <1>b DEF CopyEnd
<1>7. CASE Hash(p)
  <2>1. cur[p] \in Tools
    BY <1>0, <1>7 DEF Hash, LabelInv, ProcOK
  <2>2. [held[p] EXCEPT ![cur[p]] = files[cur[p]]] \in Files
    BY <1>0, <2>1, Parts DEF DiskOK, ProcOK
  <2>3. DiskOK'
    BY <1>0, <1>7 DEF Hash, disk, DiskOK
  <2>4. CASE files[cur[p]] # None
    <3>1. held' = [held EXCEPT ![p] = [held[p] EXCEPT ![cur[p]] = files[cur[p]]]]
      BY <1>0, <1>7, <2>4 DEF Hash, ProcOK
    <3>2. held' \in [Procs -> Files]
      BY <1>0, <2>2, <3>1 DEF ProcOK
    <3>3. ProcOK'
      BY <1>0, <1>7, <2>4, <3>2 DEF Hash, Goto, ProcOK, Steps
    <3> QED
      BY <1>7, <2>3, <2>4, <3>3, <1>b DEF Hash
  <2>5. CASE files[cur[p]] = None
    BY <1>7, <2>3, <2>5, <1>a DEF Hash
  <2> QED
    BY <2>4, <2>5
<1>8. CASE ManifestTruncate(p)
  <2>1. DiskOK' /\ ProcOK'
    BY <1>0, <1>8 DEF ManifestTruncate, Goto, DiskOK, ProcOK, Steps
  <2> QED
    BY <1>8, <2>1, <1>b DEF ManifestTruncate
<1>9. CASE ManifestWrite(p)
  <2>1. DiskOK'
    BY <1>0, <1>9 DEF ManifestWrite, DiskOK, ProcOK
  <2> QED
    BY <1>9, <2>1, <1>a DEF ManifestWrite
<1>10. CASE ExportFile(p)
  <2>1. PICK t \in Tools : /\ held' = [held EXCEPT ![p][t] = files[t]]
                           /\ todo' = [todo EXCEPT ![p] = @ \ {t}]
    BY <1>0, <1>10 DEF ExportFile, ProcOK
  <2>2. [held[p] EXCEPT ![t] = files[t]] \in Files
    BY <1>0, Parts DEF DiskOK, ProcOK
  <2>3. held' = [held EXCEPT ![p] = [held[p] EXCEPT ![t] = files[t]]]
    BY <1>0, <2>1 DEF ProcOK
  <2>4. held' \in [Procs -> Files]
    BY <1>0, <2>2, <2>3 DEF ProcOK
  <2>5. DiskOK' /\ ProcOK'
    BY <1>0, <1>10, <2>1, <2>4 DEF ExportFile, disk, DiskOK, ProcOK
  <2> QED
    BY <1>10, <2>5, <1>b DEF ExportFile
<1>11. CASE ExportEnd(p)
  <2>1. heldLock[p] \in Files \cup {Partial} /\ held[p] \in Files /\ (p \in alone /\ ~dirty) \in BOOLEAN
    BY <1>0, <1>11 DEF ExportEnd, LabelInv, ProcOK
  <2>2. archive' \in [manifest : Files \cup {Partial}, files : Files, sound : BOOLEAN]
    BY <1>11, <2>1 DEF ExportEnd
  <2>3. DiskOK'
    BY <1>0, <1>11, <2>2 DEF ExportEnd, DiskOK
  <2> QED
    BY <1>11, <2>3, <1>a DEF ExportEnd
<1>12. CASE PackTool(p)
  <2>1. DiskOK'
    BY <1>0, <1>12 DEF PackTool, disk, DiskOK
  <2>2. CASE Fail(p)
    BY <2>1, <2>2, <1>a
  <2>3. CASE ~Fail(p)
    <3>1. ProcOK'
      BY <1>0, <1>12, <2>3 DEF PackTool, ProcOK
    <3> QED
      BY <1>12, <2>1, <2>3, <3>1, <1>b DEF PackTool
  <2> QED
    BY <2>2, <2>3
<1>13. CASE PackEnd(p)
  <2>1. held[p] \in Whole
    <3>1. \A t \in Tools : held[p][t] # Partial
      BY <1>13 DEF PackEnd, LabelInv
    <3> QED
      BY <1>0, <3>1 DEF ProcOK, Whole, Files, Content
  <2>2. heldLock[p] \in Locks \cup {None}
    BY <1>13 DEF PackEnd, LabelInv
  <2>3. layout' \in [files : Whole, lock : Locks \cup {None}]
    BY <1>13, <2>1, <2>2 DEF PackEnd
  <2>4. DiskOK'
    BY <1>0, <1>13, <2>3 DEF PackEnd, DiskOK
  <2> QED
    BY <1>13, <2>4, <1>a DEF PackEnd
<1>14. CASE Remove(p)
  <2>1. PICK t \in Tools : /\ files' = [files EXCEPT ![t] = None]
                           /\ todo' = [todo EXCEPT ![p] = @ \ {t}]
    BY <1>0, <1>14 DEF Remove, ProcOK
  <2>2. files' \in Files
    BY <1>0, <2>1, Parts DEF DiskOK
  <2>3. DiskOK' /\ ProcOK'
    BY <1>0, <1>14, <2>1, <2>2 DEF Remove, DiskOK, ProcOK
  <2> QED
    BY <1>14, <2>3, <1>b DEF Remove
<1>15. CASE RenameToolbox(p)
  <2>1. DiskOK'
    BY <1>0, <1>15 DEF RenameToolbox, DiskOK, ProcOK
  <2>2. CASE files = NoFiles
    <3>1. ProcOK'
      BY <1>0, <1>15, <2>2 DEF RenameToolbox, Goto, ProcOK, Steps
    <3> QED
      BY <1>15, <2>1, <2>2, <3>1, <1>b DEF RenameToolbox
  <2> QED
    BY <1>15, <2>1, <2>2, <1>a DEF RenameToolbox
<1>16. CASE ManifestRemove(p)
  <2>1. DiskOK' /\ ProcOK'
    BY <1>0, <1>16 DEF ManifestRemove, Goto, DiskOK, ProcOK, Steps
  <2> QED
    BY <1>16, <2>1, <1>b DEF ManifestRemove
<1>17. CASE ManifestRename(p)
  <2>1. DiskOK'
    BY <1>0, <1>17 DEF ManifestRename, LabelInv, DiskOK, ProcOK
  <2>2. CASE Finish(p)
    BY <2>1, <2>2, <1>a
  <2>3. CASE ~Finish(p)
    <3>1. ProcOK'
      BY <1>0, <1>17, <2>3 DEF ManifestRename, Goto, ProcOK, Steps
    <3> QED
      BY <1>17, <2>1, <2>3, <3>1, <1>b DEF ManifestRename
  <2> QED
    BY <2>2, <2>3
<1>18. CASE Crash(p)
  <2>1. DiskOK'
    BY <1>0, <1>18 DEF Crash, disk, DiskOK
  <2> QED
    BY <1>18, <2>1, <1>a
<1> QED
  BY <1>1, <1>2, <1>3, <1>4, <1>5, <1>6, <1>7, <1>8, <1>9, <1>10, <1>11, <1>12, <1>13, <1>14, <1>15, <1>16, <1>17, <1>18

LEMMA StepTypes ==
    ASSUME TypeOK, NEW p \in Procs, LabelInv(p), Step(p) \/ Crash(p)
    PROVE  TypeOK'
  BY BeginTypes, GoOnTypes DEF Step

LEMMA EditTypes == ASSUME TypeOK, Edit PROVE TypeOK'
<1>1. DiskOK'
  <2>1. source' \in [Tools -> Versions]
    BY DEF Edit, TypeOK
  <2>2. binfile' \in Listings
    BY DEF Edit, TypeOK
  <2> QED
    BY <2>1, <2>2 DEF Edit, TypeOK, DiskOK
<1>2. ProcOK'
  BY DEF Edit, TypeOK, ProcOK, proc
<1>3. BoundsOK'
  BY ToolboxAssumption DEF Edit, TypeOK, BoundsOK
<1>4. HistoryOK'
  BY DEF Edit, TypeOK, HistoryOK
<1> QED
  BY <1>1, <1>2, <1>3, <1>4, TypeParts

----------------------------------------------------------------------------
(* Where a process is, and what it holds there.                            *)

\* A process that is gone holds nothing.
LEMMA GoneLabel ==
    ASSUME TypeOK, NEW p \in Procs, Leave(p)
    PROVE  /\ op'[p] = None /\ pc'[p] = "idle" /\ p \notin alone' /\ p \notin steady'
           /\ LabelInv(p)' /\ TouchInv(p)'
<1>1. op'[p] = None /\ pc'[p] = "idle" /\ p \notin alone' /\ p \notin steady'
  BY DEF Leave, TypeOK
<1> QED
  BY <1>1, AbsenceAssumption DEF LabelInv, TouchInv, AllOps

\* A process that has begun.
LEMMA BegunFacts ==
    ASSUME TypeOK, NEW p \in Procs, NEW o, NEW s, NEW ts, NEW f, NEW l, Enter(p, o, s, ts, f, l)
    PROVE  /\ op[p] = None
           /\ op'[p] = o /\ pc'[p] = s /\ todo'[p] = ts /\ held'[p] = f /\ heldLock'[p] = l
           /\ o \in Writers => alone' \subseteq {p}
           /\ p \in alone' => Writing = {}
           /\ dirty' = dirty
  BY DEF Enter, TypeOK

LEMMA BeginLabel ==
    ASSUME TypeOK, NEW p \in Procs,
           \/ ResolveStart(p) \/ BuildStart(p) \/ ExportStart(p)
           \/ PackStart(p) \/ LoadStart(p) \/ UnpackStart(p)
    PROVE  LabelInv(p)' /\ TouchInv(p)'
<1>0. DiskOK
  BY TypeParts
<1>1. CASE ResolveStart(p)
  BY <1>0, <1>1, BegunFacts, HashedLock DEF ResolveStart, LabelInv, TouchInv
<1>2. CASE BuildStart(p)
  <2>1. NoFiles \in Files /\ \A t \in Tools : NoFiles[t] = None
    BY Parts DEF NoFiles
  <2>2. CASE plock = None
    BY <1>0, <1>2, <2>1, <2>2, BegunFacts, HashedLock DEF BuildStart, LabelInv, TouchInv, DiskOK, Listings
  <2>3. CASE plock # None
    <3>1. plock \in Locks /\ Listed(plock.entries) \subseteq Tools
      BY <1>0, <1>2, <2>3 DEF BuildStart, DiskOK, Listed
    <3> QED
      BY <1>2, <2>1, <2>3, <3>1, BegunFacts DEF BuildStart, LabelInv, TouchInv
  <2> QED
    BY <2>2, <2>3
<1>3. CASE ExportStart(p)
  BY <1>0, <1>3, BegunFacts DEF ExportStart, LabelInv, TouchInv, DiskOK
<1>4. CASE PackStart(p)
  <2>1. \A t \in Tools \ Listed(manifest) : manifest[t] # Partial
    BY AbsenceAssumption DEF Listed
  <2>2. (IF plock = Partial THEN None ELSE plock) \in Locks \cup {None}
    BY <1>0 DEF DiskOK
  <2> QED
    BY <1>0, <1>4, <2>1, <2>2, BegunFacts DEF PackStart, LabelInv, TouchInv
<1>5. CASE LoadStart(p)
  BY <1>0, <1>5, BegunFacts DEF LoadStart, Acceptable, LabelInv, TouchInv, Describes
<1>6. CASE UnpackStart(p)
  <2>1. layout.lock \in Locks \cup {None}
    BY <1>0, <1>6 DEF UnpackStart, DiskOK
  <2> QED
    BY <1>0, <1>6, <2>1, BegunFacts DEF UnpackStart, LabelInv, TouchInv
<1> QED
  BY <1>1, <1>2, <1>3, <1>4, <1>5, <1>6

LEMMA GoOnLabel ==
    ASSUME TypeOK, NEW p \in Procs, LabelInv(p), TouchInv(p),
           \/ Vouch(p) \/ LockTruncate(p) \/ LockWrite(p)
           \/ CopyStart(p) \/ CopyRefused(p) \/ CopyEnd(p) \/ Hash(p)
           \/ ManifestTruncate(p) \/ ManifestWrite(p)
           \/ ExportFile(p) \/ ExportEnd(p) \/ PackTool(p) \/ PackEnd(p)
           \/ Remove(p) \/ RenameToolbox(p)
           \/ ManifestRemove(p) \/ ManifestRename(p) \/ Crash(p)
    PROVE  LabelInv(p)' /\ TouchInv(p)'
<1>0. DiskOK /\ ProcOK
  BY TypeParts
<1>a. ASSUME Finish(p) \/ Fail(p) \/ Crash(p) PROVE LabelInv(p)' /\ TouchInv(p)'
  BY <1>a, GoneLabel DEF Finish, Fail, Crash
<1>1. CASE Vouch(p)
  <2>1. [heldLock[p] EXCEPT !.of = binfile] \in Locks
    BY <1>0, <1>1 DEF Vouch, LabelInv, DiskOK, Locks
  <2> QED
    BY <1>0, <1>1, <2>1 DEF Vouch, Goto, LabelInv, TouchInv, ProcOK, history
<1>2. CASE LockTruncate(p)
  BY <1>0, <1>2 DEF LockTruncate, Goto, LabelInv, TouchInv, ProcOK, history
<1>3. CASE LockWrite(p)
  <2>1. CASE op[p] = "build"
    BY <1>0, <1>3, <2>1 DEF LockWrite, Goto, LabelInv, TouchInv, ProcOK, history
  <2> QED
    BY <1>3, <2>1, <1>a DEF LockWrite
<1>4. CASE CopyStart(p)
  BY <1>0, <1>4 DEF CopyStart, Goto, Touch, LabelInv, TouchInv, ProcOK
<1>5. CASE CopyRefused(p)
  BY <1>5, <1>a DEF CopyRefused
<1>6. CASE CopyEnd(p)
  BY <1>0, <1>6 DEF CopyEnd, Goto, LabelInv, TouchInv, ProcOK, history
<1>7. CASE Hash(p)
  <2>1. CASE files[cur[p]] # None
    <3>1. cur[p] \in todo[p] /\ todo[p] \subseteq Tools /\ held[p] \in Files /\ op[p] = "build"
      BY <1>0, <1>7 DEF Hash, LabelInv, ProcOK
    <3>2. /\ held'[p] = [held[p] EXCEPT ![cur[p]] = files[cur[p]]]
          /\ todo'[p] = todo[p] \ {cur[p]}
          /\ op'[p] = "build" /\ heldLock'[p] = heldLock[p] /\ touched' = touched
      BY <1>0, <1>7, <2>1, <3>1 DEF Hash, ProcOK, history
    <3>3. \A t \in todo'[p] : held'[p][t] = None
      BY <3>1, <3>2, <1>7 DEF Hash, LabelInv, Files
    <3>4. pc'[p] \in {"manifest", "copy"} /\ (pc'[p] = "manifest" => todo'[p] = {})
      BY <1>0, <1>7, <2>1, <3>2 DEF Hash, Goto, ProcOK
    <3>5. heldLock[p] \in Locks /\ p \in touched
      BY <1>7 DEF Hash, LabelInv, TouchInv
    <3> QED
      BY <3>2, <3>3, <3>4, <3>5 DEF LabelInv, TouchInv
  <2> QED
    BY <1>7, <2>1, <1>a DEF Hash
<1>8. CASE ManifestTruncate(p)
  BY <1>0, <1>8 DEF ManifestTruncate, Goto, LabelInv, TouchInv, ProcOK, history
<1>9. CASE ManifestWrite(p)
  BY <1>9, <1>a DEF ManifestWrite
<1>10. CASE ExportFile(p)
  <2>1. op[p] = "export" /\ op'[p] = "export" /\ pc'[p] = pc[p] /\ heldLock'[p] = heldLock[p] /\ touched' = touched /\ cur' = cur
    BY <1>10 DEF ExportFile, history
  <2> QED
    BY <1>10, <2>1 DEF LabelInv, TouchInv
<1>11. CASE ExportEnd(p)
  BY <1>11, <1>a DEF ExportEnd
<1>12. CASE PackTool(p)
  <2>1. CASE ~Fail(p)
    <3>1. PICK t \in todo[p] : files[t] = held[p][t] /\ files[t] # Partial /\ todo' = [todo EXCEPT ![p] = @ \ {t}]
      BY <1>12, <2>1 DEF PackTool
    <3>2. op[p] = "pack" /\ op'[p] = "pack" /\ pc'[p] = pc[p] /\ heldLock'[p] = heldLock[p] /\ held'[p] = held[p] /\ touched' = touched /\ cur' = cur
      BY <1>12, <2>1 DEF PackTool, history
    <3>3. \A u \in Tools \ todo'[p] : held'[p][u] # Partial
      BY <1>0, <1>12, <3>1, <3>2 DEF PackTool, LabelInv, ProcOK
    <3> QED
      BY <1>12, <3>2, <3>3 DEF LabelInv, TouchInv
  <2> QED
    BY <2>1, <1>a
<1>13. CASE PackEnd(p)
  BY <1>13, <1>a DEF PackEnd
<1>14. CASE Remove(p)
  <2>1. UNCHANGED <<op, pc, cur, held, heldLock>> /\ pc[p] = "remove"
    BY <1>14 DEF Remove
  <2>2. op[p] \in {"load", "unpack"}
    BY <2>1 DEF LabelInv
  <2> QED
    BY <2>1, <2>2 DEF LabelInv, TouchInv, Describes
<1>15. CASE RenameToolbox(p)
  <2>1. CASE files = NoFiles
    <3>1. UNCHANGED <<op, todo, cur, held, heldLock>> /\ pc[p] = "remove" /\ p \in touched'
      BY <1>15, <2>1 DEF RenameToolbox, Touch
    <3>2. op[p] \in {"load", "unpack"} /\ pc'[p] = IF op[p] = "unpack" THEN "manifest_rm" ELSE "manifest_mv"
      BY <1>0, <1>15, <2>1, <3>1 DEF RenameToolbox, Goto, LabelInv, ProcOK
    <3> QED
      BY <3>1, <3>2 DEF LabelInv, TouchInv, Describes
  <2> QED
    BY <1>15, <2>1, <1>a DEF RenameToolbox
<1>16. CASE ManifestRemove(p)
  BY <1>0, <1>16 DEF ManifestRemove, Goto, LabelInv, TouchInv, ProcOK, history, Describes
<1>17. CASE ManifestRename(p)
  <2>1. CASE ~Finish(p)
    BY <1>0, <1>17, <2>1 DEF ManifestRename, Goto, LabelInv, TouchInv, ProcOK, history
  <2> QED
    BY <2>1, <1>a
<1>18. CASE Crash(p)
  BY <1>18, <1>a
<1> QED
  BY <1>1, <1>2, <1>3, <1>4, <1>5, <1>6, <1>7, <1>8, <1>9, <1>10, <1>11, <1>12, <1>13, <1>14, <1>15, <1>16, <1>17, <1>18

\* Every process keeps its place and what goes with it.
LEMMA TypedStep == Typed /\ [Next]_vars => Typed'
<1> SUFFICES ASSUME Typed, [Next]_vars PROVE Typed'
  OBVIOUS
<1>0. TypeOK /\ \A q \in Procs : LabelInv(q) /\ TouchInv(q)
  BY DEF Typed
<1>1. ASSUME NEW p \in Procs, Step(p) \/ Crash(p) PROVE Typed'
  <2>1. TypeOK'
    BY <1>0, <1>1, StepTypes
  <2>2. LabelInv(p)' /\ TouchInv(p)'
    BY <1>0, <1>1, BeginLabel, GoOnLabel DEF Step
  <2>3. ASSUME NEW q \in Procs, q # p PROVE LabelInv(q)' /\ TouchInv(q)'
    <3>1. Frame(p) /\ LabelInv(q) /\ TouchInv(q)
      BY <1>0, <1>1, StepFrame
    <3> QED
      BY <3>1, <2>3 DEF Frame, LabelInv, TouchInv, Describes
  <2> QED
    BY <2>1, <2>2, <2>3 DEF Typed
<1>2. CASE Edit
  <2>1. TypeOK' /\ UNCHANGED <<proc, touched>>
    BY <1>0, <1>2, EditTypes DEF Edit
  <2> QED
    BY <1>0, <2>1 DEF Typed, LabelInv, TouchInv, proc, Describes
<1>3. CASE UNCHANGED vars
  BY <1>0, <1>3, TypeParts DEF vars, disk, proc, bounds, history, Typed, LabelInv, TouchInv, DiskOK, ProcOK, BoundsOK, HistoryOK, Describes
<1> QED
  BY <1>1, <1>2, <1>3 DEF Next

----------------------------------------------------------------------------
(* Who may change the toolbox.                                             *)

\* What a step does to the process itself: it begins, ends or goes on.
Begun(p) ==
    /\ op[p] = None
    /\ op'[p] \in Writers => alone' \subseteq {p}
    /\ p \in alone' => Writing = {}
    /\ dirty' = dirty

GoesOn(p) ==
    /\ op'[p] = op[p]
    /\ UNCHANGED <<alone, dirty>>
    /\ p \in touched => p \in touched'

\* The last steps of the commands.
Ends(p) == LockWrite(p) \/ ManifestWrite(p) \/ ExportEnd(p) \/ PackEnd(p) \/ ManifestRename(p)

LEMMA Kinds ==
    ASSUME TypeOK, NEW p \in Procs, Step(p) \/ Crash(p)
    PROVE  Begun(p) \/ (Ends(p) /\ Finish(p)) \/ Fail(p) \/ Crash(p) \/ GoesOn(p)
<1>1. ASSUME NEW o, NEW s, NEW ts, NEW f, NEW l, Enter(p, o, s, ts, f, l) PROVE Begun(p)
  BY <1>1, BegunFacts DEF Begun
<1>2. CASE ResolveStart(p) \/ BuildStart(p) \/ ExportStart(p) \/ PackStart(p) \/ LoadStart(p) \/ UnpackStart(p)
  BY <1>1, <1>2 DEF ResolveStart, BuildStart, ExportStart, PackStart, LoadStart, UnpackStart
<1>3. CASE Vouch(p) \/ LockTruncate(p) \/ CopyStart(p) \/ CopyEnd(p) \/ ManifestTruncate(p)
           \/ ExportFile(p) \/ Remove(p) \/ ManifestRemove(p)
  BY <1>3 DEF Vouch, LockTruncate, CopyStart, CopyEnd, ManifestTruncate, ExportFile, Remove,
              ManifestRemove, GoesOn, history, Touch
<1>4. CASE LockWrite(p) \/ CopyRefused(p) \/ Hash(p) \/ ManifestWrite(p) \/ ExportEnd(p)
           \/ PackTool(p) \/ PackEnd(p) \/ RenameToolbox(p) \/ ManifestRename(p)
  BY <1>4 DEF LockWrite, CopyRefused, Hash, ManifestWrite, ExportEnd, PackTool, PackEnd,
              RenameToolbox, ManifestRename, GoesOn, Ends, history, Touch
<1> QED
  BY <1>2, <1>3, <1>4 DEF Step

LEMMA GoneFacts ==
    ASSUME TypeOK, NEW p \in Procs, Finish(p) \/ Fail(p) \/ Crash(p)
    PROVE  op'[p] = None /\ op'[p] \notin Writers /\ p \notin alone' /\ alone' \subseteq alone
<1>1. Leave(p)
  BY DEF Finish, Fail, Crash
<1> QED
  BY <1>1, AbsenceAssumption DEF Leave, TypeOK, Writers, AllOps

\* A process that is alone stays the only writer: whoever begins to write takes that
\* from all the others.
LEMMA AloneStep ==
    ASSUME TypeOK, TypeOK', AloneInv, NEW p \in Procs, Step(p) \/ Crash(p)
    PROVE  AloneInv'
<1> SUFFICES ASSUME NEW q \in alone', NEW r \in Procs, op'[r] \in Writers PROVE q = r
  BY DEF AloneInv
<1>0. Frame(p) /\ q \in Procs /\ (q # p => q \in alone)
  BY StepFrame DEF Frame, TypeOK
<1>1. CASE Begun(p)
  BY <1>0, <1>1 DEF Begun, Frame, AloneInv, Writing
<1>2. CASE Finish(p) \/ Fail(p) \/ Crash(p)
  BY <1>0, <1>2, GoneFacts DEF Frame, AloneInv
<1>3. CASE GoesOn(p)
  BY <1>0, <1>3 DEF GoesOn, Frame, AloneInv
<1> QED
  BY <1>1, <1>2, <1>3, Kinds

\* Only a writer changes the toolbox or its manifest.  It is then known to have touched
\* the toolbox, unless this was its last step.
LEMMA ChangeFacts ==
    ASSUME TypeOK, NEW p \in Procs, LabelInv(p), TouchInv(p), Step(p) \/ Crash(p),
           files' # files \/ manifest' # manifest
    PROVE  /\ op[p] \in Writers
           /\ \/ op'[p] = op[p] /\ p \in touched'
              \/ ManifestWrite(p) \/ (ManifestRename(p) /\ Finish(p))
<1>1. CopyStart(p) \/ CopyEnd(p) \/ Remove(p) \/ RenameToolbox(p) \/ ManifestTruncate(p)
      \/ ManifestWrite(p) \/ ManifestRemove(p) \/ ManifestRename(p)
  BY DEF Step, Crash, ResolveStart, BuildStart, ExportStart, PackStart, LoadStart, UnpackStart, Vouch,
         LockTruncate, LockWrite, CopyRefused, Hash, ExportFile, ExportEnd, PackTool, PackEnd, disk
<1>2. CASE CopyStart(p) \/ Remove(p)
  BY <1>2 DEF CopyStart, Remove, Touch, LabelInv, Writers
<1>3. CASE CopyEnd(p) \/ ManifestTruncate(p) \/ ManifestRemove(p)
  BY <1>3 DEF CopyEnd, ManifestTruncate, ManifestRemove, history, LabelInv, TouchInv, Writers
<1>4. CASE RenameToolbox(p)
  BY <1>4 DEF RenameToolbox, Touch, LabelInv, Writers
<1>5. CASE ManifestWrite(p)
  BY <1>5 DEF ManifestWrite, LabelInv, Writers
<1>6. CASE ManifestRename(p)
  BY <1>6 DEF ManifestRename, history, LabelInv, TouchInv, Writers
<1> QED
  BY <1>1, <1>2, <1>3, <1>4, <1>5, <1>6

\* The toolbox is sound unless a writer that has touched it is at work, failed or overlapped.
LEMMA SoundStep ==
    ASSUME Typed, ToolboxInv, NEW p \in Procs, Step(p) \/ Crash(p)
    PROVE  SoundInv'
<1> SUFFICES ASSUME ~dirty', \A q \in Writing' : q \notin touched' PROVE Sound'
  BY DEF SoundInv
<1>0. /\ TypeOK /\ LabelInv(p) /\ TouchInv(p) /\ Frame(p)
      /\ AloneInv /\ SoundInv /\ OwnInv(p)
  BY StepFrame DEF Typed, ToolboxInv
<1>1. CASE ManifestWrite(p) \/ (ManifestRename(p) /\ Finish(p))
  <2>2. p \in alone /\ WriterInv(p)
    <3>1. Finish(p) /\ op[p] \in Writers
      BY <1>0, <1>1 DEF ManifestWrite, ManifestRename, LabelInv, Writers
    <3> QED
      BY <1>0, <3>1 DEF Finish, OwnInv
  <2>3. held[p] \in Files
    BY <1>0 DEF TypeOK
  <2>4. CASE ManifestWrite(p)
    BY <1>0, <2>2, <2>3, <2>4 DEF ManifestWrite, LabelInv, WriterInv, Sound, Describes
  <2>5. CASE ManifestRename(p)
    <3>1. files' = held[p] /\ op[p] \in {"load", "unpack"}
      BY <1>0, <2>2, <2>5 DEF ManifestRename, LabelInv, WriterInv
    <3>2. manifest' \in Files /\ Describes(manifest', held[p])
      BY <1>0, <2>3, <2>5, <3>1 DEF ManifestRename, LabelInv, Describes
    <3> QED
      BY <3>1, <3>2 DEF Sound
  <2> QED
    BY <1>1, <2>4, <2>5
<1>2. CASE ~(ManifestWrite(p) \/ (ManifestRename(p) /\ Finish(p)))
  <2>0. UNCHANGED <<files, manifest>>
    BY <1>0, <1>2, ChangeFacts DEF Writing
  <2> SUFFICES Sound
    BY <2>0 DEF Sound, Describes
  <2>1. CASE Begun(p)
    <3>1. p \notin Writing
      BY <2>1, AbsenceAssumption DEF Begun, Writing, Writers, AllOps
    <3> QED
      BY <1>0, <2>1, <3>1 DEF Begun, SoundInv, Frame, Writing
  <2>2. CASE Fail(p) \/ Crash(p)
    <3>1. ~dirty /\ p \notin touched
      BY <2>2 DEF Fail, Crash
    <3> QED
      BY <1>0, <3>1 DEF SoundInv, Frame, Writing
  <2>3. CASE Finish(p) /\ op[p] \notin Writers
    BY <1>0, <2>3 DEF Finish, SoundInv, Frame, Writing
  <2>4. CASE Ends(p) /\ Finish(p) /\ op[p] \in Writers
    <3>1. WriterInv(p)
      BY <1>0, <2>4 DEF Finish, OwnInv
    <3>2. LockWrite(p)
      BY <1>2, <2>4 DEF Ends, ExportEnd, PackEnd, Writers
    <3>3. op[p] = "unpack"
      <4>1. op'[p] # op[p]
        BY <1>0, <2>4, GoneFacts
      <4> QED
        BY <1>0, <2>4, <3>2, <4>1 DEF LockWrite, LabelInv, Writers
    <3> QED
      BY <3>1, <3>2, <3>3 DEF LockWrite, WriterInv
  <2>5. CASE GoesOn(p)
    BY <1>0, <2>5 DEF GoesOn, SoundInv, Frame, Writing
  <2> QED
    BY <1>0, <2>1, <2>2, <2>3, <2>4, <2>5, Kinds
<1> QED
  BY <1>1, <1>2

\* What a process that is alone knows is not disturbed by another one's step.
LEMMA OthersOwn ==
    ASSUME Typed, ToolboxInv, NEW p \in Procs, Step(p) \/ Crash(p), NEW q \in Procs, q # p
    PROVE  OwnInv(q)'
<1> SUFFICES ASSUME q \in alone' PROVE WriterInv(q)' /\ BuildInv(q)' /\ ExportInv(q)'
  BY DEF OwnInv
<1>0. TypeOK /\ LabelInv(p) /\ TouchInv(p) /\ Frame(p) /\ AloneInv
  BY StepFrame DEF Typed, ToolboxInv
<1>1. q \in alone /\ WriterInv(q) /\ BuildInv(q) /\ ExportInv(q)
  BY <1>0 DEF Frame, ToolboxInv, OwnInv
<1>2. op[p] \notin Writers
  BY <1>0, <1>1 DEF AloneInv
<1>3. UNCHANGED <<files, manifest>>
  BY <1>0, <1>2, ChangeFacts
<1>4. ~dirty' => ~dirty
  BY <1>0, <1>2, Kinds DEF Begun, Finish, Fail, Crash, GoesOn
<1>5. WriterInv(q)'
  BY <1>0, <1>1, <1>3 DEF Frame, WriterInv, Sound, Describes
<1>6. BuildInv(q)'
  BY <1>0, <1>1, <1>3 DEF Frame, BuildInv, Names
<1>7. ExportInv(q)'
  BY <1>0, <1>1, <1>3, <1>4 DEF Frame, ExportInv
<1> QED
  BY <1>5, <1>6, <1>7

\* A process that begins alone finds the toolbox of a writer that was alone, if any.
LEMMA OwnBegins ==
    ASSUME Typed, ToolboxInv, NEW p \in Procs, p \in alone',
           \/ ResolveStart(p) \/ BuildStart(p) \/ ExportStart(p)
           \/ PackStart(p) \/ LoadStart(p) \/ UnpackStart(p)
    PROVE  OwnInv(p)'
<1>0. TypeOK /\ DiskOK /\ SoundInv /\ LockInv
  BY TypeParts DEF Typed, ToolboxInv
<1>1. CASE ResolveStart(p)
  BY <1>0, <1>1, BegunFacts DEF ResolveStart, OwnInv, WriterInv, BuildInv, ExportInv
<1>2. CASE BuildStart(p)
  <2>1. Listed(NoFiles) = {} /\ \A t \in Tools : NoFiles[t] = None
    BY DEF NoFiles, Listed
  <2>2. /\ UNCHANGED <<files, binfile, source, crossed>>
        /\ held'[p] = NoFiles /\ pc'[p] \in {"vouch", "copy"} /\ op'[p] = "build"
    <3>1. UNCHANGED <<files, binfile, source, crossed>>
      BY <1>0, <1>2, StepFrame DEF BuildStart, disk, Step, Frame
    <3>2. held'[p] = NoFiles /\ pc'[p] \in {"vouch", "copy"} /\ op'[p] = "build"
      BY <1>0, <1>2, BegunFacts DEF BuildStart
    <3> QED
      BY <3>1, <3>2
  <2>3. WriterInv(p)' /\ ExportInv(p)'
    BY <2>1, <2>2 DEF WriterInv, ExportInv
  <2>4. Names(heldLock[p])' /\ \A t \in Tools \ todo'[p] : heldLock'[p].entries[t] = None
    <3>1. CASE plock = None
      <4>1. heldLock'[p] = Hashed /\ todo'[p] = binfile
        BY <1>0, <1>2, <3>1, BegunFacts DEF BuildStart
      <4>2. \A t \in Tools : Hashed.entries[t] = (IF t \in binfile THEN source[t] ELSE None)
        BY DEF Hashed
      <4>3. Listed(Hashed.entries) = binfile
        BY <1>0, <4>2, AbsenceAssumption DEF Listed, DiskOK, Listings
      <4> QED
        BY <2>2, <4>1, <4>2, <4>3 DEF Names, Listed
    <3>2. CASE plock # None
      <4>1. heldLock'[p] = plock /\ todo'[p] = Listed(plock.entries) /\ plock # Partial /\ plock.of = binfile
        BY <1>0, <1>2, <3>2, BegunFacts DEF BuildStart
      <4>2. Listed(plock.entries) = binfile \/ crossed
        BY <1>0, <3>2, <4>1 DEF LockInv, LockOK
      <4> QED
        BY <2>2, <4>1, <4>2 DEF Names, Listed
    <3> QED
      BY <3>1, <3>2
  <2>5. BuildInv(p)'
    BY <2>1, <2>2, <2>4 DEF BuildInv, Names
  <2> QED
    BY <2>3, <2>5 DEF OwnInv
<1>3. CASE ExportStart(p)
  <2>1. /\ UNCHANGED files /\ op'[p] = "export" /\ pc'[p] = "gather" /\ heldLock'[p] = manifest
        /\ todo'[p] = Tools /\ dirty' = dirty /\ Writing = {} /\ manifest # None
    BY <1>0, <1>3, BegunFacts DEF ExportStart
  <2>2. ~dirty => manifest \in Files /\ Describes(manifest, files)
    BY <1>0, <2>1 DEF SoundInv, Sound
  <2>3. WriterInv(p)' /\ BuildInv(p)'
    BY <2>1 DEF WriterInv, BuildInv
  <2>4. ExportInv(p)'
    BY <2>1, <2>2 DEF ExportInv, Describes, Listed
  <2> QED
    BY <2>3, <2>4 DEF OwnInv
<1>4. CASE PackStart(p)
  BY <1>0, <1>4, BegunFacts DEF PackStart, OwnInv, WriterInv, BuildInv, ExportInv
<1>5. CASE LoadStart(p)
  BY <1>0, <1>5, BegunFacts DEF LoadStart, disk, OwnInv, WriterInv, BuildInv, ExportInv, Present, Listed
<1>6. CASE UnpackStart(p)
  BY <1>0, <1>6, BegunFacts DEF UnpackStart, disk, OwnInv, WriterInv, BuildInv, ExportInv, Present, Listed
<1> QED
  BY <1>1, <1>2, <1>3, <1>4, <1>5, <1>6

\* A process that is alone and goes on finds the toolbox as it has left it.
LEMMA OwnGoesOn ==
    ASSUME Typed, Typed', ToolboxInv, NEW p \in Procs, p \in alone',
           \/ Vouch(p) \/ LockTruncate(p) \/ LockWrite(p)
           \/ CopyStart(p) \/ CopyRefused(p) \/ CopyEnd(p) \/ Hash(p)
           \/ ManifestTruncate(p) \/ ManifestWrite(p)
           \/ ExportFile(p) \/ ExportEnd(p) \/ PackTool(p) \/ PackEnd(p)
           \/ Remove(p) \/ RenameToolbox(p)
           \/ ManifestRemove(p) \/ ManifestRename(p) \/ Crash(p)
    PROVE  OwnInv(p)'
<1>0. TypeOK /\ DiskOK /\ ProcOK /\ LabelInv(p) /\ LabelInv(p)' /\ OwnInv(p)
  BY TypeParts DEF Typed, ToolboxInv
<1>a. ~Finish(p) /\ ~Fail(p) /\ ~Crash(p)
  BY <1>0, GoneFacts
<1> SUFFICES ASSUME p \in alone, WriterInv(p), BuildInv(p), ExportInv(p)
             PROVE  WriterInv(p)' /\ BuildInv(p)' /\ ExportInv(p)'
  <2>1. p \in alone
    BY <1>a DEF Vouch, LockTruncate, LockWrite, CopyStart, CopyRefused, CopyEnd, Hash, ManifestTruncate,
           ManifestWrite, ExportFile, ExportEnd, PackTool, PackEnd, Remove, RenameToolbox,
           ManifestRemove, ManifestRename, history, Touch
  <2> QED
    BY <1>0, <2>1 DEF OwnInv
<1>1. CASE Vouch(p)
  <2>1. /\ UNCHANGED <<files, binfile, source, crossed, op, todo, held, steady, dirty>>
        /\ op[p] \in {"resolve", "build"} /\ pc[p] = "vouch" /\ pc'[p] = "lock"
        /\ heldLock'[p].entries = heldLock[p].entries
    BY <1>0, <1>1 DEF Vouch, Goto, LabelInv, ProcOK, disk, history, Locks
  <2> QED
    BY <2>1 DEF WriterInv, BuildInv, ExportInv, Names
<1>2. CASE LockTruncate(p)
  <2>1. /\ UNCHANGED <<files, manifest, binfile, source, crossed, op, todo, held, heldLock, steady, dirty>>
        /\ op[p] \in {"resolve", "build", "unpack"} /\ pc[p] = "lock" /\ pc'[p] = "lock2"
    BY <1>0, <1>2 DEF LockTruncate, Goto, LabelInv, ProcOK, history
  <2> QED
    BY <2>1 DEF WriterInv, BuildInv, ExportInv, Names, Sound, Describes
<1>3. CASE LockWrite(p)
  <2>1. /\ UNCHANGED <<files, binfile, source, crossed, op, todo, held, heldLock, steady, dirty>>
        /\ op[p] = "build" /\ pc'[p] = "copy"
    BY <1>0, <1>3, <1>a DEF LockWrite, Goto, ProcOK, history
  <2> QED
    BY <2>1 DEF WriterInv, BuildInv, ExportInv, Names
<1>4. CASE CopyStart(p)
  <2>1. PICK t \in todo[p] : /\ source[t] = heldLock[p].entries[t]
                             /\ files' = [files EXCEPT ![t] = Partial]
                             /\ cur' = [cur EXCEPT ![p] = t]
    BY <1>4 DEF CopyStart
  <2>2. /\ UNCHANGED <<binfile, source, crossed, op, todo, held, heldLock, steady, dirty>>
        /\ op[p] = "build" /\ pc'[p] = "copying" /\ cur'[p] = t /\ t \in Tools /\ files'[t] = Partial
        /\ held[p][t] = None /\ \A u \in Tools \ {t} : files'[u] = files[u]
    BY <1>0, <1>4, <2>1 DEF CopyStart, Goto, Touch, LabelInv, ProcOK, DiskOK, Files
  <2> QED
    BY <2>1, <2>2 DEF WriterInv, BuildInv, ExportInv, Names, Listed
<1>5. CASE CopyEnd(p)
  <2>1. /\ UNCHANGED <<binfile, source, crossed, op, todo, held, heldLock, cur, steady, dirty>>
        /\ op[p] = "build" /\ pc[p] = "copying" /\ pc'[p] = "hash" /\ cur[p] \in todo[p] /\ cur[p] \in Tools
        /\ held[p][cur[p]] = None /\ \A u \in Tools \ {cur[p]} : files'[u] = files[u]
    BY <1>0, <1>5 DEF CopyEnd, Goto, LabelInv, ProcOK, DiskOK, history, Files
  <2>2. files[cur[p]] = Partial => files'[cur[p]] = source[cur[p]]
    BY <1>0, <1>5, <2>1, AbsenceAssumption DEF CopyEnd, DiskOK, Files
  <2> QED
    BY <2>1, <2>2 DEF WriterInv, BuildInv, ExportInv, Names, Listed
<1>6. CASE Hash(p)
  <2>1. /\ UNCHANGED <<files, binfile, source, crossed, op, heldLock, steady, dirty>>
        /\ op[p] = "build" /\ pc[p] = "hash" /\ pc'[p] \in {"copy", "manifest"} /\ cur[p] \in Tools
        /\ todo'[p] = todo[p] \ {cur[p]} /\ held'[p][cur[p]] = files[cur[p]]
        /\ \A u \in Tools \ {cur[p]} : held'[p][u] = held[p][u]
    BY <1>0, <1>6, <1>a DEF Hash, Goto, LabelInv, ProcOK, disk, history, Files
  <2> QED
    BY <2>1 DEF WriterInv, BuildInv, ExportInv, Names, Listed
<1>7. CASE ManifestTruncate(p)
  <2>1. /\ UNCHANGED <<files, binfile, source, crossed, op, todo, held, heldLock, steady, dirty>>
        /\ op[p] = "build" /\ pc'[p] = "manifest2"
    BY <1>0, <1>7 DEF ManifestTruncate, Goto, LabelInv, ProcOK, history
  <2> QED
    BY <2>1 DEF WriterInv, BuildInv, ExportInv, Names
<1>8. CASE ExportFile(p)
  <2>1. PICK t \in todo[p] : /\ held' = [held EXCEPT ![p][t] = files[t]]
                             /\ todo' = [todo EXCEPT ![p] = @ \ {t}]
    BY <1>8 DEF ExportFile
  <2>2. /\ UNCHANGED <<files, op, pc, heldLock, dirty>> /\ op[p] = "export"
        /\ todo'[p] = todo[p] \ {t} /\ t \in Tools /\ held'[p][t] = files[t]
        /\ \A u \in Tools \ {t} : held'[p][u] = held[p][u]
    BY <1>0, <1>8, <2>1 DEF ExportFile, ProcOK, disk, history, Files
  <2> QED
    BY <1>0, <2>1, <2>2 DEF WriterInv, BuildInv, ExportInv, LabelInv, Listed
<1>9. CASE PackTool(p)
  <2>1. op[p] = "pack" /\ op'[p] = "pack"
    BY <1>9, <1>a DEF PackTool
  <2> QED
    BY <1>0, <2>1 DEF WriterInv, BuildInv, ExportInv, LabelInv
<1>10. CASE Remove(p)
  <2>1. PICK t \in todo[p] : /\ files' = [files EXCEPT ![t] = None]
                             /\ todo' = [todo EXCEPT ![p] = @ \ {t}]
    BY <1>10 DEF Remove
  <2>2. /\ UNCHANGED <<op, pc>> /\ pc[p] = "remove" /\ op[p] \in {"load", "unpack"}
        /\ todo'[p] = todo[p] \ {t} /\ t \in Tools /\ files'[t] = None
        /\ \A u \in Tools \ {t} : files'[u] = files[u]
    BY <1>0, <1>10, <2>1 DEF Remove, LabelInv, ProcOK, DiskOK, Files
  <2> QED
    BY <2>1, <2>2 DEF WriterInv, BuildInv, ExportInv
<1>11. CASE RenameToolbox(p)
  <2>1. /\ files' = held'[p] /\ op'[p] \in {"load", "unpack"} /\ pc'[p] \in {"manifest_rm", "manifest_mv"}
    BY <1>0, <1>11, <1>a DEF RenameToolbox, Goto, LabelInv, ProcOK
  <2> QED
    BY <2>1 DEF WriterInv, BuildInv, ExportInv
<1>12. CASE ManifestRemove(p)
  <2>1. UNCHANGED <<files, held, op>> /\ op[p] = "unpack" /\ pc[p] = "manifest_rm" /\ pc'[p] = "manifest_mv"
    BY <1>0, <1>12 DEF ManifestRemove, Goto, LabelInv, ProcOK
  <2> QED
    BY <2>1 DEF WriterInv, BuildInv, ExportInv
<1>13. CASE ManifestRename(p)
  <2>1. /\ UNCHANGED <<files, held, op>> /\ op[p] = "unpack" /\ pc[p] = "manifest_mv" /\ pc'[p] = "lock"
        /\ manifest' = held[p] /\ held[p] \in Files
    BY <1>0, <1>13, <1>a DEF ManifestRename, Goto, ProcOK
  <2>2. Sound'
    BY <2>1 DEF WriterInv, Sound, Describes
  <2> QED
    BY <2>1, <2>2 DEF WriterInv, BuildInv, ExportInv
<1> QED
  BY <1>1, <1>2, <1>3, <1>4, <1>5, <1>6, <1>7, <1>8, <1>9, <1>10, <1>11, <1>12, <1>13, <1>a
     DEF CopyRefused, ManifestWrite, ExportEnd, PackEnd

\* The locks that are made and passed on.
LEMMA LockStep ==
    ASSUME Typed, Typed', ToolboxInv, NEW p \in Procs, Step(p) \/ Crash(p)
    PROVE  LockInv'
<1>0. TypeOK /\ DiskOK /\ ProcOK /\ LabelInv(p) /\ Frame(p) /\ LockInv
  BY StepFrame, TypeParts DEF Typed, ToolboxInv
<1>1. \A l : LockOK(l) => LockOK(l)'
  BY <1>0 DEF Frame, LockOK, Listed
<1>2. LockOK(None) /\ LockOK(Partial)
  BY DEF LockOK
<1>3. LockOK(plock)' /\ (layout' \notin {None, Partial} => LockOK(layout.lock)')
  <2>1. CASE LockTruncate(p)
    BY <1>0, <1>1, <1>2, <2>1 DEF LockTruncate, LockInv
  <2>2. CASE LockWrite(p)
    <3>1. LockOK(heldLock[p]) /\ plock' = heldLock[p] /\ UNCHANGED layout
      BY <1>0, <2>2 DEF LockWrite, LabelInv, LockInv
    <3> QED
      BY <1>0, <1>1, <3>1 DEF LockInv, LockOK
  <2>3. CASE PackStart(p)
    BY <1>0, <1>1, <2>3 DEF PackStart, LockInv, LockOK
  <2>4. CASE PackEnd(p)
    <3>1. LockOK(heldLock[p]) /\ layout'.lock = heldLock[p] /\ UNCHANGED plock
      BY <1>0, <2>4 DEF PackEnd, LabelInv, LockInv
    <3> QED
      BY <1>0, <1>1, <3>1 DEF LockInv, LockOK
  <2>5. CASE UNCHANGED <<plock, layout>>
    BY <1>0, <1>1, <2>5 DEF LockInv, LockOK
  <2> QED
    BY <2>1, <2>2, <2>3, <2>4, <2>5
       DEF Step, Crash, ResolveStart, Vouch, BuildStart, CopyStart, CopyRefused, CopyEnd, Hash,
           ManifestTruncate, ManifestWrite, ExportStart, ExportFile, ExportEnd, PackTool, LoadStart,
           UnpackStart, Remove, RenameToolbox, ManifestRemove, ManifestRename, disk
<1>4. /\ pc'[p] = "vouch" => Names(heldLock[p])'
      /\ op'[p] \in {"resolve", "build", "pack", "unpack"} /\ pc'[p] # "vouch" => LockOK(heldLock[p])'
  <2>1. CASE op'[p] = None
    BY <1>0, <2>1, AbsenceAssumption DEF Typed, LabelInv, AllOps
  <2>2. CASE ResolveStart(p) \/ (BuildStart(p) /\ plock = None)
    <3>1. pc'[p] = "vouch" /\ heldLock'[p] = Hashed /\ UNCHANGED <<binfile, source, crossed>>
      BY <1>0, <2>2, BegunFacts DEF ResolveStart, BuildStart, Frame
    <3>2. Listed(Hashed.entries) = binfile
      BY <1>0, AbsenceAssumption DEF Hashed, Listed, DiskOK, Listings
    <3> QED
      BY <3>1, <3>2 DEF Names, Listed
  <2>3. CASE BuildStart(p) /\ plock # None
    BY <1>0, <1>1, <2>3, BegunFacts DEF BuildStart, LockInv
  <2>4. CASE PackStart(p)
    BY <1>0, <1>1, <1>2, <2>4, BegunFacts DEF PackStart, LockInv
  <2>5. CASE UnpackStart(p)
    BY <1>0, <1>1, <2>5, BegunFacts DEF UnpackStart, LockInv
  <2>6. CASE ExportStart(p) \/ LoadStart(p)
    BY <1>0, <2>6, BegunFacts DEF ExportStart, LoadStart
  <2>7. CASE Vouch(p)
    <3>1. heldLock[p] \in Locks /\ Names(heldLock[p])
      BY <1>0, <2>7 DEF Vouch, LabelInv, LockInv
    <3>2. heldLock'[p].of = binfile /\ heldLock'[p].entries = heldLock[p].entries /\ pc'[p] = "lock"
      BY <1>0, <2>7, <3>1 DEF Vouch, Goto, ProcOK, Locks
    <3>3. UNCHANGED <<binfile, crossed>>
      BY <1>0 DEF Frame
    <3> QED
      BY <3>1, <3>2, <3>3 DEF Names, LockOK, Listed
  <2>8. CASE UNCHANGED <<op, heldLock>> /\ pc[p] # "vouch" /\ pc'[p] # "vouch"
    BY <1>0, <1>1, <2>8 DEF LockInv
  <2>9. CASE UNCHANGED <<op, heldLock, pc>>
    BY <1>0, <1>1, <2>9 DEF LockInv, Frame, Names, Listed
  <2>10. ASSUME Finish(p) \/ Fail(p) \/ Crash(p) PROVE op'[p] = None
    BY <1>0, <2>10, GoneFacts
  <2> QED
    BY <1>0, <2>1, <2>2, <2>3, <2>4, <2>5, <2>6, <2>7, <2>8, <2>9, <2>10
       DEF Step, Crash, LockTruncate, LockWrite, CopyStart, CopyRefused, CopyEnd, Hash,
           ManifestTruncate, ManifestWrite, ExportFile, ExportEnd, PackTool, PackEnd,
           Remove, RenameToolbox, ManifestRemove, ManifestRename, Goto, ProcOK
<1>5. ASSUME NEW q \in Procs, q # p
      PROVE  /\ pc'[q] = "vouch" => Names(heldLock[q])'
             /\ op'[q] \in {"resolve", "build", "pack", "unpack"} /\ pc'[q] # "vouch" => LockOK(heldLock[q])'
  BY <1>0, <1>1, <1>5 DEF LockInv, Frame, Names, Listed
<1> QED
  BY <1>3, <1>4, <1>5 DEF LockInv

\* An export that ran alone on a sound toolbox has gathered it all.
LEMMA ExportStep ==
    ASSUME Typed, Typed', ToolboxInv, NEW p \in Procs, Step(p) \/ Crash(p)
    PROVE  ExportsCanBeLoaded'
<1>0. TypeOK /\ ProcOK /\ OwnInv(p) /\ ExportsCanBeLoaded
  BY TypeParts DEF Typed, ToolboxInv
<1>1. CASE UNCHANGED archive
  BY <1>0, <1>1 DEF ExportsCanBeLoaded, Acceptable, Describes, Listed
<1>2. CASE ExportStart(p)
  BY <1>2 DEF ExportStart, ExportsCanBeLoaded
<1>3. CASE ExportEnd(p)
  <2>1. archive' = [manifest |-> heldLock[p], files |-> held[p], sound |-> p \in alone /\ ~dirty]
    BY <1>3 DEF ExportEnd
  <2>2. held[p] \in Files
    BY <1>0 DEF ProcOK
  <2>3. ASSUME p \in alone, ~dirty PROVE heldLock[p] \in Files /\ Describes(heldLock[p], held[p])
    BY <1>0, <1>3, <2>3 DEF ExportEnd, OwnInv, ExportInv, Describes
  <2>4. ASSUME archive'.sound PROVE Acceptable(archive)'
    BY <2>1, <2>2, <2>3, <2>4 DEF Acceptable, Describes, Listed
  <2> QED
    BY <2>4 DEF ExportsCanBeLoaded
<1> QED
  BY <1>1, <1>2, <1>3
     DEF Step, Crash, ResolveStart, Vouch, LockTruncate, LockWrite, BuildStart, CopyStart, CopyRefused, CopyEnd,
         Hash, ManifestTruncate, ManifestWrite, ExportFile, PackStart, PackTool, PackEnd, LoadStart,
         UnpackStart, Remove, RenameToolbox, ManifestRemove, ManifestRename, disk

\* An edit disturbs the builds it meets, and is remembered by a lock in the making.
LEMMA EditStep ==
    ASSUME Typed, ToolboxInv, Edit
    PROVE  ToolboxInv'
<1>1. /\ UNCHANGED <<files, manifest, plock, archive, layout, proc, alone, touched, dirty>>
      /\ steady' = {} /\ (crossed => crossed')
  <2>1. crossed \in BOOLEAN
    BY DEF Typed, TypeOK
  <2>2. crossed => crossed'
    BY <2>1 DEF Edit
  <2> QED
    BY <2>2 DEF Edit
<1>2. AloneInv' /\ SoundInv' /\ ExportsCanBeLoaded'
  BY <1>1 DEF ToolboxInv, AloneInv, SoundInv, Sound, Writing, ExportsCanBeLoaded, Acceptable, Describes, Listed, proc
<1>3. ASSUME NEW p \in Procs PROVE OwnInv(p)'
  <2>1. OwnInv(p)
    BY DEF ToolboxInv
  <2> QED
    BY <1>1, <2>1 DEF OwnInv, WriterInv, BuildInv, ExportInv, Sound, Describes, proc
<1>4. LockInv'
  <2>1. \A l : LockOK(l) => LockOK(l)'
    BY <1>1 DEF LockOK, Listed
  <2>2. \A p \in Procs : pc[p] = "vouch" => binfile' = binfile \/ crossed'
    BY DEF Edit
  <2> QED
    BY <1>1, <2>1, <2>2 DEF ToolboxInv, LockInv, LockOK, Names, Listed, proc
<1> QED
  BY <1>2, <1>3, <1>4 DEF ToolboxInv

\* The invariant holds at first: nothing runs.
LEMMA Initially == Init => Typed /\ ToolboxInv
<1> SUFFICES ASSUME Init PROVE Typed /\ ToolboxInv
  OBVIOUS
<1>1. \A f \in Uniform : f \in Files /\ f \in Whole /\ f \in [Tools -> Versions] /\ LockOf(f) \in Locks
  <2> SUFFICES ASSUME NEW f \in Uniform PROVE f \in Files /\ f \in Whole /\ f \in [Tools -> Versions] /\ LockOf(f) \in Locks
    OBVIOUS
  <2>1. f \in Files /\ f \in Whole /\ f \in [Tools -> Versions]
    BY DEF Uniform, Files, Whole, Content
  <2>2. Listed(f) = Tools
    BY <2>1, AbsenceAssumption DEF Listed
  <2> QED
    BY <2>1, <2>2, ToolboxAssumption DEF LockOf, Locks, Listings
<1>2. NoFiles \in Files
  BY Parts
<1>3. DiskOK
  <2>1. binfile \in Listings /\ source \in [Tools -> Versions]
    BY <1>1, ToolboxAssumption DEF Init, Listings
  <2>2. files \in Files /\ manifest \in Files \cup {None, Partial} /\ plock \in Locks \cup {None, Partial}
    BY <1>1, <1>2 DEF Init
  <2>3. archive \in {None, Partial}
                    \cup [manifest : Files \cup {Partial}, files : Files, sound : BOOLEAN]
    <3>1. CASE archive = None
      BY <3>1
    <3>2. CASE \E f \in Uniform : archive = [manifest |-> f, files |-> f, sound |-> TRUE]
      BY <1>1, <3>2
    <3> QED
      BY <3>1, <3>2 DEF Init
  <2>4. layout \in {None, Partial} \cup [files : Whole, lock : Locks \cup {None}]
    BY <1>1 DEF Init
  <2> QED
    BY <2>1, <2>2, <2>3, <2>4 DEF DiskOK
<1>4. ProcOK /\ BoundsOK /\ HistoryOK
  <2>1. ProcOK
    BY <1>2 DEF Init, ProcOK, Steps
  <2>2. BoundsOK
    BY ToolboxAssumption DEF Init, BoundsOK
  <2>3. HistoryOK
    BY DEF Init, HistoryOK
  <2> QED
    BY <2>1, <2>2, <2>3
<1>5. \A p \in Procs : op[p] = None /\ pc[p] = "idle" /\ p \notin alone
  BY DEF Init
<1>6. Typed
  BY <1>3, <1>4, <1>5, TypeParts, AbsenceAssumption DEF Typed, LabelInv, TouchInv, AllOps
<1>7. SoundInv
  BY <1>1 DEF Init, SoundInv, Sound, Describes
<1>8. ExportsCanBeLoaded
  <2> SUFFICES ASSUME archive # None PROVE Acceptable(archive)
    BY DEF ExportsCanBeLoaded
  <2>1. PICK f \in Uniform : archive = [manifest |-> f, files |-> f, sound |-> TRUE]
    BY DEF Init
  <2>2. archive.manifest = f /\ archive.files = f
    BY <2>1
  <2>3. archive \in [manifest : Files, files : Files, sound : BOOLEAN]
    BY <1>1, <2>1
  <2> QED
    BY <2>2, <2>3 DEF Acceptable, Describes
<1>9. LockInv
  <2>1. \A f : LockOK(LockOf(f))
    BY DEF LockOK, LockOf
  <2>2. LockOK(None)
    BY DEF LockOK
  <2>3. LockOK(plock) /\ (layout \notin {None, Partial} => LockOK(layout.lock))
    BY <2>1, <2>2 DEF Init
  <2> QED
    BY <1>5, <2>3, AbsenceAssumption DEF LockInv, AllOps
<1>10. AloneInv /\ \A p \in Procs : OwnInv(p)
  BY <1>5 DEF Init, AloneInv, OwnInv
<1> QED
  BY <1>6, <1>7, <1>8, <1>9, <1>10 DEF ToolboxInv

\* The inductive invariant.
LEMMA Always == Spec => [](Typed /\ ToolboxInv)
<1>1. Typed /\ ToolboxInv /\ [Next]_vars => (Typed /\ ToolboxInv)'
  <2> SUFFICES ASSUME Typed, ToolboxInv, [Next]_vars PROVE Typed' /\ ToolboxInv'
    OBVIOUS
  <2>1. Typed'
    BY TypedStep
  <2>2. ASSUME NEW p \in Procs, Step(p) \/ Crash(p) PROVE ToolboxInv'
    <3>1. AloneInv'
      BY <2>1, <2>2, AloneStep DEF Typed, ToolboxInv
    <3>2. SoundInv'
      BY <2>2, SoundStep
    <3>3. ASSUME p \in alone' PROVE OwnInv(p)'
      BY <2>1, <2>2, <3>3, OwnBegins, OwnGoesOn DEF Step
    <3>4. OwnInv(p)'
      BY <3>3 DEF OwnInv
    <3>5. \A q \in Procs : OwnInv(q)'
      BY <2>2, <3>4, OthersOwn
    <3>6. ExportsCanBeLoaded' /\ LockInv'
      BY <2>1, <2>2, ExportStep, LockStep
    <3> QED
      BY <3>1, <3>2, <3>5, <3>6 DEF ToolboxInv
  <2>3. CASE UNCHANGED vars
    <3>1. UNCHANGED disk /\ UNCHANGED proc /\ UNCHANGED history
      BY <2>3 DEF vars
    <3>2. AloneInv' /\ SoundInv' /\ ExportsCanBeLoaded'
      BY <3>1 DEF disk, proc, history, ToolboxInv, AloneInv, SoundInv, Sound, Writing, ExportsCanBeLoaded,
                  Acceptable, Describes, Listed
    <3>3. ASSUME NEW p \in Procs PROVE OwnInv(p)'
      <4>1. OwnInv(p)
        BY DEF ToolboxInv
      <4> QED
        BY <3>1, <4>1 DEF disk, proc, history, OwnInv, WriterInv, Sound, Describes, BuildInv, Names, ExportInv, Listed
    <3>4. LockInv'
      BY <3>1 DEF disk, proc, history, ToolboxInv, LockInv, LockOK, Names, Listed
    <3> QED
      BY <2>1, <3>2, <3>3, <3>4 DEF ToolboxInv
  <2>4. CASE Edit
    BY <2>1, <2>4, EditStep
  <2> QED
    BY <2>1, <2>2, <2>3, <2>4 DEF Next
<1> QED
  BY <1>1, Initially, PTL DEF Spec

----------------------------------------------------------------------------
(* Theorems.                                                               *)

\* Every file, manifest, lock, archive and layout is one of the kinds the commands expect.
THEOREM ToolboxTypeCorrect == Spec => []TypeOK
<1>1. Typed => TypeOK
  BY DEF Typed
<1> QED
  BY <1>1, Always, PTL

\* Whatever failed or died before, the toolbox is the one its manifest describes from the
\* end of a build, load or unpack that ran alone until a writer fails, dies or overlaps.
THEOREM ManifestAlwaysTrue == Spec => []ManifestIsTrue
<1>1. ToolboxInv => ManifestIsTrue
  BY DEF ToolboxInv, SoundInv, Sound, ManifestIsTrue
<1> QED
  BY <1>1, Always, PTL

\* An export that met no writer, of a toolbox in which no writer had failed, can be loaded:
\* load refuses nothing that export has made.
THEOREM ExportsCanAlwaysBeLoaded == Spec => []ExportsCanBeLoaded
<1>1. ToolboxInv => ExportsCanBeLoaded
  BY DEF ToolboxInv
<1> QED
  BY <1>1, Always, PTL

\* A build that had the project to itself records the hashes its lock promised, for the tools
\* the Binfile lists, unless the Binfile was edited while a lock was made from it.
THEOREM BuildsFollowLock == Spec => []BuildFollowsLock
<1>1. Typed /\ ToolboxInv => BuildFollowsLock
  <2> SUFFICES ASSUME Typed, ToolboxInv, NEW p \in Procs, op[p] = "build",
                      pc[p] \in {"manifest", "manifest2"}, p \in alone \cap steady
               PROVE  held[p] = heldLock[p].entries /\ (Listed(held[p]) = binfile \/ crossed)
    BY DEF BuildFollowsLock
  <2>1. todo[p] = {} /\ heldLock[p] \in Locks /\ held[p] \in Files
    BY DEF Typed, LabelInv, TypeOK
  <2>2. Names(heldLock[p]) /\ \A t \in Tools : held[p][t] = heldLock[p].entries[t]
    BY <2>1 DEF ToolboxInv, OwnInv, BuildInv
  <2>3. held[p] = heldLock[p].entries
    BY <2>1, <2>2 DEF Locks, Whole, Files
  <2> QED
    BY <2>2, <2>3 DEF Names
<1> QED
  BY <1>1, Always, PTL

\* A load or unpack that is alone always finds the place of the toolbox empty when it renames
\* the new one into it.
THEOREM InstallsNeverObstructed == Spec => []InstallsAreNotObstructed
<1>1. Typed /\ ToolboxInv => InstallsAreNotObstructed
  BY DEF Typed, TypeOK, ToolboxInv, OwnInv, WriterInv, InstallsAreNotObstructed, Files, NoFiles
<1> QED
  BY <1>1, Always, PTL
=============================================================================
