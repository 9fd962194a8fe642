------------------------------ MODULE Toolbox ------------------------------
(***************************************************************************)
(* A project directory and the commands that write it: `resolve` makes     *)
(* Binport.lock, `build` makes .binport/toolbox and toolbox.json from the  *)
(* locked sources, `export` and `pack` save them as an archive or an OCI   *)
(* layout, `load` and `unpack` (and so `pull`) install those.              *)
(*                                                                         *)
(* Nothing is locked: processes overlap, die between two system calls, and *)
(* read what another has half written.  A tool's file is the version of    *)
(* its source it was copied from, a hash stands for what was hashed.  The  *)
(* tools are COPY entries of a Binfile, which the user edits like any      *)
(* source: it may come to list other tools.                                *)
(***************************************************************************)
EXTENDS Integers

CONSTANTS
    Tools,       \* the entries the Binfile may have
    Versions,    \* what their sources can contain
    Procs,       \* places a binport process can run in
    Ops,         \* the commands that are run
    MaxOps,      \* bound on commands started
    MaxEdits,    \* bound on changes to a source or the Binfile
    MaxCrashes,  \* bound on processes that die
    None,        \* no such file
    Partial      \* a file that has not been written completely

AllOps == {"resolve", "build", "export", "load", "pack", "unpack"}

ASSUME ToolboxAssumption ==
    /\ Tools # {}
    /\ Ops \subseteq AllOps
    /\ MaxOps \in Nat
    /\ MaxEdits \in Nat
    /\ MaxCrashes \in Nat

ASSUME AbsenceAssumption ==
    /\ None \notin Versions
    /\ None \notin AllOps
    /\ Partial \notin Versions \cup {None}

VARIABLES
    binfile,   \* the tools the Binfile lists
    source,    \* their sources
    files,     \* .binport/toolbox
    manifest,  \* .binport/toolbox.json: the hash of each tool
    plock,     \* Binport.lock: the hash of the Binfile and of each source
    archive,   \* the archive of export and load
    layout,    \* the OCI layout of pack and unpack
    op, pc,    \* the command each process runs, and where it is
    todo,      \* tools it has yet to handle
    cur,       \* the tool `build` is copying
    held,      \* the files or hashes it has gathered
    heldLock,  \* the lock or manifest it has read
    ops, edits, crashes,
    alone,     \* history: processes that met no other writer of the toolbox
    steady,    \* history: processes that have met no edit
    touched,   \* history: processes that have changed the toolbox
    dirty,     \* history: the last writer of the toolbox failed, died or was
               \* not alone
    crossed    \* history: the Binfile was edited while a lock was made from it

disk == <<binfile, source, files, manifest, plock, archive, layout>>
proc == <<op, pc, todo, cur, held, heldLock>>
bounds == <<ops, edits, crashes>>
history == <<alone, steady, touched, dirty, crossed>>
vars == <<disk, proc, bounds, history>>

Content == Versions \cup {None, Partial}
Files == [Tools -> Content]
Whole == [Tools -> Versions \cup {None}]
NoFiles == [t \in Tools |-> None]

\* The tools that a Binfile, a manifest or a lock names.
Listings == (SUBSET Tools) \ {{}}
Listed(f) == {t \in Tools : f[t] # None}

\* A lock is about the Binfile with this hash.
Locks == [of : Listings \cup {None}, entries : Whole]

Steps == {"idle", "vouch", "lock", "lock2", "copy", "copying", "hash", "manifest", "manifest2",
          "gather", "remove", "rename", "manifest_rm", "manifest_mv"}

TypeOK ==
    /\ binfile \in Listings
    /\ source \in [Tools -> Versions]
    /\ files \in Files
    /\ manifest \in Files \cup {None, Partial}
    /\ plock \in Locks \cup {None, Partial}
    /\ archive \in {None, Partial}
                   \cup [manifest : Files \cup {Partial}, files : Files, sound : BOOLEAN]
    /\ layout \in {None, Partial} \cup [files : Whole, lock : Locks \cup {None}]
    /\ op \in [Procs -> AllOps \cup {None}]
    /\ pc \in [Procs -> Steps]
    /\ todo \in [Procs -> SUBSET Tools]
    /\ cur \in [Procs -> Tools \cup {None}]
    /\ held \in [Procs -> Files]
    /\ heldLock \in [Procs -> Files \cup Locks \cup {None, Partial}]
    /\ ops \in 0..MaxOps /\ edits \in 0..MaxEdits /\ crashes \in 0..MaxCrashes
    /\ alone \subseteq Procs /\ steady \subseteq Procs /\ touched \subseteq Procs
    /\ dirty \in BOOLEAN /\ crossed \in BOOLEAN

\* What a colleague's project can be: every source has one version.
Uniform == {[t \in Tools |-> v] : v \in Versions}

LockOf(f) == [of |-> Listed(f), entries |-> f]

\* A fresh project or a built one, with what colleagues have sent.
Init ==
    /\ binfile = Tools
    /\ source \in Uniform
    /\ \/ files = NoFiles /\ manifest = None /\ plock = None
       \/ files = source /\ manifest = source /\ plock = LockOf(source)
    /\ archive \in {None} \cup {[manifest |-> f, files |-> f, sound |-> TRUE] : f \in Uniform}
    /\ layout \in {None} \cup {[files |-> f, lock |-> LockOf(f)] : f \in Uniform}
    /\ op = [p \in Procs |-> None]
    /\ pc = [p \in Procs |-> "idle"]
    /\ todo = [p \in Procs |-> {}]
    /\ cur = [p \in Procs |-> None]
    /\ held = [p \in Procs |-> NoFiles]
    /\ heldLock = [p \in Procs |-> None]
    /\ ops = 0 /\ edits = 0 /\ crashes = 0
    /\ alone = {} /\ steady = {} /\ touched = {} /\ dirty = FALSE /\ crossed = FALSE

----------------------------------------------------------------------------
(* How a command begins and ends.                                          *)

Writers == {"build", "load", "unpack"}
Writing == {p \in Procs : op[p] \in Writers}

\* p starts o at step s, with work ts and what it has read, f and l.
Enter(p, o, s, ts, f, l) ==
    /\ o \in Ops
    /\ op[p] = None
    /\ ops < MaxOps
    /\ ops' = ops + 1
    /\ op' = [op EXCEPT ![p] = o]
    /\ pc' = [pc EXCEPT ![p] = s]
    /\ todo' = [todo EXCEPT ![p] = ts]
    /\ held' = [held EXCEPT ![p] = f]
    /\ heldLock' = [heldLock EXCEPT ![p] = l]
    /\ alone' = LET rest == IF o \in Writers THEN {} ELSE alone \ {p}
                IN IF Writing = {} THEN rest \cup {p} ELSE rest
    /\ steady' = steady \cup {p}
    /\ UNCHANGED <<cur, edits, crashes, touched, dirty, crossed>>

\* The process is gone, and what it held with it.
Leave(p) ==
    /\ op' = [op EXCEPT ![p] = None]
    /\ pc' = [pc EXCEPT ![p] = "idle"]
    /\ todo' = [todo EXCEPT ![p] = {}]
    /\ cur' = [cur EXCEPT ![p] = None]
    /\ held' = [held EXCEPT ![p] = NoFiles]
    /\ heldLock' = [heldLock EXCEPT ![p] = None]
    /\ alone' = alone \ {p}
    /\ steady' = steady \ {p}
    /\ touched' = touched \ {p}
    /\ UNCHANGED <<ops, edits, crossed>>

Finish(p) ==
    /\ Leave(p)
    /\ dirty' = IF op[p] \in Writers THEN p \notin alone ELSE dirty
    /\ UNCHANGED crashes

\* An error is returned: what has been changed stays changed.
Fail(p) ==
    /\ Leave(p)
    /\ dirty' = (dirty \/ p \in touched)
    /\ UNCHANGED crashes

Crash(p) ==
    /\ op[p] # None
    /\ crashes < MaxCrashes
    /\ crashes' = crashes + 1
    /\ Leave(p)
    /\ dirty' = (dirty \/ p \in touched)
    /\ UNCHANGED disk

Goto(p, s) == pc' = [pc EXCEPT ![p] = s]

Touch(p) ==
    /\ touched' = touched \cup {p}
    /\ UNCHANGED <<alone, steady, dirty, crossed>>

\* Somebody edits a source, or what the Binfile lists.  Once all commands have run,
\* an edit changes nothing that is read.
Edit ==
    /\ edits < MaxEdits
    /\ ops < MaxOps \/ \E p \in Procs : op[p] # None
    /\ edits' = edits + 1
    /\ \/ /\ \E t \in Tools : \E v \in Versions \ {source[t]} :
              source' = [source EXCEPT ![t] = v]
          /\ UNCHANGED <<binfile, crossed>>
       \/ /\ \E b \in Listings \ {binfile} : binfile' = b
          /\ crossed' = (crossed \/ \E p \in Procs : pc[p] = "vouch")
          /\ UNCHANGED source
    /\ steady' = {}
    /\ UNCHANGED <<files, manifest, plock, archive, layout, proc, ops, crashes, alone, touched, dirty>>

----------------------------------------------------------------------------
(* resolve, and the writing of Binport.lock.                               *)

\* The sources of what the Binfile lists are hashed.
Hashed == [of |-> None, entries |-> [t \in Tools |-> IF t \in binfile THEN source[t] ELSE None]]

ResolveStart(p) ==
    /\ Enter(p, "resolve", "vouch", {}, NoFiles, Hashed)
    /\ UNCHANGED disk

\* The Binfile is read again, for its hash.
Vouch(p) ==
    /\ pc[p] = "vouch"
    /\ heldLock' = [heldLock EXCEPT ![p].of = binfile]
    /\ Goto(p, "lock")
    /\ UNCHANGED <<disk, op, todo, cur, held, bounds, history>>

\* fs::write opens the file with truncation ...
LockTruncate(p) ==
    /\ pc[p] = "lock"
    /\ plock' = Partial
    /\ Goto(p, "lock2")
    /\ UNCHANGED <<binfile, source, files, manifest, archive, layout, op, todo, cur, held, heldLock, bounds, history>>

\* ... and writes it.  In a build the copies come next.
LockWrite(p) ==
    /\ pc[p] = "lock2"
    /\ plock' = heldLock[p]
    /\ IF op[p] = "build"
       THEN Goto(p, "copy") /\ UNCHANGED <<op, todo, cur, held, heldLock, bounds, history>>
       ELSE Finish(p)
    /\ UNCHANGED <<binfile, source, files, manifest, archive, layout>>

----------------------------------------------------------------------------
(* build.                                                                  *)

\* Wrong variant: the lock is used for whatever Binfile there is now.
BuildStartUnverified(p) ==
    /\ plock # Partial
    /\ IF plock = None
       THEN Enter(p, "build", "vouch", binfile, NoFiles, Hashed)
       ELSE Enter(p, "build", "copy", Listed(plock.entries), NoFiles, plock)
    /\ UNCHANGED disk

\* The lock is read, or made when there is none; one that cannot be parsed, or is
\* about another Binfile, is an error.
BuildStart(p) ==
    /\ plock # Partial
    /\ IF plock = None
       THEN Enter(p, "build", "vouch", binfile, NoFiles, Hashed)
       ELSE /\ plock.of = binfile
            /\ Enter(p, "build", "copy", Listed(plock.entries), NoFiles, plock)
    /\ UNCHANGED disk

\* Wrong variant: the source is not compared with the lock.
CopyStartUnchecked(p) ==
    /\ pc[p] = "copy"
    /\ \E t \in todo[p] :
        /\ files' = [files EXCEPT ![t] = Partial]
        /\ cur' = [cur EXCEPT ![p] = t]
    /\ Goto(p, "copying")
    /\ Touch(p)
    /\ UNCHANGED <<binfile, source, manifest, plock, archive, layout, op, todo, held, heldLock, bounds>>

\* The source matches the lock: fs::copy truncates the destination ...
CopyStart(p) ==
    /\ pc[p] = "copy"
    /\ \E t \in todo[p] :
        /\ source[t] = heldLock[p].entries[t]
        /\ files' = [files EXCEPT ![t] = Partial]
        /\ cur' = [cur EXCEPT ![p] = t]
    /\ Goto(p, "copying")
    /\ Touch(p)
    /\ UNCHANGED <<binfile, source, manifest, plock, archive, layout, op, todo, held, heldLock, bounds>>

\* The source does not match: the build ends, with the copies it has made.
CopyRefused(p) ==
    /\ pc[p] = "copy"
    /\ \E t \in todo[p] : source[t] # heldLock[p].entries[t]
    /\ Fail(p)
    /\ UNCHANGED disk

\* ... and copies what the source is by now.  If another process has removed the
\* destination meanwhile, the copy goes to a file without a name.
CopyEnd(p) ==
    /\ pc[p] = "copying"
    /\ \/ /\ files[cur[p]] # None
          /\ files' = [files EXCEPT ![cur[p]] = source[cur[p]]]
       \/ /\ files[cur[p]] # Partial
          /\ UNCHANGED files
    /\ Goto(p, "hash")
    /\ UNCHANGED <<binfile, source, manifest, plock, archive, layout, op, todo, cur, held, heldLock, bounds, history>>

\* Wrong variant: the manifest repeats the hash of the lock.
HashOfLock(p) ==
    /\ pc[p] = "hash"
    /\ held' = [held EXCEPT ![p][cur[p]] = heldLock[p].entries[cur[p]]]
    /\ todo' = [todo EXCEPT ![p] = @ \ {cur[p]}]
    /\ cur' = [cur EXCEPT ![p] = None]
    /\ Goto(p, IF todo[p] = {cur[p]} THEN "manifest" ELSE "copy")
    /\ UNCHANGED <<disk, op, heldLock, bounds, history>>

\* The manifest gets the hash of the destination.
Hash(p) ==
    /\ pc[p] = "hash"
    /\ IF files[cur[p]] = None
       THEN Fail(p)
       ELSE /\ held' = [held EXCEPT ![p][cur[p]] = files[cur[p]]]
            /\ todo' = [todo EXCEPT ![p] = @ \ {cur[p]}]
            /\ cur' = [cur EXCEPT ![p] = None]
            /\ Goto(p, IF todo[p] = {cur[p]} THEN "manifest" ELSE "copy")
            /\ UNCHANGED <<op, heldLock, bounds, history>>
    /\ UNCHANGED disk

ManifestTruncate(p) ==
    /\ pc[p] = "manifest"
    /\ manifest' = Partial
    /\ Goto(p, "manifest2")
    /\ UNCHANGED <<binfile, source, files, plock, archive, layout, op, todo, cur, held, heldLock, bounds, history>>

ManifestWrite(p) ==
    /\ pc[p] = "manifest2"
    /\ manifest' = held[p]
    /\ Finish(p)
    /\ UNCHANGED <<binfile, source, files, plock, archive, layout>>

----------------------------------------------------------------------------
(* export and pack.                                                        *)

\* A toolbox that is there, whole or not; the archive is created and gets the
\* manifest first.
ExportStart(p) ==
    /\ manifest # None
    /\ files # NoFiles
    /\ Enter(p, "export", "gather", Tools, NoFiles, manifest)
    /\ archive' = Partial
    /\ UNCHANGED <<binfile, source, files, manifest, plock, layout>>

ExportFile(p) ==
    /\ op[p] = "export"
    /\ \E t \in todo[p] :
        /\ held' = [held EXCEPT ![p][t] = files[t]]
        /\ todo' = [todo EXCEPT ![p] = @ \ {t}]
    /\ UNCHANGED <<disk, op, pc, cur, heldLock, bounds, history>>

\* Nothing is verified; the record remembers whether it was a sound toolbox that
\* nobody wrote to.
ExportEnd(p) ==
    /\ op[p] = "export"
    /\ todo[p] = {}
    /\ archive' = [manifest |-> heldLock[p], files |-> held[p], sound |-> p \in alone /\ ~dirty]
    /\ Finish(p)
    /\ UNCHANGED <<binfile, source, files, manifest, plock, layout>>

\* A manifest that can be parsed, and no layout yet.  The lock is taken if it can
\* be read.
PackStart(p) ==
    /\ manifest \in Files
    /\ layout = None
    /\ Enter(p, "pack", "gather", Listed(manifest), manifest, IF plock = Partial THEN None ELSE plock)
    /\ layout' = Partial
    /\ UNCHANGED <<binfile, source, files, manifest, plock, archive>>

\* A tool's blob is what the manifest says, or the pack fails and leaves a layout
\* without an index.
PackTool(p) ==
    /\ op[p] = "pack"
    /\ \E t \in todo[p] :
         IF files[t] \in {held[p][t]} \ {Partial}
         THEN /\ todo' = [todo EXCEPT ![p] = @ \ {t}]
              /\ UNCHANGED <<op, pc, cur, held, heldLock, bounds, history>>
         ELSE Fail(p)
    /\ UNCHANGED disk

PackEnd(p) ==
    /\ op[p] = "pack"
    /\ todo[p] = {}
    /\ layout' = [files |-> held[p], lock |-> heldLock[p]]
    /\ Finish(p)
    /\ UNCHANGED <<binfile, source, files, manifest, plock, archive>>

----------------------------------------------------------------------------
(* load and unpack.                                                        *)

\* Wrong variant: only what the manifest lists is removed.
PresentAndListed == IF manifest \in Files THEN Listed(files) \cap Listed(manifest) ELSE {}

Present == Listed(files)

\* What the manifest says of its tools is true; it says nothing of files that an
\* earlier build has left there.
Describes(m, f) == \A t \in Listed(m) : f[t] = m[t]

\* Every file of the archive's manifest is there with its hash.
Acceptable(a) ==
    /\ a \in [manifest : Files, files : Files, sound : BOOLEAN]
    /\ Describes(a.manifest, a.files)

\* The archive is extracted to a staging directory and verified there.  One that
\* is refused changes nothing.
LoadStart(p) ==
    /\ archive # None
    /\ archive # Partial
    /\ Acceptable(archive)
    /\ Enter(p, "load", "remove", Present, archive.files, archive.manifest)
    /\ UNCHANGED disk

\* The blobs of the layout are verified by their digests.
UnpackStart(p) ==
    /\ layout \notin {None, Partial}
    /\ Enter(p, "unpack", "remove", Present, layout.files, layout.lock)
    /\ UNCHANGED disk

\* remove_dir_all, one file at a time.
Remove(p) ==
    /\ pc[p] = "remove"
    /\ \E t \in todo[p] :
        /\ files' = [files EXCEPT ![t] = None]
        /\ todo' = [todo EXCEPT ![p] = @ \ {t}]
    /\ Touch(p)
    /\ UNCHANGED <<binfile, source, manifest, plock, archive, layout, op, pc, cur, held, heldLock, bounds>>

\* rename of the staged directory: it fails if there is a file in the way again.
RenameToolbox(p) ==
    /\ pc[p] = "remove"
    /\ todo[p] = {}
    /\ IF files = NoFiles
       THEN /\ files' = held[p]
            /\ Goto(p, IF op[p] = "unpack" THEN "manifest_rm" ELSE "manifest_mv")
            /\ Touch(p)
            /\ UNCHANGED <<op, todo, cur, held, heldLock, bounds>>
       ELSE /\ Fail(p)
            /\ UNCHANGED files
    /\ UNCHANGED <<binfile, source, manifest, plock, archive, layout>>

\* unpack removes the old manifest first.
ManifestRemove(p) ==
    /\ pc[p] = "manifest_rm"
    /\ manifest' = None
    /\ Goto(p, "manifest_mv")
    /\ UNCHANGED <<binfile, source, files, plock, archive, layout, op, todo, cur, held, heldLock, bounds, history>>

\* The new manifest is renamed into place; unpack then restores the lock.
ManifestRename(p) ==
    /\ pc[p] = "manifest_mv"
    /\ manifest' = IF op[p] = "load" THEN heldLock[p] ELSE held[p]
    /\ IF op[p] = "unpack" /\ heldLock[p] # None
       THEN Goto(p, "lock") /\ UNCHANGED <<op, todo, cur, held, heldLock, bounds, history>>
       ELSE Finish(p)
    /\ UNCHANGED <<binfile, source, files, plock, archive, layout>>

----------------------------------------------------------------------------
Step(p) ==
    \/ ResolveStart(p) \/ Vouch(p) \/ LockTruncate(p) \/ LockWrite(p)
    \/ BuildStart(p) \/ CopyStart(p) \/ CopyRefused(p) \/ CopyEnd(p) \/ Hash(p)
    \/ ManifestTruncate(p) \/ ManifestWrite(p)
    \/ ExportStart(p) \/ ExportFile(p) \/ ExportEnd(p)
    \/ PackStart(p) \/ PackTool(p) \/ PackEnd(p)
    \/ LoadStart(p) \/ UnpackStart(p) \/ Remove(p) \/ RenameToolbox(p)
    \/ ManifestRemove(p) \/ ManifestRename(p)

Next ==
    \/ \E p \in Procs : Step(p) \/ Crash(p)
    \/ Edit

Spec == Init /\ [][Next]_vars

----------------------------------------------------------------------------
(* Properties.                                                             *)

\* Whatever failed or died before, the toolbox a command has made on its own is the
\* one its manifest describes, and stays so until a writer fails, dies or overlaps.
ManifestIsTrue ==
    ~dirty /\ Writing = {} => manifest = None \/ Describes(manifest, files)

\* An archive of a sound toolbox can be loaded again.
ExportsCanBeLoaded ==
    archive \notin {None, Partial} => (archive.sound => Acceptable(archive))

\* What a build records is what the lock promised, if it had the project to itself
\* and nothing was edited under it; and that is what the Binfile lists now, unless a
\* lock was made while the Binfile was edited (resolve reads it twice).
BuildFollowsLock ==
    \A p \in Procs :
        op[p] = "build" /\ pc[p] \in {"manifest", "manifest2"} /\ p \in alone \cap steady =>
            /\ held[p] = heldLock[p].entries
            /\ Listed(held[p]) = binfile \/ crossed

\* No leftover of an earlier command stops an install that runs alone.
InstallsAreNotObstructed ==
    \A p \in Procs :
        pc[p] = "remove" /\ todo[p] = {} /\ p \in alone => files = NoFiles
=============================================================================
