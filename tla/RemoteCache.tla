---------------------------- MODULE RemoteCache ----------------------------
(***************************************************************************)
(* The content-addressed tool cache of one remote account, the invocations *)
(* that fill it and run from it, and the local toolbox file they read.     *)
(*                                                                         *)
(* A client is one invocation (`binport HOST TOOL`, a host of a fleet run, *)
(* of `warm`, or a TTY run).  It hashes the local file, asks the remote    *)
(* whether `$HOME/.cache/binport/<hash>/<tool>` is executable, uploads the *)
(* file through a remote shell when it is not, and runs it.  Clients share *)
(* nothing but the remote directory and the local file, which              *)
(* `binport build` rewrites in place with fs::copy.                        *)
(*                                                                         *)
(* Data: a file is a sequence of chunks, a chunk is the version it came    *)
(* from, and SHA-256 is an injection, so an address IS the content that    *)
(* was hashed.  The 64 KiB reads of hashing and of fs::read are one step;  *)
(* those of the streaming feeder are separate steps, because the feeder    *)
(* shares its pace with the network.                                       *)
(***************************************************************************)
EXTENDS Integers, Sequences

CONSTANTS
    Clients,    \* invocations against this remote account
    Mode,       \* the command each client runs
    Pids,       \* remote process ids, the `$$` in a temporary's name
    Versions,   \* successive builds of the tool
    Size,       \* chunks in a complete build
    MaxBuilds,  \* bound on `binport build` runs
    Faults,     \* kinds of fault that may happen
    None        \* no file, no content, no pid

FaultKinds == {"read_error", "connection_lost", "cat_fails", "signal", "killed"}

Commands == {"run", "fleet", "warm", "tty"}

Contents == UNION {[1..n -> Versions] : n \in 0..Size}

Whole(v) == [i \in 1..Size |-> v]

TempKeys == Contents \X Pids

ASSUME CacheAssumption ==
    /\ Mode \in [Clients -> Commands]
    /\ Size \in Nat \ {0}
    /\ MaxBuilds \in Nat
    /\ Faults \subseteq FaultKinds
    /\ None \notin Contents
    /\ None \notin Pids
    /\ None \notin Versions

VARIABLES
    local,    \* content of .binport/toolbox/<platform>/<tool>
    builder,  \* the version a running `binport build` is copying, or None
    builds,   \* builds started so far
    phase,    \* where each client is
    addr,     \* the content each client hashed: its remote address
    data,     \* what fs::read returned, for clients that send from memory
    feed,     \* how each client's stdin feed stands
    sh,       \* where the remote shell of each client's upload is
    pid,      \* that shell's process id
    tmp,      \* temporaries in the cache directories
    cache,    \* installed files: address -> content
    ran,      \* the content each client executed
    suspect   \* history: addresses with an upload that was cut short or
              \* was not fed from the file that had been hashed

localVars  == <<local, builder, builds>>
clientVars == <<phase, addr, data, feed, ran>>
remoteVars == <<sh, pid, tmp, cache>>
vars == <<localVars, clientVars, remoteVars, suspect>>

Phases == {"start", "hashed", "missed", "uploading", "execute", "done", "failed"}
Feeds  == {"off", "open", "ended", "errored", "lost"}
Shells == {"none", "cat", "eof", "ready", "exited", "failed", "signalled", "killed"}

TypeOK ==
    /\ local \in Contents
    /\ builder \in Versions \cup {None}
    /\ builds \in 0..MaxBuilds
    /\ phase \in [Clients -> Phases]
    /\ addr \in [Clients -> Contents \cup {None}]
    /\ data \in [Clients -> Contents \cup {None}]
    /\ feed \in [Clients -> Feeds]
    /\ sh \in [Clients -> Shells]
    /\ pid \in [Clients -> Pids \cup {None}]
    /\ tmp \in [TempKeys -> Contents \cup {None}]
    /\ cache \in [Contents -> Contents \cup {None}]
    /\ ran \in [Clients -> Contents \cup {None}]
    /\ suspect \subseteq Contents

Init ==
    /\ local \in {Whole(v) : v \in Versions}
    /\ builder = None
    /\ builds = 0
    /\ phase = [c \in Clients |-> "start"]
    /\ addr = [c \in Clients |-> None]
    /\ data = [c \in Clients |-> None]
    /\ feed = [c \in Clients |-> "off"]
    /\ sh = [c \in Clients |-> "none"]
    /\ pid = [c \in Clients |-> None]
    /\ tmp = [k \in TempKeys |-> None]
    /\ cache = [h \in Contents |-> None]
    /\ ran = [c \in Clients |-> None]
    /\ suspect = {}

----------------------------------------------------------------------------
(* The local toolbox file.                                                 *)

\* upload_file reads the local file chunk by chunk; fleet runs and warm send
\* what fs::read returned.
Streams(c) == Mode[c] \in {"run", "tty"}

\* Uploads that are still reading the local file.
Reading == {c \in Clients : Streams(c) /\ phase[c] = "uploading" /\ feed[c] = "open"}

\* toolbox::build: fs::copy truncates the destination ...
BuildStart(v) ==
    /\ builder = None
    /\ builds < MaxBuilds
    /\ builder' = v
    /\ builds' = builds + 1
    /\ local' = <<>>
    /\ suspect' = suspect \cup {addr[c] : c \in Reading}
    /\ UNCHANGED <<clientVars, remoteVars>>

\* Wrong variant: the copy does not stop at the end of its source.
BuildWriteOverrun ==
    /\ builder # None
    /\ local' = Append(local, builder)
    /\ suspect' = suspect \cup {addr[c] : c \in Reading}
    /\ UNCHANGED <<builder, builds, clientVars, remoteVars>>

\* ... and then writes it.
BuildWrite ==
    /\ builder # None
    /\ Len(local) < Size
    /\ local' = Append(local, builder)
    /\ suspect' = suspect \cup {addr[c] : c \in Reading}
    /\ UNCHANGED <<builder, builds, clientVars, remoteVars>>

BuildEnd ==
    /\ builder # None
    /\ Len(local) = Size
    /\ builder' = None
    /\ UNCHANGED <<local, builds, clientVars, remoteVars, suspect>>

----------------------------------------------------------------------------
(* The client before it uploads.                                           *)

\* toolbox_candidates: the remote path carries the hash of the file as it is now.
Hash(c) ==
    /\ phase[c] = "start"
    /\ addr' = [addr EXCEPT ![c] = local]
    /\ phase' = [phase EXCEPT ![c] = "hashed"]
    /\ UNCHANGED <<data, feed, ran, localVars, remoteVars, suspect>>

\* `test -x`, in the bootstrap script of run and fleet, on its own for tty and warm.
ProbeHit(c) ==
    /\ phase[c] = "hashed"
    /\ cache[addr[c]] # None
    /\ phase' = [phase EXCEPT ![c] = IF Mode[c] = "warm" THEN "done" ELSE "execute"]
    /\ UNCHANGED <<addr, data, feed, ran, localVars, remoteVars, suspect>>

ProbeMiss(c) ==
    /\ phase[c] = "hashed"
    /\ cache[addr[c]] = None
    /\ phase' = [phase EXCEPT ![c] = "missed"]
    /\ UNCHANGED <<addr, data, feed, ran, localVars, remoteVars, suspect>>

\* exec "$tool": the bytes that run are those installed now.
Execute(c) ==
    /\ phase[c] = "execute"
    /\ cache[addr[c]] # None
    /\ ran' = [ran EXCEPT ![c] = cache[addr[c]]]
    /\ phase' = [phase EXCEPT ![c] = "done"]
    /\ UNCHANGED <<addr, data, feed, localVars, remoteVars, suspect>>

----------------------------------------------------------------------------
(* The upload: a feeder in the client, a shell on the remote.              *)

Live(c) == sh[c] \in {"cat", "eof", "ready"}

\* tmp="$2.tmp.$$"
TempPath(h, p) == <<h, p>>

Temp(c) == TempPath(addr[c], pid[c])

\* umask; mkdir -p; cat >"$tmp" creates or truncates the temporary.  The kernel
\* gives the shell a pid no live process has; a dead shell's pid may come back.
StartUpload(c) ==
    /\ phase[c] = "missed"
    /\ phase' = [phase EXCEPT ![c] = "uploading"]
    /\ data' = [data EXCEPT ![c] = IF Streams(c) THEN None ELSE local]
    /\ feed' = [feed EXCEPT ![c] = "open"]
    /\ sh' = [sh EXCEPT ![c] = "cat"]
    /\ \E p \in Pids :
        /\ \A d \in Clients : Live(d) => pid[d] # p
        /\ pid' = [pid EXCEPT ![c] = p]
        /\ tmp' = [tmp EXCEPT ![TempPath(addr[c], p)] = <<>>]
    /\ suspect' = IF local = addr[c] THEN suspect ELSE suspect \cup {addr[c]}
    /\ UNCHANGED <<addr, ran, cache, localVars>>

\* fs::read of the local file fails before anything is sent.
ReadFails(c) ==
    /\ "read_error" \in Faults
    /\ phase[c] = "missed"
    /\ ~Streams(c)
    /\ phase' = [phase EXCEPT ![c] = "failed"]
    /\ UNCHANGED <<addr, data, feed, ran, localVars, remoteVars, suspect>>

Feeding(c) == phase[c] = "uploading" /\ feed[c] = "open" /\ sh[c] = "cat"

Source(c) == IF Streams(c) THEN local ELSE data[c]

\* One read of the feeder at its offset, sent and written by cat.
SendChunk(c) ==
    /\ Feeding(c)
    /\ Len(tmp[Temp(c)]) < Len(Source(c))
    /\ tmp' = [tmp EXCEPT ![Temp(c)] = Append(@, Source(c)[Len(@) + 1])]
    /\ UNCHANGED <<sh, pid, cache, clientVars, localVars, suspect>>

\* Wrong variant: a read that does not fill the buffer is taken for the last.
SendEofEarly(c) ==
    /\ Feeding(c)
    /\ Len(tmp[Temp(c)]) + 1 >= Len(Source(c))
    /\ feed' = [feed EXCEPT ![c] = "ended"]
    /\ sh' = [sh EXCEPT ![c] = "eof"]
    /\ UNCHANGED <<phase, addr, data, ran, pid, tmp, cache, localVars, suspect>>

\* A read of zero bytes ends the feed: the file's length is not compared with
\* the size taken before, nor the bytes sent with the hash.
SendEof(c) ==
    /\ Feeding(c)
    /\ Len(tmp[Temp(c)]) >= Len(Source(c))
    /\ feed' = [feed EXCEPT ![c] = "ended"]
    /\ sh' = [sh EXCEPT ![c] = "eof"]
    /\ UNCHANGED <<phase, addr, data, ran, pid, tmp, cache, localVars, suspect>>

\* Wrong variant: the error leaves the feeder before it sends EOF, and the
\* sender outlives it.
FeedErrorWithoutEof(c) ==
    /\ "read_error" \in Faults
    /\ Feeding(c)
    /\ Streams(c)
    /\ feed' = [feed EXCEPT ![c] = "errored"]
    /\ suspect' = suspect \cup {addr[c]}
    /\ UNCHANGED <<phase, addr, data, ran, sh, pid, tmp, cache, localVars>>

\* A failed local read also ends the feed with the empty message that means EOF.
FeedError(c) ==
    /\ "read_error" \in Faults
    /\ Feeding(c)
    /\ Streams(c)
    /\ feed' = [feed EXCEPT ![c] = "errored"]
    /\ sh' = [sh EXCEPT ![c] = "eof"]
    /\ suspect' = suspect \cup {addr[c]}
    /\ UNCHANGED <<phase, addr, data, ran, pid, tmp, cache, localVars>>

\* The connection or the client dies.  A remote shell without a terminal sees
\* its stdin end and carries on.
ConnectionLost(c) ==
    /\ "connection_lost" \in Faults
    /\ phase[c] \notin {"done", "failed"}
    /\ phase' = [phase EXCEPT ![c] = "failed"]
    /\ feed' = [feed EXCEPT ![c] = IF @ = "open" THEN "lost" ELSE @]
    /\ sh' = [sh EXCEPT ![c] = IF @ = "cat" THEN "eof" ELSE @]
    /\ suspect' = IF sh[c] = "cat" THEN suspect \cup {addr[c]} ELSE suspect
    /\ UNCHANGED <<addr, data, ran, pid, tmp, cache, localVars>>

\* chmod 755 "$tmp"
Chmod(c) ==
    /\ sh[c] = "eof"
    /\ sh' = [sh EXCEPT ![c] = "ready"]
    /\ UNCHANGED <<pid, tmp, cache, clientVars, localVars, suspect>>

\* mv "$tmp" "$2"; exit 0
Move(c) ==
    /\ sh[c] = "ready"
    /\ cache' = [cache EXCEPT ![addr[c]] = tmp[Temp(c)]]
    /\ tmp' = [tmp EXCEPT ![Temp(c)] = None]
    /\ sh' = [sh EXCEPT ![c] = "exited"]
    /\ UNCHANGED <<pid, clientVars, localVars, suspect>>

\* A command of the && list fails (a full disk, say): `trap - EXIT` runs before
\* the exit, so the temporary stays.
ScriptFails(c) ==
    /\ "cat_fails" \in Faults
    /\ Live(c)
    /\ sh' = [sh EXCEPT ![c] = "failed"]
    /\ UNCHANGED <<pid, tmp, cache, clientVars, localVars, suspect>>

\* Wrong variants: the trap lists EXIT only, so the signal removes nothing ...
ShellSignalledUntrapped(c) ==
    /\ "signal" \in Faults
    /\ Live(c)
    /\ sh' = [sh EXCEPT ![c] = "signalled"]
    /\ UNCHANGED <<pid, tmp, cache, clientVars, localVars, suspect>>

\* ... or the trap removes "$2" along with "$tmp".
ShellSignalledRemovesTarget(c) ==
    /\ "signal" \in Faults
    /\ Live(c)
    /\ sh' = [sh EXCEPT ![c] = "signalled"]
    /\ tmp' = [tmp EXCEPT ![Temp(c)] = None]
    /\ cache' = [cache EXCEPT ![addr[c]] = None]
    /\ UNCHANGED <<pid, clientVars, localVars, suspect>>

\* HUP, INT or TERM before the mv: the trap removes the temporary, the rest of
\* the && list finds nothing to install.
ShellSignalled(c) ==
    /\ "signal" \in Faults
    /\ Live(c)
    /\ sh' = [sh EXCEPT ![c] = "signalled"]
    /\ tmp' = [tmp EXCEPT ![Temp(c)] = None]
    /\ UNCHANGED <<pid, cache, clientVars, localVars, suspect>>

\* SIGKILL: no trap runs.
ShellKilled(c) ==
    /\ "killed" \in Faults
    /\ Live(c)
    /\ sh' = [sh EXCEPT ![c] = "killed"]
    /\ UNCHANGED <<pid, tmp, cache, clientVars, localVars, suspect>>

\* The exit status and the feeder's result are both awaited; both must be good.
UploadSucceeds(c) ==
    /\ phase[c] = "uploading"
    /\ sh[c] = "exited"
    /\ feed[c] = "ended"
    /\ phase' = [phase EXCEPT ![c] = IF Mode[c] = "warm" THEN "done" ELSE "execute"]
    /\ UNCHANGED <<addr, data, feed, ran, localVars, remoteVars, suspect>>

UploadFails(c) ==
    /\ phase[c] = "uploading"
    /\ \/ sh[c] = "exited" /\ feed[c] = "errored"
       \/ sh[c] \in {"failed", "signalled", "killed"}
    /\ phase' = [phase EXCEPT ![c] = "failed"]
    /\ UNCHANGED <<addr, data, feed, ran, localVars, remoteVars, suspect>>

----------------------------------------------------------------------------
Build == BuildWrite \/ BuildEnd \/ \E v \in Versions : BuildStart(v)

\* Steps a scheduled client or remote shell always ends up taking.
Progress(c) ==
    \/ Hash(c) \/ ProbeHit(c) \/ ProbeMiss(c) \/ Execute(c)
    \/ StartUpload(c) \/ SendChunk(c) \/ SendEof(c)
    \/ Chmod(c) \/ Move(c)
    \/ UploadSucceeds(c) \/ UploadFails(c)

Fault(c) ==
    \/ ReadFails(c) \/ FeedError(c) \/ ConnectionLost(c)
    \/ ScriptFails(c) \/ ShellSignalled(c) \/ ShellKilled(c)

Next == Build \/ \E c \in Clients : Progress(c) \/ Fault(c)

Spec == Init /\ [][Next]_vars

FairSpec == Spec /\ \A c \in Clients : WF_vars(Progress(c))

----------------------------------------------------------------------------
(* Properties.                                                             *)

\* Whatever the interleaving of concurrent uploads, killed shells and reused
\* pids, a file installed under an address is the content that was hashed,
\* unless one upload to that address was cut short or fed from another file.
CommittedIsWhole ==
    \A h \in Contents \ suspect : cache[h] # None => cache[h] = h

\* A file that does not match its address is never a silent accident: the tool
\* was rebuilt meanwhile, or the feed of some client at that address broke, and
\* that client does not report success.
Broken(c) == feed[c] \in {"errored", "lost"}

NoSilentCorruption ==
    \A h \in Contents : cache[h] \notin {None, h} =>
        \/ builds > 0
        \/ \E c \in Clients :
              /\ addr[c] = h
              /\ Broken(c)
              /\ phase[c] \in {"uploading", "failed"}

\* A client that was told "hit", or whose upload reported success, finds the
\* tool there when it runs it: no fault of another client removes it.
ReadyToRun ==
    \A c \in Clients : phase[c] \in {"execute", "done"} => cache[addr[c]] # None

\* What a client ran is what it hashed, under the same proviso.
RanWhatWasHashed ==
    \A c \in Clients : ran[c] # None => ran[c] = addr[c] \/ addr[c] \in suspect

\* A temporary without a live writer comes only from a shell that died without
\* its trap: killed, or failed past `trap - EXIT`.
TempsAccountedFor ==
    \A h \in Contents, p \in Pids : tmp[TempPath(h, p)] # None =>
        \E c \in Clients :
            /\ addr[c] = h
            /\ pid[c] = p
            /\ Live(c) \/ sh[c] \in {"failed", "killed"}

\* The protocol implements the promise of ContentStore.
Answer(c) == IF phase[c] \in {"done", "failed"} THEN phase[c] ELSE "waiting"

Store == INSTANCE ContentStore WITH
    want <- addr,
    answer <- [c \in Clients |-> Answer(c)]

ImplementsStore == Store!StoreSpec

\* Every invocation ends, whatever fails on the way.
ClientsFinish == \A c \in Clients : <>(phase[c] \in {"done", "failed"})

----------------------------------------------------------------------------
(* The inductive invariant behind the safety properties.                   *)

\* What a client's phase says about its upload.
ClientShape(c) ==
    /\ phase[c] = "start" => addr[c] = None
    /\ phase[c] \in {"start", "hashed", "missed"} =>
           /\ sh[c] = "none"
           /\ ran[c] = None
    /\ phase[c] \in {"uploading", "execute"} => ran[c] = None
    /\ phase[c] \in {"hashed", "missed", "uploading", "execute", "done"} =>
           addr[c] \in Contents
    /\ phase[c] = "uploading" /\ ~Streams(c) => data[c] \in Contents
    /\ sh[c] = "cat" => phase[c] = "uploading" /\ feed[c] = "open"

\* A live shell owns the temporary it named, under a pid no other live shell has.
ShellShape(c) ==
    Live(c) =>
        /\ addr[c] \in Contents
        /\ pid[c] \in Pids
        /\ tmp[Temp(c)] # None
        /\ \A d \in Clients : Live(d) /\ d # c => pid[d] # pid[c]

\* s is what a feeder that reads t from the start has sent so far.
ReadOf(s, t) ==
    /\ Len(s) <= Len(t)
    /\ \A i \in 1..Len(s) : s[i] = t[i]

\* Unless the address is suspect, the feeder still reads what was hashed, and
\* the temporary holds what it has read; all of it once the feed has ended.
UploadIsFaithful(c) ==
    addr[c] \notin suspect =>
        /\ sh[c] = "cat" => Source(c) = addr[c] /\ ReadOf(tmp[Temp(c)], addr[c])
        /\ sh[c] \in {"eof", "ready"} => tmp[Temp(c)] = addr[c]

\* An upload that exited with status 0 has filled its address.
UploadInstalls(c) == sh[c] = "exited" => addr[c] \in Contents /\ cache[addr[c]] # None

\* Only rebuilds and broken feeds raise doubts; before the first rebuild the
\* local file is what every client has hashed.
DoubtIsEarned ==
    /\ \A h \in suspect : builds > 0 \/ \E c \in Clients : addr[c] = h /\ Broken(c)
    /\ builds = 0 => /\ builder = None
                    /\ \A c \in Clients : addr[c] # None => addr[c] = local
    /\ \A c \in Clients : Broken(c) => phase[c] \in {"uploading", "failed"}

CacheInv ==
    /\ \A c \in Clients : ClientShape(c) /\ ShellShape(c)
    /\ \A c \in Clients : UploadIsFaithful(c) /\ UploadInstalls(c)
    /\ DoubtIsEarned
    /\ CommittedIsWhole
    /\ ReadyToRun
    /\ RanWhatWasHashed
    /\ TempsAccountedFor

----------------------------------------------------------------------------
(* What the documentation says of uploads, and the code does not do.       *)

\* README.md:771-773: an interrupted transfer never replaces the destination
\* with partial content.
NoPartialContent ==
    \A h \in Contents : cache[h] # None => Len(cache[h]) = Len(h)
=============================================================================
