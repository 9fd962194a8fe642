------------------------------ MODULE Registry ------------------------------
(***************************************************************************)
(* `push` and `pull`: OCI layouts that go to a registry and come back,     *)
(* through a blob cache that all pulls of a user share.                    *)
(*                                                                         *)
(* The registry is external: it keeps what it is sent by digest, and a tag *)
(* that names the index sent last.  An image is the index of a layout; its *)
(* manifests, one per platform, list entries (a config and the tools), and *)
(* each entry has the digest of its blob.  Every request may fail, with or *)
(* without its effect, and every process may die.                          *)
(*                                                                         *)
(* A file of the cache or of a layout is Whole, when its content is the    *)
(* one its digest names, or Bad.  A layout's file is usually a hard link   *)
(* to the cache's.                                                         *)
(***************************************************************************)
EXTENDS Integers

CONSTANTS
    Images, Manifests, Entries, Blobs,
    ManifestsOf,  \* the manifests an index lists
    EntriesOf,    \* the config and the tools a manifest lists
    DigestOf,     \* the blob of an entry
    Procs,        \* places a binport process can run in
    MaxOps,       \* bound on commands started
    MaxFaults,    \* bound on requests that fail and processes that die
    None,         \* nothing
    Whole, Bad,   \* what a file can contain
    Link          \* a layout's file that is the cache's file

Digests == Manifests \cup Blobs
BlobsIn(m) == {DigestOf[e] : e \in EntriesOf[m]}
Content(i) == ManifestsOf[i] \cup UNION {BlobsIn(m) : m \in ManifestsOf[i]}

ASSUME RegistryAssumption ==
    /\ ManifestsOf \in [Images -> SUBSET Manifests]
    /\ \A i \in Images : ManifestsOf[i] # {}
    /\ EntriesOf \in [Manifests -> SUBSET Entries]
    /\ DigestOf \in [Entries -> Blobs]
    /\ Manifests \cap Blobs = {}
    /\ MaxOps \in Nat /\ MaxFaults \in Nat
    /\ None \notin Images \cup Digests
    /\ None # "push" /\ None # "pull"
    /\ None # Whole /\ None # Bad /\ None # Link
    /\ Whole # Bad /\ Link # Whole /\ Link # Bad

VARIABLES
    blobs, manifests,  \* what the registry has
    tag,               \* the image its tag names
    immutable,         \* whether it lets the tag be moved
    cache,             \* oci/blobs/sha256 in the cache directory
    linked,            \* whether layouts are on the file system of the cache
    op, pc,            \* the command each process runs, and where it is
    image,             \* what it pushes, or what the tag named when it pulled
    todoM, manifest,   \* manifests it has yet to handle, and the one in hand
    todo, cur,         \* entries yet to handle, and the digest in hand
    held,              \* the bytes of a manifest it has received
    layout,            \* its staging layout
    ops, faults,
    alone,             \* history: pulls that no other pull has overlapped
    lucky,             \* history: processes that no fault has hit
    settled,           \* history: pushes of what the tag named already
    outcome,           \* history: how the last command of each process ended
    died               \* history: a process died in the middle of a manifest

registry == <<blobs, manifests, tag, immutable>>
local == <<cache, linked>>
work == <<image, todoM, manifest, todo, cur, held, layout>>
bounds == <<ops, faults>>
history == <<alone, lucky, settled, outcome, died>>
vars == <<registry, local, op, pc, work, bounds, history>>

PushSteps == {"probe", "head", "upload", "tag"}
PullSteps == {"index", "manifest", "store", "truncate", "write", "linkm",
              "look", "discard", "download", "link", "unpack"}
NoLayout == [d \in Digests |-> None]

TypeOK ==
    /\ blobs \subseteq Blobs /\ manifests \subseteq Manifests
    /\ tag \in Images \cup {None} /\ immutable \in BOOLEAN
    /\ cache \in [Digests -> {None, Whole, Bad}] /\ linked \in BOOLEAN
    /\ op \in [Procs -> {None, "push", "pull"}]
    /\ pc \in [Procs -> {"idle"} \cup PushSteps \cup PullSteps]
    /\ image \in [Procs -> Images \cup {None}]
    /\ todoM \in [Procs -> SUBSET Manifests]
    /\ manifest \in [Procs -> Manifests \cup {None}]
    /\ todo \in [Procs -> SUBSET Entries]
    /\ cur \in [Procs -> Digests \cup {None}]
    /\ held \in [Procs -> {None, Whole, Bad}]
    /\ layout \in [Procs -> [Digests -> {None, Whole, Bad, Link}]]
    /\ \A p \in Procs : op[p] # "pull" => layout[p] = NoLayout
    /\ ops \in 0..MaxOps /\ faults \in 0..MaxFaults
    /\ alone \subseteq Procs /\ lucky \subseteq Procs /\ settled \subseteq Procs
    /\ outcome \in [Procs -> {"none", "ok", "refused", "failed"}]
    /\ died \in BOOLEAN

\* A registry that was pushed to, or not; a cache as pulls have left it, a pull of
\* an image with a repeated digest among them (see Materialize).
Init ==
    /\ tag \in Images \cup {None}
    /\ manifests = IF tag = None THEN {} ELSE ManifestsOf[tag]
    /\ blobs = UNION {BlobsIn(m) : m \in manifests}
    /\ immutable \in BOOLEAN /\ linked \in BOOLEAN
    /\ \E b \in {None, Whole, Bad}, m \in {None, Whole} :
         cache = [d \in Digests |-> IF d \in Blobs THEN b ELSE m]
    /\ op = [p \in Procs |-> None]
    /\ pc = [p \in Procs |-> "idle"]
    /\ image = [p \in Procs |-> None]
    /\ todoM = [p \in Procs |-> {}]
    /\ manifest = [p \in Procs |-> None]
    /\ todo = [p \in Procs |-> {}]
    /\ cur = [p \in Procs |-> None]
    /\ held = [p \in Procs |-> None]
    /\ layout = [p \in Procs |-> NoLayout]
    /\ ops = 0 /\ faults = 0
    /\ alone = {} /\ lucky = {} /\ settled = {}
    /\ outcome = [p \in Procs |-> "none"]
    /\ died = FALSE

----------------------------------------------------------------------------
(* How a command begins and ends.                                          *)

Goto(p, s) == pc' = [pc EXCEPT ![p] = s]
Pulling == {p \in Procs : op[p] = "pull"}

Enter(p, o, s) ==
    /\ op[p] = None
    /\ ops < MaxOps
    /\ ops' = ops + 1
    /\ op' = [op EXCEPT ![p] = o]
    /\ Goto(p, s)
    /\ outcome' = [outcome EXCEPT ![p] = "none"]
    /\ lucky' = lucky \cup {p}
    /\ UNCHANGED <<faults, died>>

\* Wrong variant: the staging layout is left behind for the process to come.
LeaveLayout(p, result) ==
    /\ op' = [op EXCEPT ![p] = None]
    /\ Goto(p, "idle")
    /\ image' = [image EXCEPT ![p] = None]
    /\ todoM' = [todoM EXCEPT ![p] = {}]
    /\ manifest' = [manifest EXCEPT ![p] = None]
    /\ todo' = [todo EXCEPT ![p] = {}]
    /\ cur' = [cur EXCEPT ![p] = None]
    /\ held' = [held EXCEPT ![p] = None]
    /\ outcome' = [outcome EXCEPT ![p] = result]
    /\ UNCHANGED <<layout, ops, alone, settled>>

\* The staging layout is removed, whatever the result.  A process that dies leaves
\* it in a directory of its own, which nothing reads again.
Leave(p, result) ==
    /\ op' = [op EXCEPT ![p] = None]
    /\ Goto(p, "idle")
    /\ image' = [image EXCEPT ![p] = None]
    /\ todoM' = [todoM EXCEPT ![p] = {}]
    /\ manifest' = [manifest EXCEPT ![p] = None]
    /\ todo' = [todo EXCEPT ![p] = {}]
    /\ cur' = [cur EXCEPT ![p] = None]
    /\ held' = [held EXCEPT ![p] = None]
    /\ layout' = [layout EXCEPT ![p] = NoLayout]
    /\ outcome' = [outcome EXCEPT ![p] = result]
    /\ UNCHANGED <<ops, alone, settled>>

\* The command ends without an accident.
End(p, result) == Leave(p, result) /\ UNCHANGED <<faults, lucky, died>>

\* An accident hits p.
Fault(p) ==
    /\ faults < MaxFaults
    /\ faults' = faults + 1
    /\ lucky' = lucky \ {p}

\* A request fails: no connection, a timeout, a refused token, a server error.
RequestFails(p) ==
    /\ pc[p] \in PushSteps \cup {"index", "manifest", "download"}
    /\ Fault(p)
    /\ Leave(p, "failed")
    /\ UNCHANGED <<registry, local, died>>

\* The request has had its effect, the answer does not arrive.
AnswerLost(p) == Fault(p) /\ Leave(p, "failed") /\ UNCHANGED died

Crash(p) ==
    /\ op[p] # None
    /\ Fault(p)
    /\ Leave(p, "failed")
    /\ died' = (died \/ pc[p] = "write")
    /\ UNCHANGED <<registry, local>>

----------------------------------------------------------------------------
(* push.                                                                   *)

PushStart(p) ==
    /\ Enter(p, "push", "probe")
    /\ \E i \in Images :
        /\ image' = [image EXCEPT ![p] = i]
        /\ settled' = IF i = tag THEN settled \cup {p} ELSE settled \ {p}
    /\ alone' = alone \ {p}
    /\ UNCHANGED <<registry, local, todoM, manifest, todo, cur, held, layout>>

\* The next manifest of ms, or the tag.
PushNext(p, ms) ==
    /\ todoM' = [todoM EXCEPT ![p] = ms]
    /\ IF ms = {}
       THEN /\ Goto(p, "tag")
            /\ UNCHANGED <<manifest, todo>>
       ELSE \E m \in ms :
            /\ Goto(p, "head")
            /\ manifest' = [manifest EXCEPT ![p] = m]
            /\ todo' = [todo EXCEPT ![p] = EntriesOf[m]]
    /\ UNCHANGED <<op, image, cur, held, layout, bounds, history>>

\* Wrong variant: the push does not look at the tag first.
PushProbeSkipped(p) ==
    /\ pc[p] = "probe"
    /\ PushNext(p, ManifestsOf[image[p]])
    /\ UNCHANGED <<registry, local>>

\* If the tag has the index already, there is nothing to do.
PushProbe(p) ==
    /\ pc[p] = "probe"
    /\ IF tag = image[p]
       THEN End(p, "ok")
       ELSE PushNext(p, ManifestsOf[image[p]])
    /\ UNCHANGED <<registry, local>>

\* HEAD: a blob the registry has is not sent.
PushHead(p) ==
    /\ pc[p] = "head"
    /\ \E e \in todo[p] :
        /\ todo' = [todo EXCEPT ![p] = @ \ {e}]
        /\ IF DigestOf[e] \in blobs
           THEN UNCHANGED <<pc, cur>>
           ELSE Goto(p, "upload") /\ cur' = [cur EXCEPT ![p] = DigestOf[e]]
    /\ UNCHANGED <<registry, local, op, image, todoM, manifest, held, layout, bounds, history>>

Uploaded(p) ==
    /\ Goto(p, "head")
    /\ UNCHANGED <<op, image, todoM, manifest, todo, cur, held, layout, bounds, history>>

\* Wrong variant: the status of the upload is not looked at.
PushUploadUnchecked(p) ==
    /\ pc[p] = "upload"
    /\ blobs' \in {blobs, blobs \cup {cur[p]}}
    /\ Uploaded(p)
    /\ UNCHANGED <<manifests, tag, immutable, local>>

\* POST and PUT.
PushUpload(p) ==
    /\ pc[p] = "upload"
    /\ blobs' = blobs \cup {cur[p]}
    /\ Uploaded(p) \/ AnswerLost(p)
    /\ UNCHANGED <<manifests, tag, immutable, local>>

\* A manifest follows its blobs.
PushManifest(p) ==
    /\ pc[p] = "head"
    /\ todo[p] = {}
    /\ manifests' = manifests \cup {manifest[p]}
    /\ PushNext(p, todoM[p] \ {manifest[p]}) \/ AnswerLost(p)
    /\ UNCHANGED <<blobs, tag, immutable, local>>

\* The index comes last.  An immutable tag that exists is not moved.
PushTag(p) ==
    /\ pc[p] = "tag"
    /\ IF immutable /\ tag # None
       THEN End(p, "refused") /\ UNCHANGED tag
       ELSE tag' = image[p] /\ (End(p, "ok") \/ AnswerLost(p))
    /\ UNCHANGED <<blobs, manifests, immutable, local>>

----------------------------------------------------------------------------
(* pull.                                                                   *)

PullStart(p) ==
    /\ Enter(p, "pull", "index")
    /\ alone' = IF Pulling = {} THEN alone \cup {p} ELSE {}
    /\ settled' = settled \ {p}
    /\ UNCHANGED <<registry, local, work>>

\* The tag is resolved once.
PullIndex(p) ==
    /\ pc[p] = "index"
    /\ IF tag = None
       THEN End(p, "refused")
       ELSE /\ image' = [image EXCEPT ![p] = tag]
            /\ todoM' = [todoM EXCEPT ![p] = ManifestsOf[tag]]
            /\ Goto(p, "manifest")
            /\ UNCHANGED <<op, manifest, todo, cur, held, layout, bounds, history>>
    /\ UNCHANGED <<registry, local>>

\* p has received the manifest m, as c.
Received(p, m, c) ==
    /\ todoM' = [todoM EXCEPT ![p] = @ \ {m}]
    /\ manifest' = [manifest EXCEPT ![p] = m]
    /\ cur' = [cur EXCEPT ![p] = m]
    /\ held' = [held EXCEPT ![p] = c]
    /\ Goto(p, "store")
    /\ UNCHANGED <<op, image, todo, layout, ops, alone, settled, outcome, died>>

\* Wrong variant: what the server sent for the digest is stored as it is.
PullManifestUnverified(p) ==
    /\ pc[p] = "manifest"
    /\ \E m \in todoM[p] \cap manifests :
         \/ Received(p, m, Whole) /\ UNCHANGED <<faults, lucky>>
         \/ Received(p, m, Bad) /\ Fault(p)
    /\ UNCHANGED <<registry, local>>

\* Its size and hash are verified; any other answer is an error, RequestFails.
PullManifest(p) ==
    /\ pc[p] = "manifest"
    /\ \E m \in todoM[p] :
         IF m \in manifests
         THEN Received(p, m, Whole) /\ UNCHANGED <<faults, lucky>>
         ELSE End(p, "failed")
    /\ UNCHANGED <<registry, local>>

\* A manifest the cache has, in whatever state, is not written.
StoreBytes(p) ==
    /\ pc[p] = "store"
    /\ Goto(p, IF cache[cur[p]] = None THEN "truncate" ELSE "linkm")
    /\ UNCHANGED <<registry, local, op, work, bounds, history>>

\* fs::write opens the cached file with truncation ...
StoreTruncate(p) ==
    /\ pc[p] = "truncate"
    /\ cache' = [cache EXCEPT ![cur[p]] = Bad]
    /\ Goto(p, "write")
    /\ UNCHANGED <<registry, linked, op, work, bounds, history>>

\* ... and writes it.
StoreWrite(p) ==
    /\ pc[p] = "write"
    /\ cache' = [cache EXCEPT ![cur[p]] = held[p]]
    /\ Goto(p, "linkm")
    /\ UNCHANGED <<registry, linked, op, work, bounds, history>>

\* What a reader of p's layout sees.
View(p, d) == IF layout[p][d] = Link THEN cache[d] ELSE layout[p][d]

\* The cached file is put into the layout: by a hard link, or as a copy if that
\* fails.  It fails across file systems, and if the layout has the file already:
\* then the copy first truncates it, and with it the cached file if they are one.
Materialize(p, d) ==
    IF ~linked \/ layout[p][d] \notin {None, Link}
    THEN /\ layout' = [layout EXCEPT ![p][d] = cache[d]]
         /\ UNCHANGED cache
    ELSE /\ layout' = [layout EXCEPT ![p][d] = Link]
         /\ cache' = IF layout[p][d] = Link THEN [cache EXCEPT ![d] = Bad] ELSE cache

\* The cached file of d is another one now, or none: links keep the old one.
Replace(d, c) ==
    /\ cache' = [cache EXCEPT ![d] = c]
    /\ layout' = [q \in Procs |-> [layout[q] EXCEPT ![d] = View(q, d)]]

\* The entries come from the bytes received, not from the cached file.
LinkManifest(p) ==
    /\ pc[p] = "linkm"
    /\ Materialize(p, cur[p])
    /\ todo' = [todo EXCEPT ![p] = EntriesOf[manifest[p]]]
    /\ Goto(p, "look")
    /\ UNCHANGED <<registry, linked, op, image, todoM, manifest, cur, held, bounds, history>>

\* The cached blob is read and verified.
LookAtCache(p) ==
    /\ pc[p] = "look"
    /\ \E e \in todo[p] :
        /\ todo' = [todo EXCEPT ![p] = @ \ {e}]
        /\ cur' = [cur EXCEPT ![p] = DigestOf[e]]
        /\ Goto(p, CASE cache[DigestOf[e]] = None -> "download"
                     [] cache[DigestOf[e]] = Bad -> "discard"
                     [] cache[DigestOf[e]] = Whole -> "link")
    /\ UNCHANGED <<registry, local, op, image, todoM, manifest, held, layout, bounds, history>>

\* One that does not match is removed, if nobody else has done so meanwhile.
Discard(p) ==
    /\ pc[p] = "discard"
    /\ IF cache[cur[p]] = None
       THEN End(p, "failed") /\ UNCHANGED cache
       ELSE /\ Replace(cur[p], None)
            /\ Goto(p, "download")
            /\ UNCHANGED <<op, image, todoM, manifest, todo, cur, held, bounds, history>>
    /\ UNCHANGED <<registry, linked>>

\* Wrong variant: the download is not verified.
DownloadUnverified(p) ==
    /\ pc[p] = "download"
    /\ \E c \in {Whole, Bad} : Replace(cur[p], c)
    /\ Goto(p, "link")
    /\ UNCHANGED <<registry, linked, op, image, todoM, manifest, todo, cur, held, bounds, history>>

\* The blob goes to a file of the process and is renamed once it is verified; any
\* other answer is an error, RequestFails.
Download(p) ==
    /\ pc[p] = "download"
    /\ IF cur[p] \notin blobs
       THEN End(p, "failed") /\ UNCHANGED cache
       ELSE /\ Replace(cur[p], Whole)
            /\ Goto(p, "link")
            /\ UNCHANGED <<op, image, todoM, manifest, todo, cur, held, bounds, history>>
    /\ UNCHANGED <<registry, linked>>

\* Another pull may have removed the cached file meanwhile.
LinkBlob(p) ==
    /\ pc[p] = "link"
    /\ IF cache[cur[p]] = None
       THEN End(p, "failed") /\ UNCHANGED cache
       ELSE /\ Materialize(p, cur[p])
            /\ Goto(p, "look")
            /\ UNCHANGED <<op, image, todoM, manifest, todo, cur, held, bounds, history>>
    /\ UNCHANGED <<registry, linked>>

\* The next manifest, or the index of the layout and its unpacking.
PullNext(p) ==
    /\ pc[p] = "look"
    /\ todo[p] = {}
    /\ Goto(p, IF todoM[p] = {} THEN "unpack" ELSE "manifest")
    /\ UNCHANGED <<registry, local, op, work, bounds, history>>

\* unpack verifies what it reads: the pull succeeds or not.
Unpack(p) ==
    /\ pc[p] = "unpack"
    /\ End(p, IF \A d \in Content(image[p]) : View(p, d) = Whole THEN "ok" ELSE "failed")
    /\ UNCHANGED <<registry, local>>

----------------------------------------------------------------------------
Push(p) ==
    PushStart(p) \/ PushProbe(p) \/ PushHead(p) \/ PushUpload(p) \/ PushManifest(p) \/ PushTag(p)

Pull(p) ==
    \/ PullStart(p) \/ PullIndex(p) \/ PullManifest(p)
    \/ StoreBytes(p) \/ StoreTruncate(p) \/ StoreWrite(p) \/ LinkManifest(p)
    \/ LookAtCache(p) \/ Discard(p) \/ Download(p) \/ LinkBlob(p)
    \/ PullNext(p) \/ Unpack(p)

Next == \E p \in Procs : Push(p) \/ Pull(p) \/ RequestFails(p) \/ Crash(p)

Spec == Init /\ [][Next]_vars

----------------------------------------------------------------------------
(* Properties.                                                             *)

\* However pushes overlap, fail or die, whoever resolves the tag finds every
\* manifest and every blob of the image it names.
TagIsComplete ==
    tag # None => Content(tag) \subseteq blobs \cup manifests

\* A push of what the tag names already is no error, whether or not the tag can be
\* moved and whatever other pushes do.
RepeatedPushSucceeds ==
    \A p \in Procs : p \in settled \cap lucky => outcome[p] \notin {"failed", "refused"}

\* A pulled layout is of one image, though the tag may move, and its blobs are
\* whole, whatever was in the cache and whatever other pulls do to it.
PulledBlobsAreWhole ==
    \A p \in Procs : pc[p] = "unpack" =>
        \A d \in Digests :
            /\ layout[p][d] # None <=> d \in Content(image[p])
            /\ d \in Blobs \cap Content(image[p]) => View(p, d) = Whole

\* After any pulls that failed or overlapped, one that runs alone succeeds.  The one
\* exception is a death while a manifest was being written.
PullsCanBeRepeated ==
    \A p \in Procs : p \in alone \cap lucky /\ ~died => outcome[p] # "failed"

\* README.md:474-476: every descriptor is verified by its size and hash.  So what
\* pull_layout returns is whole.
PulledIsWhole ==
    \A p \in Procs : pc[p] = "unpack" => \A d \in Content(image[p]) : View(p, d) = Whole
=============================================================================
