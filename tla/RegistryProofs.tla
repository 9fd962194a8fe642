--------------------------- MODULE RegistryProofs ---------------------------
(***************************************************************************)
(* Machine-checked proofs about Registry, for all images, every number of  *)
(* processes, commands and faults, and every cache.                        *)
(***************************************************************************)
EXTENDS Registry, TLAPS

\* What a process has in hand at each step.
HandInv ==
    \A p \in Procs :
        /\ pc[p] \in PushSteps => op[p] = "push" /\ image[p] \in Images
        /\ pc[p] \in PullSteps => op[p] = "pull"
        /\ pc[p] \in {"head", "upload", "store", "truncate", "write", "linkm"} =>
               manifest[p] \in Manifests
        /\ pc[p] = "upload" => cur[p] \in Blobs

\* m is in the registry with its blobs.
Published(m) == m \in manifests /\ BlobsIn(m) \subseteq blobs

\* The push of p has published the manifests it has left behind, and the blobs of
\* the entries it has left behind in the manifest in hand.
Pushed(p) ==
    /\ pc[p] \in {"head", "upload", "tag"} =>
           \A m \in ManifestsOf[image[p]] \ todoM[p] : Published(m)
    /\ pc[p] = "tag" => todoM[p] = {}
    /\ pc[p] \in {"head", "upload"} =>
           \A e \in EntriesOf[manifest[p]] \ todo[p] :
               DigestOf[e] \in blobs \/ (pc[p] = "upload" /\ DigestOf[e] = cur[p])

PushInv == \A p \in Procs : Pushed(p)

\* Whoever resolves the tag finds its image.
TagInv == tag # None => \A m \in ManifestsOf[tag] : Published(m)

Typed == TypeOK /\ HandInv

----------------------------------------------------------------------------
(* Types.                                                                  *)

LEMMA InitTyped == Init => Typed
<1> SUFFICES ASSUME Init PROVE Typed
  OBVIOUS
<1> USE RegistryAssumption
<1>1. manifests \subseteq Manifests /\ blobs \subseteq Blobs
  BY DEF Init, BlobsIn
<1>2. cache \in [Digests -> {None, Whole, Bad}]
  BY DEF Init
<1>3. NoLayout \in [Digests -> {None, Whole, Bad, Link}]
  BY DEF NoLayout
<1>4. layout \in [Procs -> [Digests -> {None, Whole, Bad, Link}]]
  BY <1>3 DEF Init
<1>5. TypeOK
  <2>1. ops \in 0..MaxOps /\ faults \in 0..MaxFaults
    BY DEF Init
  <2>2. \A p \in Procs : layout[p] = NoLayout
    BY DEF Init
  <2>3. /\ image \in [Procs -> Images \cup {None}]
        /\ todoM \in [Procs -> SUBSET Manifests]
        /\ manifest \in [Procs -> Manifests \cup {None}]
        /\ todo \in [Procs -> SUBSET Entries]
        /\ cur \in [Procs -> Digests \cup {None}]
        /\ held \in [Procs -> {None, Whole, Bad}]
    BY DEF Init
  <2>4. /\ op \in [Procs -> {None, "push", "pull"}]
        /\ pc \in [Procs -> {"idle"} \cup PushSteps \cup PullSteps]
        /\ outcome \in [Procs -> {"none", "ok", "refused", "failed"}]
    BY DEF Init
  <2>5. /\ tag \in Images \cup {None} /\ immutable \in BOOLEAN /\ linked \in BOOLEAN
        /\ alone \subseteq Procs /\ lucky \subseteq Procs /\ settled \subseteq Procs
        /\ died \in BOOLEAN
    BY DEF Init
  <2> QED
    BY <1>1, <1>2, <1>4, <2>1, <2>2, <2>3, <2>4, <2>5 DEF TypeOK
<1>6. HandInv
  BY DEF Init, HandInv, PushSteps, PullSteps
<1> QED
  BY <1>5, <1>6 DEF Typed

\* A command that ends leaves nothing in hand.
LEMMA LeaveTyped ==
    ASSUME Typed, NEW p \in Procs, NEW result \in {"ok", "refused", "failed"}, Leave(p, result)
    PROVE  /\ HandInv'
           /\ op' \in [Procs -> {None, "push", "pull"}]
           /\ pc' \in [Procs -> {"idle"} \cup PushSteps \cup PullSteps]
           /\ image' \in [Procs -> Images \cup {None}]
           /\ todoM' \in [Procs -> SUBSET Manifests]
           /\ manifest' \in [Procs -> Manifests \cup {None}]
           /\ todo' \in [Procs -> SUBSET Entries]
           /\ cur' \in [Procs -> Digests \cup {None}]
           /\ held' \in [Procs -> {None, Whole, Bad}]
           /\ layout' \in [Procs -> [Digests -> {None, Whole, Bad, Link}]]
           /\ \A q \in Procs : op'[q] # "pull" => layout'[q] = NoLayout
           /\ ops' \in 0..MaxOps
           /\ alone' \subseteq Procs
           /\ settled' \subseteq Procs
           /\ outcome' \in [Procs -> {"none", "ok", "refused", "failed"}]
           /\ pc' = [pc EXCEPT ![p] = "idle"]
<1> USE DEF Typed, Leave, Goto
<1>1. HandInv'
  BY DEF TypeOK, HandInv, PushSteps, PullSteps
<1>2. layout' \in [Procs -> [Digests -> {None, Whole, Bad, Link}]]
  BY DEF TypeOK, NoLayout
<1>3. \A q \in Procs : op'[q] # "pull" => layout'[q] = NoLayout
  BY DEF TypeOK
<1> QED
  BY <1>1, <1>2, <1>3 DEF TypeOK

\* Putting a file into the layout of a pull.
LEMMA MaterializeTyped ==
    ASSUME Typed, NEW p \in Procs, op[p] = "pull", NEW d, Materialize(p, d)
    PROVE  /\ cache' \in [Digests -> {None, Whole, Bad}]
           /\ layout' \in [Procs -> [Digests -> {None, Whole, Bad, Link}]]
           /\ \A q \in Procs : op[q] # "pull" => layout'[q] = NoLayout
<1>1. /\ cache \in [Digests -> {None, Whole, Bad}]
      /\ layout \in [Procs -> [Digests -> {None, Whole, Bad, Link}]]
      /\ \A q \in Procs : op[q] # "pull" => layout[q] = NoLayout
  BY DEF Typed, TypeOK
<1>2. cache' \in [Digests -> {None, Whole, Bad}]
  BY <1>1 DEF Materialize
<1>3. PICK c : layout' = [layout EXCEPT ![p][d] = c] /\ c \in {cache[d], Link}
  BY DEF Materialize
<1>4. [layout[p] EXCEPT ![d] = c] \in [Digests -> {None, Whole, Bad, Link}]
  <2>1. d \in Digests => c \in {None, Whole, Bad, Link}
    BY <1>1, <1>3
  <2> QED
    BY <1>1, <2>1
<1>5. layout' = [layout EXCEPT ![p] = [layout[p] EXCEPT ![d] = c]]
  BY <1>3
<1> QED
  BY <1>1, <1>2, <1>4, <1>5

\* Replacing a cached file.
LEMMA ReplaceTyped ==
    ASSUME Typed, NEW d, NEW c \in {None, Whole, Bad}, Replace(d, c)
    PROVE  /\ cache' \in [Digests -> {None, Whole, Bad}]
           /\ layout' \in [Procs -> [Digests -> {None, Whole, Bad, Link}]]
           /\ \A q \in Procs : op[q] # "pull" => layout'[q] = NoLayout
<1>1. cache' \in [Digests -> {None, Whole, Bad}]
  <2>1. cache \in [Digests -> {None, Whole, Bad}]
    BY DEF Typed, TypeOK
  <2> QED
    BY <2>1 DEF Replace
<1>2. ASSUME NEW q \in Procs
      PROVE  layout'[q] = [layout[q] EXCEPT ![d] = View(q, d)]
  BY DEF Replace
<1>3. ASSUME NEW q \in Procs, d \in Digests
      PROVE  View(q, d) \in {None, Whole, Bad}
  BY <1>3 DEF View, Typed, TypeOK
<1>4. ASSUME NEW q \in Procs
      PROVE  layout'[q] \in [Digests -> {None, Whole, Bad, Link}]
  <2>1. layout[q] \in [Digests -> {None, Whole, Bad, Link}]
    BY DEF Typed, TypeOK
  <2> QED
    BY <1>2, <1>3, <2>1
<1>5. layout' \in [Procs -> [Digests -> {None, Whole, Bad, Link}]]
  <2>1. layout' = [q \in Procs |-> layout'[q]]
    BY DEF Replace
  <2> QED
    BY <1>4, <2>1
<1>6. ASSUME NEW q \in Procs, op[q] # "pull"
      PROVE  layout'[q] = NoLayout
  <2>1. layout[q] = NoLayout
    BY <1>6 DEF Typed, TypeOK
  <2>2. d \in Digests => View(q, d) = None
    BY <2>1, RegistryAssumption DEF View, NoLayout
  <2> QED
    BY <1>2, <2>1, <2>2 DEF NoLayout
<1> QED
  BY <1>1, <1>5, <1>6

\* Every step keeps the types.  The registry, the cache and the counters are dealt
\* with action by action; what a command leaves when it ends, by LeaveTyped.
LEMMA StepTyped == Typed /\ [Next]_vars => Typed'
<1> SUFFICES ASSUME Typed, [Next]_vars PROVE Typed'
  OBVIOUS
<1> USE DEF Typed
<1>u. CASE UNCHANGED vars
  <2>1. TypeOK'
    BY <1>u DEF TypeOK, vars, registry, local, work, bounds, history
  <2>2. HandInv'
    BY <1>u DEF HandInv, vars, registry, local, work, bounds, history
  <2> QED
    BY <2>1, <2>2
<1>f. ASSUME NEW p \in Procs, Fault(p)
      PROVE  faults' \in 0..MaxFaults /\ lucky' \subseteq Procs
  BY <1>f, RegistryAssumption DEF Fault, TypeOK
<1>e. ASSUME NEW p \in Procs, NEW o \in {"push", "pull"}, NEW s, Enter(p, o, s)
      PROVE  /\ op' = [op EXCEPT ![p] = o] /\ pc' = [pc EXCEPT ![p] = s]
             /\ op' \in [Procs -> {None, "push", "pull"}]
             /\ ops' \in 0..MaxOps /\ faults' = faults /\ died' = died
             /\ outcome' \in [Procs -> {"none", "ok", "refused", "failed"}]
             /\ lucky' \subseteq Procs
             /\ op[p] = None
  BY <1>e, RegistryAssumption DEF Enter, Goto, TypeOK
<1>1. ASSUME NEW p \in Procs, PushStart(p) PROVE Typed'
  <2>1. Enter(p, "push", "probe")
    BY <1>1 DEF PushStart
  <2>2. PICK i \in Images : image' = [image EXCEPT ![p] = i]
    BY <1>1 DEF PushStart
  <2>3. TypeOK'
    <3>1. alone' \subseteq Procs /\ settled' \subseteq Procs
      BY <1>1 DEF PushStart, TypeOK
    <3>2. \A q \in Procs : op'[q] # "pull" => layout'[q] = NoLayout
      <4>1. layout' = layout /\ op' = [op EXCEPT ![p] = "push"] /\ op[p] # "pull"
        BY <1>1, <2>1, <1>e, RegistryAssumption DEF PushStart
      <4> QED
        BY <4>1 DEF TypeOK
    <3>3. pc' \in [Procs -> {"idle"} \cup PushSteps \cup PullSteps]
      <4>1. pc' = [pc EXCEPT ![p] = "probe"]
        BY <2>1, <1>e
      <4> QED
        BY <4>1 DEF TypeOK, PushSteps
    <3>4. image' \in [Procs -> Images \cup {None}]
      BY <2>2 DEF TypeOK
    <3> QED
      BY <1>1, <2>1, <1>e, <3>1, <3>2, <3>3, <3>4 DEF PushStart, TypeOK, registry, local
  <2>4. HandInv'
    BY <1>1, <2>1, <2>2, <1>e DEF PushStart, TypeOK, HandInv, PushSteps, PullSteps
  <2> QED
    BY <2>3, <2>4
<1>n. ASSUME NEW p \in Procs, NEW ms \in SUBSET Manifests, PushNext(p, ms),
             pc[p] \in PushSteps
      PROVE  /\ HandInv'
             /\ pc' \in [Procs -> {"idle"} \cup PushSteps \cup PullSteps]
             /\ todoM' \in [Procs -> SUBSET Manifests]
             /\ manifest' \in [Procs -> Manifests \cup {None}]
             /\ todo' \in [Procs -> SUBSET Entries]
             /\ UNCHANGED <<op, image, cur, held, layout, bounds, history>>
  <2>1. op[p] = "push" /\ image[p] \in Images
    BY <1>n DEF HandInv
  <2>2. CASE ms = {}
    <3>1. /\ pc' = [pc EXCEPT ![p] = "tag"] /\ todoM' = [todoM EXCEPT ![p] = ms]
          /\ UNCHANGED <<manifest, todo, op, image, cur, held, layout, bounds, history>>
      BY <1>n, <2>2 DEF PushNext, Goto
    <3>2. HandInv'
      BY <2>1, <3>1 DEF TypeOK, HandInv, PushSteps, PullSteps
    <3> QED
      BY <3>1, <3>2 DEF TypeOK, PushSteps
  <2>3. CASE ms # {}
    <3>1. PICK m \in ms : /\ pc' = [pc EXCEPT ![p] = "head"]
                          /\ manifest' = [manifest EXCEPT ![p] = m]
                          /\ todo' = [todo EXCEPT ![p] = EntriesOf[m]]
      BY <1>n, <2>3 DEF PushNext, Goto
    <3>2. EntriesOf[m] \subseteq Entries
      BY RegistryAssumption
    <3> QED
      BY <1>n, <2>1, <3>1, <3>2 DEF PushNext, TypeOK, HandInv, PushSteps, PullSteps
  <2> QED
    BY <2>2, <2>3
<1>2. ASSUME NEW p \in Procs, PushProbe(p) PROVE Typed'
  <2>1. pc[p] \in PushSteps /\ image[p] \in Images
    BY <1>2 DEF PushProbe, HandInv, PushSteps
  <2>2. CASE End(p, "ok")
    BY <1>2, <2>2, LeaveTyped DEF PushProbe, End, TypeOK, registry, local
  <2>3. CASE PushNext(p, ManifestsOf[image[p]])
    <3>1. ManifestsOf[image[p]] \subseteq Manifests
      BY <2>1, RegistryAssumption
    <3> QED
      BY <1>2, <2>1, <2>3, <3>1, <1>n DEF PushProbe, TypeOK, registry, local, bounds, history
  <2> QED
    BY <1>2, <2>2, <2>3 DEF PushProbe
<1>3. ASSUME NEW p \in Procs, PushHead(p) PROVE Typed'
  <2>1. PICK e \in todo[p] :
          /\ todo' = [todo EXCEPT ![p] = @ \ {e}]
          /\ IF DigestOf[e] \in blobs
             THEN UNCHANGED <<pc, cur>>
             ELSE pc' = [pc EXCEPT ![p] = "upload"] /\ cur' = [cur EXCEPT ![p] = DigestOf[e]]
    BY <1>3 DEF PushHead, Goto
  <2>2. DigestOf[e] \in Blobs
    BY <2>1, RegistryAssumption DEF TypeOK
  <2>3. TypeOK'
    <3>1. todo' \in [Procs -> SUBSET Entries]
      BY <2>1 DEF TypeOK
    <3>2. pc' \in [Procs -> {"idle"} \cup PushSteps \cup PullSteps]
      BY <2>1 DEF TypeOK, PushSteps
    <3>3. cur' \in [Procs -> Digests \cup {None}]
      BY <2>1, <2>2 DEF TypeOK, Digests
    <3> QED
      BY <1>3, <3>1, <3>2, <3>3 DEF PushHead, TypeOK, registry, local, bounds, history
  <2>4. HandInv'
    BY <1>3, <2>1, <2>2 DEF PushHead, TypeOK, HandInv, PushSteps, PullSteps
  <2> QED
    BY <2>3, <2>4
<1>4. ASSUME NEW p \in Procs, PushUpload(p) PROVE Typed'
  <2>1. cur[p] \in Blobs /\ blobs' \subseteq Blobs /\ UNCHANGED <<manifests, tag, immutable, local>>
    BY <1>4 DEF PushUpload, HandInv, TypeOK
  <2>2. CASE Uploaded(p)
    <3>1. TypeOK'
      BY <2>1, <2>2 DEF Uploaded, Goto, TypeOK, local, bounds, history, PushSteps
    <3>2. HandInv'
      BY <1>4, <2>2 DEF PushUpload, Uploaded, Goto, TypeOK, HandInv, PushSteps, PullSteps
    <3> QED
      BY <3>1, <3>2
  <2>3. CASE AnswerLost(p)
    BY <2>1, <2>3, <1>f, LeaveTyped DEF AnswerLost, TypeOK, local
  <2> QED
    BY <1>4, <2>2, <2>3 DEF PushUpload
<1>5. ASSUME NEW p \in Procs, PushManifest(p) PROVE Typed'
  <2>1. /\ manifest[p] \in Manifests /\ manifests' \subseteq Manifests
        /\ UNCHANGED <<blobs, tag, immutable, local>> /\ pc[p] \in PushSteps
    BY <1>5 DEF PushManifest, HandInv, TypeOK, PushSteps
  <2>2. CASE PushNext(p, todoM[p] \ {manifest[p]})
    <3>1. todoM[p] \ {manifest[p]} \in SUBSET Manifests
      BY DEF TypeOK
    <3> QED
      BY <2>1, <2>2, <3>1, <1>n DEF TypeOK, local, bounds, history
  <2>3. CASE AnswerLost(p)
    BY <2>1, <2>3, <1>f, LeaveTyped DEF AnswerLost, TypeOK, local
  <2> QED
    BY <1>5, <2>2, <2>3 DEF PushManifest
<1>6. ASSUME NEW p \in Procs, PushTag(p) PROVE Typed'
  <2>1. /\ tag' \in Images \cup {None} /\ UNCHANGED <<blobs, manifests, immutable, local>>
        /\ End(p, "refused") \/ End(p, "ok") \/ AnswerLost(p)
    BY <1>6 DEF PushTag, TypeOK
  <2>2. CASE AnswerLost(p)
    BY <2>1, <2>2, <1>f, LeaveTyped DEF AnswerLost, TypeOK, local
  <2>3. ASSUME NEW r \in {"ok", "refused"}, End(p, r) PROVE Typed'
    BY <2>1, <2>3, LeaveTyped DEF End, TypeOK, local
  <2> QED
    BY <2>1, <2>2, <2>3
<1>7. ASSUME NEW p \in Procs, PullStart(p) PROVE Typed'
  <2>1. Enter(p, "pull", "index") /\ alone' \subseteq Procs /\ settled' \subseteq Procs
    BY <1>7 DEF PullStart, TypeOK
  <2>2. TypeOK'
    <3>1. \A q \in Procs : op'[q] # "pull" => layout'[q] = NoLayout
      BY <1>7, <2>1, <1>e DEF PullStart, TypeOK, work
    <3>2. pc' \in [Procs -> {"idle"} \cup PushSteps \cup PullSteps]
      <4>1. pc' = [pc EXCEPT ![p] = "index"]
        BY <2>1, <1>e
      <4> QED
        BY <4>1 DEF TypeOK, PullSteps
    <3> QED
      BY <1>7, <2>1, <1>e, <3>1, <3>2 DEF PullStart, TypeOK, registry, local, work
  <2>3. HandInv'
    BY <1>7, <2>1, <1>e DEF PullStart, TypeOK, HandInv, work, PushSteps, PullSteps
  <2> QED
    BY <2>2, <2>3
<1>8. ASSUME NEW p \in Procs, PullIndex(p) PROVE Typed'
  <2>1. CASE tag = None
    BY <1>8, <2>1, LeaveTyped DEF PullIndex, End, TypeOK, registry, local
  <2>2. CASE tag # None
    <3>1. tag \in Images /\ ManifestsOf[tag] \subseteq Manifests
      BY <2>2, RegistryAssumption DEF TypeOK
    <3>2. TypeOK'
      BY <1>8, <2>2, <3>1
         DEF PullIndex, Goto, TypeOK, registry, local, bounds, history, PullSteps
    <3>3. HandInv'
      BY <1>8, <2>2, <3>1 DEF PullIndex, Goto, TypeOK, HandInv, PushSteps, PullSteps
    <3> QED
      BY <3>2, <3>3
  <2> QED
    BY <2>1, <2>2
<1>9. ASSUME NEW p \in Procs, PullManifest(p) PROVE Typed'
  <2>1. UNCHANGED <<registry, local>> /\ op[p] = "pull"
    BY <1>9 DEF PullManifest, HandInv, PullSteps
  <2>2. CASE End(p, "failed")
    BY <2>1, <2>2, LeaveTyped DEF End, TypeOK, registry, local
  <2>3. ASSUME NEW m \in Manifests, Received(p, m, Whole), UNCHANGED <<faults, lucky>>
        PROVE  Typed'
    <3>1. TypeOK'
      BY <2>1, <2>3 DEF Received, Goto, TypeOK, registry, local, PullSteps, Digests
    <3>2. HandInv'
      BY <2>1, <2>3 DEF Received, Goto, TypeOK, HandInv, PushSteps, PullSteps
    <3> QED
      BY <3>1, <3>2
  <2> QED
    BY <1>9, <2>2, <2>3 DEF PullManifest, TypeOK
<1>10. ASSUME NEW p \in Procs, StoreBytes(p) PROVE Typed'
  <2>1. PICK s \in {"truncate", "linkm"} : pc' = [pc EXCEPT ![p] = s]
    BY <1>10 DEF StoreBytes, Goto
  <2>2. TypeOK'
    BY <1>10, <2>1
       DEF StoreBytes, TypeOK, registry, local, work, bounds, history, PullSteps
  <2>3. HandInv'
    BY <1>10, <2>1 DEF StoreBytes, TypeOK, HandInv, work, PushSteps, PullSteps
  <2> QED
    BY <2>2, <2>3
<1>11. ASSUME NEW p \in Procs, StoreTruncate(p) \/ StoreWrite(p) PROVE Typed'
  <2>1. PICK s \in {"write", "linkm"} : pc' = [pc EXCEPT ![p] = s]
    BY <1>11 DEF StoreTruncate, StoreWrite, Goto
  <2>2. cache' \in [Digests -> {None, Whole, Bad}]
    BY <1>11 DEF StoreTruncate, StoreWrite, TypeOK
  <2>3. /\ UNCHANGED <<registry, linked, op, work, bounds, history>>
        /\ pc[p] \in {"truncate", "write"}
    BY <1>11 DEF StoreTruncate, StoreWrite
  <2>4. TypeOK'
    BY <2>1, <2>2, <2>3 DEF TypeOK, registry, work, bounds, history, PullSteps
  <2>5. HandInv'
    BY <2>1, <2>3 DEF TypeOK, HandInv, work, PushSteps, PullSteps
  <2> QED
    BY <2>4, <2>5
<1>12. ASSUME NEW p \in Procs, LinkManifest(p) PROVE Typed'
  <2>1. op[p] = "pull" /\ manifest[p] \in Manifests /\ EntriesOf[manifest[p]] \subseteq Entries
    BY <1>12, RegistryAssumption DEF LinkManifest, HandInv, PullSteps
  <2>2. TypeOK'
    BY <1>12, <2>1, MaterializeTyped
       DEF LinkManifest, Goto, TypeOK, registry, bounds, history, PullSteps
  <2>3. HandInv'
    BY <1>12, <2>1 DEF LinkManifest, Goto, TypeOK, HandInv, PushSteps, PullSteps
  <2> QED
    BY <2>2, <2>3
<1>13. ASSUME NEW p \in Procs, LookAtCache(p) PROVE Typed'
  <2>1. PICK e \in todo[p] :
          /\ todo' = [todo EXCEPT ![p] = @ \ {e}]
          /\ cur' = [cur EXCEPT ![p] = DigestOf[e]]
          /\ pc' = [pc EXCEPT ![p] = CASE cache[DigestOf[e]] = None -> "download"
                                       [] cache[DigestOf[e]] = Bad -> "discard"
                                       [] cache[DigestOf[e]] = Whole -> "link"]
    BY <1>13 DEF LookAtCache, Goto
  <2>2. DigestOf[e] \in Digests
    BY <2>1, RegistryAssumption DEF TypeOK, Digests
  <2>3. cache[DigestOf[e]] \in {None, Whole, Bad}
    BY <2>2 DEF TypeOK
  <2>4. PICK s \in {"download", "discard", "link"} : pc' = [pc EXCEPT ![p] = s]
    <3>1. CASE cache[DigestOf[e]] = None
      BY <2>1, <3>1, RegistryAssumption
    <3>2. CASE cache[DigestOf[e]] = Bad
      BY <2>1, <3>2, RegistryAssumption
    <3>3. CASE cache[DigestOf[e]] = Whole
      BY <2>1, <3>3, RegistryAssumption
    <3> QED
      BY <2>3, <3>1, <3>2, <3>3
  <2>5. TypeOK'
    BY <1>13, <2>1, <2>2, <2>4
       DEF LookAtCache, TypeOK, registry, local, bounds, history, PullSteps
  <2>6. HandInv'
    BY <1>13, <2>4, <2>1 DEF LookAtCache, TypeOK, HandInv, PushSteps, PullSteps
  <2> QED
    BY <2>5, <2>6
<1>14. ASSUME NEW p \in Procs, Discard(p) \/ Download(p) PROVE Typed'
  <2>1. UNCHANGED <<registry, linked>> /\ op[p] = "pull" /\ pc[p] \in {"discard", "download"}
    BY <1>14 DEF Discard, Download, HandInv, PullSteps
  <2>2. CASE End(p, "failed") /\ UNCHANGED cache
    BY <2>1, <2>2, LeaveTyped DEF End, TypeOK, registry
  <2>3. ASSUME NEW c \in {None, Whole, Bad}, NEW s \in {"download", "link"},
               Replace(cur[p], c), Goto(p, s),
               UNCHANGED <<op, image, todoM, manifest, todo, cur, held, bounds, history>>
        PROVE  Typed'
    <3>1. TypeOK'
      BY <2>1, <2>3, ReplaceTyped DEF Goto, TypeOK, registry, bounds, history, PullSteps
    <3>2. HandInv'
      BY <2>1, <2>3 DEF Goto, TypeOK, HandInv, PushSteps, PullSteps
    <3> QED
      BY <3>1, <3>2
  <2> QED
    BY <1>14, <2>2, <2>3 DEF Discard, Download
<1>15. ASSUME NEW p \in Procs, LinkBlob(p) PROVE Typed'
  <2>1. UNCHANGED <<registry, linked>> /\ op[p] = "pull" /\ pc[p] = "link"
    BY <1>15 DEF LinkBlob, HandInv, PullSteps
  <2>2. CASE End(p, "failed") /\ UNCHANGED cache
    BY <2>1, <2>2, LeaveTyped DEF End, TypeOK, registry
  <2>3. CASE /\ Materialize(p, cur[p]) /\ Goto(p, "look")
             /\ UNCHANGED <<op, image, todoM, manifest, todo, cur, held, bounds, history>>
    <3>1. TypeOK'
      BY <2>1, <2>3, MaterializeTyped DEF Goto, TypeOK, registry, bounds, history, PullSteps
    <3>2. HandInv'
      BY <2>1, <2>3 DEF Goto, TypeOK, HandInv, PushSteps, PullSteps
    <3> QED
      BY <3>1, <3>2
  <2> QED
    BY <1>15, <2>2, <2>3 DEF LinkBlob
<1>16. ASSUME NEW p \in Procs, PullNext(p) PROVE Typed'
  <2>1. PICK s \in {"unpack", "manifest"} : pc' = [pc EXCEPT ![p] = s]
    BY <1>16 DEF PullNext, Goto
  <2>2. TypeOK'
    BY <1>16, <2>1
       DEF PullNext, TypeOK, registry, local, work, bounds, history, PullSteps
  <2>3. HandInv'
    BY <1>16, <2>1 DEF PullNext, TypeOK, HandInv, work, PushSteps, PullSteps
  <2> QED
    BY <2>2, <2>3
<1>17. ASSUME NEW p \in Procs, Unpack(p) PROVE Typed'
  <2>1. PICK r \in {"ok", "failed"} : End(p, r)
    BY <1>17 DEF Unpack
  <2> QED
    BY <1>17, <2>1, LeaveTyped DEF Unpack, End, TypeOK, registry, local
<1>18. ASSUME NEW p \in Procs, RequestFails(p) \/ Crash(p) PROVE Typed'
  <2>1. Fault(p) /\ Leave(p, "failed") /\ UNCHANGED <<registry, local>> /\ died' \in BOOLEAN
    BY <1>18 DEF RequestFails, Crash, TypeOK
  <2> QED
    BY <2>1, <1>f, LeaveTyped DEF TypeOK, registry, local
<1> QED
  BY <1>u, <1>1, <1>2, <1>3, <1>4, <1>5, <1>6, <1>7, <1>8, <1>9, <1>10, <1>11, <1>12, <1>13,
     <1>14, <1>15, <1>16, <1>17, <1>18 DEF Next, Push, Pull

\* Every variable has its type.
THEOREM RegistryTypeCorrect == Spec => []TypeOK
<1>1. Init => Typed
  BY InitTyped
<1>2. Typed /\ [Next]_vars => Typed'
  BY StepTyped
<1>3. Typed => TypeOK
  BY DEF Typed
<1> QED
  BY <1>1, <1>2, <1>3, PTL DEF Spec

----------------------------------------------------------------------------
(* What the tag names is complete.                                         *)

\* The registry forgets nothing.
LEMMA RegistryGrows ==
    ASSUME [Next]_vars
    PROVE  blobs \subseteq blobs' /\ manifests \subseteq manifests'
<1>1. CASE UNCHANGED vars
  BY <1>1 DEF vars, registry
<1>2. ASSUME NEW p \in Procs, Push(p)
      PROVE  blobs \subseteq blobs' /\ manifests \subseteq manifests'
  BY <1>2 DEF Push, PushStart, PushProbe, PushHead, PushUpload, PushManifest, PushTag, registry
<1>3. ASSUME NEW p \in Procs, Pull(p) \/ RequestFails(p) \/ Crash(p)
      PROVE  blobs \subseteq blobs' /\ manifests \subseteq manifests'
  BY <1>3 DEF Pull, PullStart, PullIndex, PullManifest, StoreBytes, StoreTruncate, StoreWrite,
              LinkManifest, LookAtCache, Discard, Download, LinkBlob, PullNext, Unpack,
              RequestFails, Crash, registry
<1> QED
  BY <1>1, <1>2, <1>3 DEF Next

\* A process that keeps its place and what it has in hand keeps its promise.
LEMMA PushedStays ==
    ASSUME [Next]_vars, NEW q \in Procs, Pushed(q),
           pc'[q] = pc[q], image'[q] = image[q], todoM'[q] = todoM[q],
           manifest'[q] = manifest[q], todo'[q] = todo[q], cur'[q] = cur[q]
    PROVE  Pushed(q)'
  BY RegistryGrows DEF Pushed, Published

\* A step of p does not touch what the others have in hand.
LEMMA OthersStay ==
    ASSUME Typed, NEW p \in Procs, NEW q \in Procs \ {p},
           Push(p) \/ Pull(p) \/ RequestFails(p) \/ Crash(p)
    PROVE  /\ pc'[q] = pc[q] /\ image'[q] = image[q] /\ todoM'[q] = todoM[q]
           /\ manifest'[q] = manifest[q] /\ todo'[q] = todo[q] /\ cur'[q] = cur[q]
<1> USE DEF Typed, TypeOK, Goto, work
<1>1. ASSUME NEW r, Leave(p, r)
      PROVE  /\ pc'[q] = pc[q] /\ image'[q] = image[q] /\ todoM'[q] = todoM[q]
             /\ manifest'[q] = manifest[q] /\ todo'[q] = todo[q] /\ cur'[q] = cur[q]
  BY <1>1 DEF Leave
<1>2. CASE RequestFails(p) \/ Crash(p)
  BY <1>1, <1>2 DEF RequestFails, Crash
<1>3. ASSUME NEW ms, PushNext(p, ms)
      PROVE  /\ pc'[q] = pc[q] /\ image'[q] = image[q] /\ todoM'[q] = todoM[q]
             /\ manifest'[q] = manifest[q] /\ todo'[q] = todo[q] /\ cur'[q] = cur[q]
  BY <1>3 DEF PushNext
<1>4. CASE PushStart(p) \/ PullStart(p)
  BY <1>4 DEF PushStart, PullStart, Enter
<1>5. CASE PushProbe(p) \/ PushManifest(p) \/ PushTag(p)
  BY <1>1, <1>3, <1>5 DEF PushProbe, PushManifest, PushTag, End, AnswerLost
<1>6. CASE PushHead(p)
  BY <1>6 DEF PushHead
<1>7. CASE PushUpload(p)
  BY <1>1, <1>7 DEF PushUpload, Uploaded, AnswerLost
<1>8. CASE PullIndex(p)
  BY <1>1, <1>8 DEF PullIndex, End
<1>9. CASE PullManifest(p)
  BY <1>1, <1>9 DEF PullManifest, Received, End
<1>10. CASE StoreBytes(p) \/ StoreTruncate(p) \/ StoreWrite(p) \/ PullNext(p)
  BY <1>10 DEF StoreBytes, StoreTruncate, StoreWrite, PullNext
<1>11. CASE LinkManifest(p) \/ LookAtCache(p)
  BY <1>11 DEF LinkManifest, LookAtCache
<1>12. CASE Discard(p) \/ Download(p) \/ LinkBlob(p) \/ Unpack(p)
  BY <1>1, <1>12 DEF Discard, Download, LinkBlob, Unpack, End
<1> QED
  BY <1>2, <1>4, <1>5, <1>6, <1>7, <1>8, <1>9, <1>10, <1>11, <1>12 DEF Push, Pull

\* A command that ends promises nothing.
LEMMA LeavePushed ==
    ASSUME Typed, NEW p \in Procs, NEW r, Leave(p, r)
    PROVE  Pushed(p)'
  BY DEF Typed, TypeOK, Leave, Goto, Pushed

\* Neither does a pull.
LEMMA PullPushed ==
    ASSUME Typed, NEW p \in Procs, Pull(p) \/ RequestFails(p) \/ Crash(p)
    PROVE  Pushed(p)'
<1>1. ASSUME NEW s, pc' = [pc EXCEPT ![p] = s], s \notin {"head", "upload", "tag"}
      PROVE  Pushed(p)'
  BY <1>1 DEF Pushed, Typed, TypeOK
<1>2. CASE RequestFails(p) \/ Crash(p) \/ Unpack(p)
  BY <1>2, LeavePushed DEF RequestFails, Crash, Unpack, End
<1>3. CASE PullStart(p) \/ StoreTruncate(p) \/ StoreWrite(p) \/ LinkManifest(p)
  BY <1>1, <1>3 DEF PullStart, Enter, StoreTruncate, StoreWrite, LinkManifest, Goto
<1>4. CASE PullIndex(p) \/ PullManifest(p)
  BY <1>1, <1>4, LeavePushed DEF PullIndex, PullManifest, Received, End, Goto
<1>5. CASE Discard(p) \/ Download(p) \/ LinkBlob(p)
  BY <1>1, <1>5, LeavePushed DEF Discard, Download, LinkBlob, End, Goto
<1>6. CASE StoreBytes(p) \/ PullNext(p)
  <2>1. PICK s \in {"truncate", "linkm", "unpack", "manifest"} : pc' = [pc EXCEPT ![p] = s]
    BY <1>6 DEF StoreBytes, PullNext, Goto
  <2> QED
    BY <1>1, <2>1
<1>7. CASE LookAtCache(p)
  <2>1. PICK e \in todo[p] : pc' = [pc EXCEPT ![p] =
                 CASE cache[DigestOf[e]] = None -> "download"
                   [] cache[DigestOf[e]] = Bad -> "discard"
                   [] cache[DigestOf[e]] = Whole -> "link"]
    BY <1>7 DEF LookAtCache, Goto
  <2>2. cache[DigestOf[e]] \in {None, Whole, Bad}
    BY <2>1, RegistryAssumption DEF Typed, TypeOK, Digests
  <2>3. CASE cache[DigestOf[e]] = None
    BY <1>1, <2>1, <2>3, RegistryAssumption
  <2>4. CASE cache[DigestOf[e]] = Bad
    BY <1>1, <2>1, <2>4, RegistryAssumption
  <2>5. CASE cache[DigestOf[e]] = Whole
    BY <1>1, <2>1, <2>5, RegistryAssumption
  <2> QED
    BY <2>2, <2>3, <2>4, <2>5
<1> QED
  BY <1>2, <1>3, <1>4, <1>5, <1>6, <1>7 DEF Pull

\* The next manifest, when all but ms are published.
LEMMA NextPushed ==
    ASSUME Typed, NEW p \in Procs, NEW ms \in SUBSET Manifests, PushNext(p, ms),
           \A m \in ManifestsOf[image[p]] \ ms : Published(m)'
    PROVE  Pushed(p)'
<1>1. /\ image'[p] = image[p] /\ todoM'[p] = ms
      /\ \A m \in ManifestsOf[image'[p]] \ todoM'[p] : Published(m)'
  BY DEF PushNext, Typed, TypeOK
<1>2. CASE ms = {}
  <2>1. pc'[p] = "tag"
    BY <1>2 DEF PushNext, Goto, Typed, TypeOK
  <2> QED
    BY <1>1, <1>2, <2>1 DEF Pushed
<1>3. CASE ms # {}
  <2>1. PICK m \in ms : pc'[p] = "head" /\ manifest'[p] = m /\ todo'[p] = EntriesOf[m]
    BY <1>3 DEF PushNext, Goto, Typed, TypeOK
  <2>2. EntriesOf[manifest'[p]] \ todo'[p] = {}
    BY <2>1
  <2> QED
    BY <1>1, <2>1, <2>2 DEF Pushed
<1> QED
  BY <1>2, <1>3

\* A step of a push publishes before it moves on.
LEMMA PushPushed ==
    ASSUME Typed, NEW p \in Procs, Pushed(p), Push(p), [Next]_vars
    PROVE  Pushed(p)'
<1>g. blobs \subseteq blobs' /\ manifests \subseteq manifests'
  BY RegistryGrows
<1>1. CASE PushStart(p)
  BY <1>1 DEF PushStart, Enter, Goto, Pushed, Typed, TypeOK
<1>2. CASE PushProbe(p)
  <2>1. CASE End(p, "ok")
    BY <2>1, LeavePushed DEF End
  <2>2. CASE PushNext(p, ManifestsOf[image[p]])
    <3>1. image[p] \in Images
      BY <1>2 DEF PushProbe, Typed, HandInv, PushSteps
    <3>2. ManifestsOf[image[p]] \in SUBSET Manifests
      BY <3>1, RegistryAssumption
    <3> QED
      BY <2>2, <3>2, NextPushed
  <2> QED
    BY <1>2, <2>1, <2>2 DEF PushProbe
<1>3. CASE PushHead(p)
  <2>1. PICK e \in todo[p] :
          /\ todo' = [todo EXCEPT ![p] = @ \ {e}]
          /\ IF DigestOf[e] \in blobs
             THEN UNCHANGED <<pc, cur>>
             ELSE pc' = [pc EXCEPT ![p] = "upload"] /\ cur' = [cur EXCEPT ![p] = DigestOf[e]]
    BY <1>3 DEF PushHead, Goto
  <2>2. /\ image' = image /\ todoM' = todoM /\ manifest' = manifest
        /\ blobs' = blobs /\ manifests' = manifests /\ pc[p] = "head"
        /\ todo'[p] = todo[p] \ {e}
    BY <1>3, <2>1 DEF PushHead, registry, Typed, TypeOK
  <2>3. CASE DigestOf[e] \in blobs
    BY <2>1, <2>2, <2>3 DEF Pushed, Published
  <2>4. CASE DigestOf[e] \notin blobs
    <3>1. pc'[p] = "upload" /\ cur'[p] = DigestOf[e]
      BY <2>1, <2>4 DEF Typed, TypeOK
    <3> QED
      BY <2>2, <3>1 DEF Pushed, Published
  <2> QED
    BY <2>3, <2>4
<1>4. CASE PushUpload(p)
  <2>1. CASE AnswerLost(p)
    BY <2>1, LeavePushed DEF AnswerLost
  <2>2. CASE Uploaded(p)
    <3>1. /\ image' = image /\ todoM' = todoM /\ manifest' = manifest /\ todo' = todo
          /\ pc[p] = "upload" /\ pc'[p] = "head" /\ cur[p] \in blobs'
      BY <1>4, <2>2 DEF PushUpload, Uploaded, Goto, Typed, TypeOK
    <3> QED
      BY <1>g, <3>1 DEF Pushed, Published
  <2> QED
    BY <1>4, <2>1, <2>2 DEF PushUpload
<1>5. CASE PushManifest(p)
  <2>1. CASE AnswerLost(p)
    BY <2>1, LeavePushed DEF AnswerLost
  <2>2. CASE PushNext(p, todoM[p] \ {manifest[p]})
    <3>1. /\ pc[p] = "head" /\ todo[p] = {} /\ manifest[p] \in manifests'
          /\ blobs' = blobs /\ manifest[p] \in Manifests
      BY <1>5 DEF PushManifest, Typed, HandInv
    <3>2. \A m \in {manifest[p]} : Published(m)'
      BY <3>1 DEF Pushed, Published, BlobsIn
    <3>3. \A m \in ManifestsOf[image[p]] \ todoM[p] : Published(m)'
      BY <1>g, <3>1 DEF Pushed, Published
    <3>4. \A m \in ManifestsOf[image[p]] \ (todoM[p] \ {manifest[p]}) : Published(m)'
      BY <3>2, <3>3
    <3>5. todoM[p] \ {manifest[p]} \in SUBSET Manifests
      BY DEF Typed, TypeOK
    <3> QED
      BY <2>2, <3>4, <3>5, NextPushed
  <2> QED
    BY <1>5, <2>1, <2>2 DEF PushManifest
<1>6. CASE PushTag(p)
  BY <1>6, LeavePushed DEF PushTag, End, AnswerLost
<1> QED
  BY <1>1, <1>2, <1>3, <1>4, <1>5, <1>6 DEF Push

\* The tag moves to an image whose manifests are all published.
LEMMA TagStep ==
    ASSUME Typed, PushInv, TagInv, [Next]_vars
    PROVE  TagInv'
<1>g. blobs \subseteq blobs' /\ manifests \subseteq manifests'
  BY RegistryGrows
<1>1. CASE tag' = tag
  BY <1>1, <1>g DEF TagInv, Published
<1>2. ASSUME NEW p \in Procs, pc[p] = "tag", tag' = image[p]
      PROVE  TagInv'
  <2>1. \A m \in ManifestsOf[image[p]] : Published(m)
    BY <1>2 DEF PushInv, Pushed
  <2> QED
    BY <1>g, <1>2, <2>1 DEF TagInv, Published
<1>3. tag' = tag \/ \E p \in Procs : pc[p] = "tag" /\ tag' = image[p]
  <2>1. CASE UNCHANGED vars
    BY <2>1 DEF vars, registry
  <2>2. ASSUME NEW p \in Procs, Push(p)
        PROVE  tag' = tag \/ (pc[p] = "tag" /\ tag' = image[p])
    BY <2>2 DEF Push, PushStart, PushProbe, PushHead, PushUpload, PushManifest, PushTag, registry
  <2>3. ASSUME NEW p \in Procs, Pull(p) \/ RequestFails(p) \/ Crash(p)
        PROVE  tag' = tag
    BY <2>3 DEF Pull, PullStart, PullIndex, PullManifest, StoreBytes, StoreTruncate, StoreWrite,
                LinkManifest, LookAtCache, Discard, Download, LinkBlob, PullNext, Unpack,
                RequestFails, Crash, registry
  <2> QED
    BY <2>1, <2>2, <2>3 DEF Next
<1> QED
  BY <1>1, <1>2, <1>3

\* What has been published stays so, and the tag follows it.
LEMMA InitTagged == Init => Typed /\ PushInv /\ TagInv
<1> SUFFICES ASSUME Init PROVE Typed /\ PushInv /\ TagInv
  OBVIOUS
<1>1. PushInv
  BY DEF Init, PushInv, Pushed
<1>2. TagInv
  BY DEF Init, TagInv, Published
<1> QED
  BY <1>1, <1>2, InitTyped

LEMMA TaggedStep == Typed /\ PushInv /\ TagInv /\ [Next]_vars => (Typed /\ PushInv /\ TagInv)'
<1> SUFFICES ASSUME Typed, PushInv, TagInv, [Next]_vars PROVE (Typed /\ PushInv /\ TagInv)'
  OBVIOUS
<1>1. PushInv'
  <2>1. CASE UNCHANGED vars
    <3>1. /\ pc' = pc /\ image' = image /\ todoM' = todoM
          /\ manifest' = manifest /\ todo' = todo /\ cur' = cur
      BY <2>1 DEF vars, work
    <3>2. ASSUME NEW q \in Procs PROVE Pushed(q)'
      BY <3>1, PushedStays DEF PushInv
    <3> QED
      BY <3>2 DEF PushInv
  <2>2. ASSUME NEW p \in Procs, Push(p) \/ Pull(p) \/ RequestFails(p) \/ Crash(p),
               NEW q \in Procs
        PROVE  Pushed(q)'
    <3>1. CASE q # p
      <4>1. /\ pc'[q] = pc[q] /\ image'[q] = image[q] /\ todoM'[q] = todoM[q]
            /\ manifest'[q] = manifest[q] /\ todo'[q] = todo[q] /\ cur'[q] = cur[q]
        BY <2>2, <3>1, OthersStay
      <4> QED
        BY <4>1, PushedStays DEF PushInv
    <3>2. CASE q = p
      BY <2>2, <3>2, PushPushed, PullPushed DEF PushInv
    <3> QED
      BY <3>1, <3>2
  <2> QED
    BY <2>1, <2>2 DEF Next, PushInv
<1> QED
  BY <1>1, StepTyped, TagStep

\* However pushes overlap, fail and die, the tag names an image whose manifests and
\* blobs the registry has.
THEOREM TagAlwaysComplete == Spec => []TagIsComplete
<1>1. Typed /\ PushInv /\ TagInv => TagIsComplete
  BY DEF TagInv, Published, TagIsComplete, Content
<1> QED
  BY <1>1, InitTagged, TaggedStep, PTL DEF Spec

----------------------------------------------------------------------------
(* What a pull has in its layout.                                          *)

StoreSteps == {"store", "truncate", "write", "linkm"}
BlobSteps == {"discard", "download", "link"}

\* No image lists a blob twice.
NoDigestRepeats ==
    \A i \in Images : \A m, n \in ManifestsOf[i] :
        \A e \in EntriesOf[m], f \in EntriesOf[n] :
            DigestOf[e] = DigestOf[f] => m = n /\ e = f

\* A layout is made of copies, or no file is put into it twice.
LinksAreSafe == linked => NoDigestRepeats

Pieces(ms) == ms \cup UNION {BlobsIn(m) : m \in ms}
Seen(p) == ManifestsOf[image[p]] \ todoM[p]
Looked(p) == {DigestOf[e] : e \in EntriesOf[manifest[p]] \ todo[p]}

\* The files of the layout of p; at a blob, the one in hand may be among them or not.
Expected(p) ==
    CASE pc[p] \in {"manifest", "unpack"} -> Pieces(Seen(p))
      [] pc[p] \in StoreSteps -> Pieces(Seen(p) \ {manifest[p]})
      [] pc[p] \in {"look"} \cup BlobSteps ->
            Pieces(Seen(p) \ {manifest[p]}) \cup {manifest[p]} \cup Looked(p)
      [] OTHER -> {}

\* A pull has one image, whose manifests and blobs the registry has; what it has in
\* hand is of that image; and its layout has the files it should.
PullShape(p) ==
    /\ pc[p] \in PullSteps \ {"index"} =>
        /\ image[p] \in Images
        /\ todoM[p] \subseteq ManifestsOf[image[p]]
        /\ \A m \in ManifestsOf[image[p]] : Published(m)
    /\ pc[p] \in StoreSteps \cup {"look"} \cup BlobSteps => manifest[p] \in Seen(p)
    /\ pc[p] \in StoreSteps => cur[p] = manifest[p] /\ held[p] = Whole
    /\ pc[p] \in {"look"} \cup BlobSteps => todo[p] \subseteq EntriesOf[manifest[p]]
    /\ pc[p] \in BlobSteps => cur[p] \in Looked(p)
    /\ pc[p] = "unpack" => todoM[p] = {}

LayoutShape(p) ==
    /\ pc[p] \in PullSteps => \A d \in Digests :
           ~(pc[p] \in BlobSteps /\ d = cur[p]) => (layout[p][d] # None <=> d \in Expected(p))
    /\ pc[p] \in BlobSteps /\ linked => layout[p][cur[p]] = None

\* No pull of another process makes a cached blob bad, and none ever puts a bad one into
\* its layout.
BlobShape(p) ==
    /\ pc[p] = "link" => cache[cur[p]] # Bad
    /\ pc[p] = "linkm" => cache[cur[p]] # None
    /\ \A b \in Blobs : layout[p][b] # None => View(p, b) = Whole

PullInv ==
    /\ LinksAreSafe
    /\ \A p \in Procs : PullShape(p) /\ LayoutShape(p) /\ BlobShape(p)

\* While nobody has died in one, a bad manifest in the cache is one being written.
CacheInv ==
    ~died => \A m \in Manifests : cache[m] = Bad => \E q \in Procs : pc[q] = "write" /\ cur[q] = m

\* A pull that is alone finds the cache as it has left it.
AloneShape(p) ==
    /\ op[p] = "pull" =>
        /\ \A q \in Procs : op[q] = "pull" => q = p
        /\ pc[p] \in {"discard", "link"} => cache[cur[p]] # None
        /\ ~died => \A m \in Manifests : layout[p][m] # None => View(p, m) = Whole
    /\ p \in lucky /\ ~died => outcome[p] # "failed"

AloneInv == \A p \in alone : AloneShape(p)

SettledInv ==
    \A p \in settled :
        /\ op[p] # "pull"
        /\ op[p] = "push" /\ immutable => pc[p] = "probe" /\ image[p] = tag
        /\ p \in lucky => outcome[p] \notin {"failed", "refused"}

----------------------------------------------------------------------------
(* Steps of one process, seen by another.                                  *)

\* Nor does it touch how their commands go.
LEMMA OthersGoOn ==
    ASSUME Typed, NEW p \in Procs, NEW q \in Procs \ {p},
           Push(p) \/ Pull(p) \/ RequestFails(p) \/ Crash(p)
    PROVE  /\ op'[q] = op[q] /\ held'[q] = held[q] /\ outcome'[q] = outcome[q]
           /\ q \in settled' <=> q \in settled
           /\ q \in lucky' <=> q \in lucky
           /\ q \in alone' => q \in alone
<1> USE DEF Typed, TypeOK, history, work, bounds
<1> DEFINE Same == /\ op'[q] = op[q] /\ held'[q] = held[q] /\ outcome'[q] = outcome[q]
                   /\ q \in settled' <=> q \in settled
                   /\ q \in lucky' <=> q \in lucky
                   /\ q \in alone' => q \in alone
<1>1. ASSUME NEW r, Leave(p, r), UNCHANGED lucky \/ Fault(p)
      PROVE  Same
  BY <1>1 DEF Leave, Fault
<1>2. CASE RequestFails(p) \/ Crash(p)
  BY <1>1, <1>2 DEF RequestFails, Crash
<1>3. CASE PushStart(p) \/ PullStart(p)
  BY <1>3 DEF PushStart, PullStart, Enter
<1>4. ASSUME NEW ms, PushNext(p, ms)
      PROVE  Same
  BY <1>4 DEF PushNext
<1>5. CASE PushProbe(p) \/ PushManifest(p) \/ PushTag(p)
  BY <1>1, <1>4, <1>5 DEF PushProbe, PushManifest, PushTag, End, AnswerLost
<1>6. CASE PushHead(p)
  BY <1>6 DEF PushHead
<1>7. CASE PushUpload(p)
  BY <1>1, <1>7 DEF PushUpload, Uploaded, AnswerLost
<1>8. CASE PullIndex(p)
  BY <1>1, <1>8 DEF PullIndex, End
<1>9. CASE PullManifest(p)
  BY <1>1, <1>9 DEF PullManifest, Received, End
<1>10. CASE StoreBytes(p) \/ StoreTruncate(p) \/ StoreWrite(p) \/ PullNext(p)
  BY <1>10 DEF StoreBytes, StoreTruncate, StoreWrite, PullNext
<1>11. CASE LinkManifest(p) \/ LookAtCache(p)
  BY <1>11 DEF LinkManifest, LookAtCache
<1>12. CASE Discard(p) \/ Download(p) \/ LinkBlob(p) \/ Unpack(p)
  BY <1>1, <1>12 DEF Discard, Download, LinkBlob, Unpack, End
<1> QED
  BY <1>2, <1>3, <1>5, <1>6, <1>7, <1>8, <1>9, <1>10, <1>11, <1>12 DEF Push, Pull

\* What never changes, and what changes once.
LEMMA Fixed ==
    ASSUME Typed, NEW p \in Procs, Push(p) \/ Pull(p) \/ RequestFails(p) \/ Crash(p)
    PROVE  /\ immutable' = immutable /\ linked' = linked
           /\ died => died'
           /\ immutable /\ tag # None => tag' = tag
<1> USE DEF history, registry, local
<1>1. CASE RequestFails(p) \/ Crash(p)
  BY <1>1 DEF RequestFails, Crash, Typed, TypeOK
<1>2. CASE Push(p)
  BY <1>2 DEF Push, PushStart, Enter, PushProbe, PushNext, PushHead, PushUpload, Uploaded,
              PushManifest, PushTag, End, AnswerLost
<1>3. CASE PullStart(p) \/ PullIndex(p) \/ PullManifest(p) \/ StoreBytes(p) \/ StoreTruncate(p)
           \/ StoreWrite(p) \/ LinkManifest(p) \/ LookAtCache(p)
  BY <1>3 DEF PullStart, Enter, PullIndex, PullManifest, Received, StoreBytes, StoreTruncate,
              StoreWrite, LinkManifest, LookAtCache, End
<1>4. CASE Discard(p) \/ Download(p) \/ LinkBlob(p) \/ PullNext(p) \/ Unpack(p)
  BY <1>4 DEF Discard, Download, LinkBlob, PullNext, Unpack, End
<1> QED
  BY <1>1, <1>2, <1>3, <1>4 DEF Pull

----------------------------------------------------------------------------
(* Pushes of what the tag names already.                                   *)

\* Such a push ends well, or is hit by a fault: where tags are immutable, the probe
\* finds the image still there, and elsewhere no push is refused.
LEMMA SettledStep ==
    ASSUME Typed, SettledInv, [Next]_vars
    PROVE  SettledInv'
<1>1. CASE UNCHANGED vars
  BY <1>1 DEF SettledInv, vars, registry, work, history
<1>2. ASSUME NEW p \in Procs, Push(p) \/ Pull(p) \/ RequestFails(p) \/ Crash(p)
      PROVE  SettledInv'
  <2> DEFINE Good(q) == /\ op[q] # "pull"
                        /\ op[q] = "push" /\ immutable => pc[q] = "probe" /\ image[q] = tag
                        /\ q \in lucky => outcome[q] \notin {"failed", "refused"}
  <2>1. ASSUME NEW q \in Procs \ {p}, q \in settled'
        PROVE  Good(q)'
    <3>1. Good(q) /\ q \in settled
      BY <1>2, <2>1, OthersGoOn DEF SettledInv
    <3>2. op[q] = "push" /\ immutable => tag # None
      BY <3>1, RegistryAssumption DEF Typed, HandInv, PushSteps
    <3> QED
      BY <1>2, <3>1, <3>2, OthersGoOn, OthersStay, Fixed
  <2>2. ASSUME p \in settled'
        PROVE  Good(p)'
    <3> USE DEF Typed, TypeOK, history
    <3>1. ASSUME NEW r, Leave(p, r), Fault(p) \/ r = "ok"
          PROVE  Good(p)'
      BY <3>1, RegistryAssumption DEF Leave, Fault
    <3>2. CASE RequestFails(p) \/ Crash(p)
      BY <3>1, <3>2 DEF RequestFails, Crash
    <3>3. CASE PushStart(p)
      <4>1. PICK i \in Images :
              /\ image' = [image EXCEPT ![p] = i]
              /\ settled' = IF i = tag THEN settled \cup {p} ELSE settled \ {p}
        BY <3>3 DEF PushStart
      <4>2. i = tag
        BY <2>2, <4>1
      <4> QED
        BY <3>3, <4>1, <4>2 DEF PushStart, Enter, Goto, registry
    <3>4. CASE Pull(p)
      <4>1. p \notin settled
        <5>1. ASSUME p \in settled PROVE FALSE
          <6>1. pc[p] \notin PullSteps
            BY <5>1 DEF SettledInv, HandInv
          <6>2. CASE PullStart(p)
            BY <2>2, <6>2 DEF PullStart
          <6> QED
            BY <3>4, <6>1, <6>2
               DEF Pull, PullSteps, PullIndex, PullManifest, StoreBytes, StoreTruncate, StoreWrite,
                   LinkManifest, LookAtCache, Discard, Download, LinkBlob, PullNext, Unpack
        <5> QED
          BY <5>1
      <4>2. settled' \subseteq settled
        <5>1. CASE PullStart(p) \/ PullIndex(p) \/ PullManifest(p) \/ StoreBytes(p)
                   \/ StoreTruncate(p) \/ StoreWrite(p) \/ LinkManifest(p) \/ LookAtCache(p)
          BY <5>1 DEF PullStart, PullIndex, PullManifest, Received, StoreBytes, StoreTruncate,
                      StoreWrite, LinkManifest, LookAtCache, End, Leave
        <5>2. CASE Discard(p) \/ Download(p) \/ LinkBlob(p) \/ PullNext(p) \/ Unpack(p)
          BY <5>2 DEF Discard, Download, LinkBlob, PullNext, Unpack, End, Leave
        <5> QED
          BY <3>4, <5>1, <5>2 DEF Pull
      <4> QED
        BY <2>2, <4>1, <4>2
    <3>5. CASE PushProbe(p) \/ PushHead(p) \/ PushUpload(p) \/ PushManifest(p) \/ PushTag(p)
      <4>1. p \in settled
        BY <2>2, <3>5 DEF PushProbe, PushHead, PushUpload, Uploaded, PushManifest, PushTag,
                          PushNext, End, AnswerLost, Leave
      <4>2. Good(p) /\ op[p] = "push" /\ image[p] # None
        BY <3>5, <4>1, RegistryAssumption DEF SettledInv, HandInv, PushSteps, PushProbe, PushHead,
                          PushUpload, PushManifest, PushTag
      <4>3. CASE PushTag(p)
        BY <3>1, <4>2, <4>3 DEF PushTag, End, AnswerLost
      <4>4. CASE PushProbe(p)
        <5>1. CASE tag = image[p]
          BY <3>1, <4>4, <5>1 DEF PushProbe, End
        <5>2. CASE tag # image[p]
          <6>1. UNCHANGED <<op, outcome, lucky, immutable>> /\ ~immutable
            BY <4>2, <4>4, <5>2 DEF PushProbe, PushNext, registry
          <6> QED
            BY <4>1, <4>2, <6>1
        <5> QED
          BY <5>1, <5>2
      <4>5. CASE PushHead(p) \/ PushUpload(p) \/ PushManifest(p)
        <5>1. ~immutable /\ immutable' = immutable
          BY <1>2, <4>2, <4>5, Fixed DEF PushHead, PushUpload, PushManifest
        <5>2. CASE AnswerLost(p)
          BY <3>1, <5>2 DEF AnswerLost
        <5>3. CASE ~AnswerLost(p)
          <6>1. UNCHANGED <<op, outcome, lucky>>
            BY <4>5, <5>3 DEF PushHead, PushUpload, PushManifest, Uploaded, PushNext
          <6> QED
            BY <4>1, <4>2, <5>1, <6>1
        <5> QED
          BY <5>2, <5>3
      <4> QED
        BY <3>5, <4>3, <4>4, <4>5
    <3> QED
      BY <1>2, <3>2, <3>3, <3>4, <3>5 DEF Push
  <2>3. settled' \subseteq Procs
    BY <1>2, StepTyped DEF Next, Typed, TypeOK
  <2>4. \A q \in settled' : Good(q)'
    BY <2>1, <2>2, <2>3
  <2> QED
    BY <2>4 DEF SettledInv
<1> QED
  BY <1>1, <1>2 DEF Next

\* A push of what the tag names already succeeds, unless a fault hits it.
THEOREM RepeatedPushAlwaysSucceeds == Spec => []RepeatedPushSucceeds
<1>1. Init => Typed /\ SettledInv
  BY InitTyped DEF Init, SettledInv
<1>2. Typed /\ SettledInv /\ [Next]_vars => (Typed /\ SettledInv)'
  BY StepTyped, SettledStep
<1>3. SettledInv => RepeatedPushSucceeds
  BY DEF SettledInv, RepeatedPushSucceeds
<1> QED
  BY <1>1, <1>2, <1>3, PTL DEF Spec

----------------------------------------------------------------------------
(* What pulls do to the cache and to each other's layouts.                 *)

\* A file that is not in the layout yet is linked or copied; the cache stays.
LEMMA MaterializeFresh ==
    ASSUME Typed, NEW p \in Procs, NEW d \in Digests, Materialize(p, d),
           linked => layout[p][d] = None
    PROVE  /\ cache' = cache
           /\ \A q \in Procs \ {p} : layout'[q] = layout[q]
           /\ \A x \in Digests : x # d => layout'[p][x] = layout[p][x]
           /\ layout'[p][d] = IF linked THEN Link ELSE cache[d]
<1>1. PICK c : /\ layout' = [layout EXCEPT ![p][d] = c] /\ cache' = cache
               /\ c = IF linked THEN Link ELSE cache[d]
  BY RegistryAssumption DEF Materialize, Typed, TypeOK
<1>2. layout' = [layout EXCEPT ![p] = [layout[p] EXCEPT ![d] = c]]
  BY <1>1
<1>3. layout \in [Procs -> [Digests -> {None, Whole, Bad, Link}]]
  BY DEF Typed, TypeOK
<1> QED
  BY <1>1, <1>2, <1>3

\* What is in hand is a digest of the right kind.
LEMMA InHand ==
    ASSUME Typed, NEW p \in Procs, PullShape(p)
    PROVE  /\ pc[p] \in StoreSteps => cur[p] \in Manifests
           /\ pc[p] \in BlobSteps => cur[p] \in Blobs
<1>1. ManifestsOf[image[p]] \subseteq Manifests \/ pc[p] \notin PullSteps \ {"index"}
  BY RegistryAssumption DEF PullShape
<1>2. CASE pc[p] \in StoreSteps
  BY <1>1, <1>2 DEF PullShape, Seen, StoreSteps, PullSteps, BlobSteps
<1>3. CASE pc[p] \in BlobSteps
  <2>1. manifest[p] \in Manifests /\ cur[p] \in Looked(p)
    BY <1>1, <1>3 DEF PullShape, Seen, BlobSteps, PullSteps
  <2> QED
    BY <1>3, <2>1, RegistryAssumption DEF Looked, BlobSteps, StoreSteps
<1> QED
  BY <1>2, <1>3

\* A manifest in hand is not in the layout yet, nor is a blob that is to be linked.
LEMMA HandIsFresh ==
    ASSUME Typed, NEW p \in Procs, PullShape(p), LayoutShape(p),
           pc[p] \in StoreSteps \cup {"link"}
    PROVE  cur[p] \in Digests /\ (pc[p] \in StoreSteps \/ linked => layout[p][cur[p]] = None)
<1>1. CASE pc[p] = "link"
  BY <1>1, InHand DEF LayoutShape, BlobSteps, StoreSteps, Digests
<1>2. CASE pc[p] \in StoreSteps
  <2>1. cur[p] = manifest[p] /\ cur[p] \in Manifests
    BY <1>2, InHand DEF PullShape
  <2>2. Expected(p) = Pieces(Seen(p) \ {manifest[p]})
    BY <1>2 DEF Expected, StoreSteps, BlobSteps
  <2>3. \A m \in Seen(p) : BlobsIn(m) \subseteq Blobs
    <3>1. Seen(p) \subseteq Manifests
      BY <1>2, RegistryAssumption DEF PullShape, PullSteps, StoreSteps, Seen
    <3> QED
      BY <3>1, RegistryAssumption DEF BlobsIn
  <2>4. cur[p] \notin Expected(p)
    BY <2>1, <2>2, <2>3, RegistryAssumption DEF Pieces
  <2> QED
    BY <1>2, <2>1, <2>4 DEF LayoutShape, PullSteps, StoreSteps, BlobSteps, Digests
<1> QED
  BY <1>1, <1>2

\* The three things a step does to the cache: nothing, a step of writing a manifest, or
\* the replacement of a blob.
LEMMA CacheStep ==
    ASSUME Typed, NEW p \in Procs, PullShape(p), LayoutShape(p),
           Push(p) \/ Pull(p) \/ RequestFails(p) \/ Crash(p)
    PROVE  \/ cache' = cache /\ \A q \in Procs \ {p} : layout'[q] = layout[q]
           \/ \E m \in Manifests, c \in {Whole, Bad} :
                /\ cache' = [cache EXCEPT ![m] = c] /\ layout' = layout
                /\ op[p] = "pull" /\ cur'[p] = m
                /\ c = Bad => pc'[p] = "write"
           \/ \E b \in Blobs, c \in {None, Whole} : Replace(b, c) /\ op[p] = "pull"
<1> USE DEF Typed, TypeOK
<1> DEFINE Quiet == cache' = cache /\ \A q \in Procs \ {p} : layout'[q] = layout[q]
<1>1. ASSUME NEW r, Leave(p, r), cache' = cache
      PROVE  Quiet
  BY <1>1 DEF Leave
<1>2. CASE RequestFails(p) \/ Crash(p)
  BY <1>1, <1>2 DEF RequestFails, Crash, local
<1>3. CASE PushStart(p) \/ PullStart(p) \/ PushHead(p)
  BY <1>3 DEF PushStart, PullStart, PushHead, local, work
<1>4. ASSUME NEW ms, PushNext(p, ms), cache' = cache
      PROVE  Quiet
  BY <1>4 DEF PushNext
<1>5. CASE PushProbe(p) \/ PushManifest(p) \/ PushTag(p)
  BY <1>1, <1>4, <1>5 DEF PushProbe, PushManifest, PushTag, End, AnswerLost, local
<1>7. CASE PushUpload(p)
  BY <1>1, <1>7 DEF PushUpload, Uploaded, AnswerLost, local
<1>8. CASE PullIndex(p)
  BY <1>1, <1>8 DEF PullIndex, End, local
<1>9. CASE PullManifest(p)
  BY <1>1, <1>9 DEF PullManifest, Received, End, local
<1>10. CASE StoreBytes(p) \/ PullNext(p)
  BY <1>10 DEF StoreBytes, PullNext, local, work
<1>11. CASE LookAtCache(p) \/ Unpack(p)
  BY <1>1, <1>11 DEF LookAtCache, Unpack, End, local
<1>12. CASE StoreTruncate(p) \/ StoreWrite(p)
  <2>1. cur[p] \in Manifests /\ held[p] = Whole /\ op[p] = "pull"
    BY <1>12, InHand DEF StoreTruncate, StoreWrite, StoreSteps, PullShape, HandInv, PullSteps
  <2>2. \E c \in {Whole, Bad} :
            /\ cache' = [cache EXCEPT ![cur[p]] = c] /\ layout' = layout
            /\ op[p] = "pull" /\ cur' = cur
            /\ c = Bad => pc'[p] = "write"
    BY <1>12, <2>1, RegistryAssumption DEF StoreTruncate, StoreWrite, Goto, work
  <2> QED
    BY <2>1, <2>2
<1>13. CASE LinkManifest(p)
  BY <1>13, HandIsFresh, MaterializeFresh DEF LinkManifest, StoreSteps
<1>14. CASE LinkBlob(p)
  <2>1. CASE Materialize(p, cur[p])
    BY <1>14, <2>1, HandIsFresh, MaterializeFresh DEF LinkBlob
  <2>2. CASE End(p, "failed") /\ UNCHANGED cache
    BY <1>1, <2>2 DEF End
  <2> QED
    BY <1>14, <2>1, <2>2 DEF LinkBlob
<1>15. CASE Discard(p) \/ Download(p)
  <2>1. cur[p] \in Blobs /\ op[p] = "pull"
    BY <1>15, InHand DEF Discard, Download, BlobSteps, HandInv, PullSteps
  <2>2. CASE End(p, "failed") /\ UNCHANGED cache
    BY <1>1, <2>2 DEF End
  <2>3. CASE \E c \in {None, Whole} : Replace(cur[p], c)
    BY <2>1, <2>3
  <2> QED
    BY <1>15, <2>2, <2>3 DEF Discard, Download
<1> QED
  BY <1>2, <1>3, <1>5, <1>7, <1>8, <1>9, <1>10, <1>11, <1>12, <1>13, <1>14, <1>15
     DEF Push, Pull

\* Replacing a blob changes no layout for its reader.
LEMMA ReplaceKeeps ==
    ASSUME Typed, NEW q \in Procs, BlobShape(q),
           NEW b \in Blobs, NEW c \in {None, Whole}, Replace(b, c)
    PROVE  /\ \A d \in Digests : layout'[q][d] # None <=> layout[q][d] # None
           /\ \A d \in Digests : View(q, d)' = View(q, d)
<1>1. /\ layout'[q] = [layout[q] EXCEPT ![b] = View(q, b)]
      /\ cache' = [cache EXCEPT ![b] = c]
  BY DEF Replace
<1>2. layout[q] \in [Digests -> {None, Whole, Bad, Link}] /\ b \in Digests
      /\ cache \in [Digests -> {None, Whole, Bad}]
  BY DEF Typed, TypeOK, Digests
<1>3. ASSUME NEW d \in Digests, d # b
      PROVE  layout'[q][d] = layout[q][d] /\ cache'[d] = cache[d]
  BY <1>1, <1>2, <1>3
<1>4. layout'[q][b] = View(q, b) /\ View(q, b) \in {None, Whole}
  BY <1>1, <1>2, RegistryAssumption DEF View, BlobShape
<1>5. layout[q][b] # None <=> View(q, b) # None
  BY RegistryAssumption DEF View, BlobShape
<1>6. View(q, b)' = View(q, b)
  BY <1>4, RegistryAssumption DEF View
<1> QED
  BY <1>3, <1>4, <1>5, <1>6 DEF View

\* What a process sees of the steps of the others.
LEMMA CacheEffect ==
    ASSUME Typed, PullInv, NEW p \in Procs,
           Push(p) \/ Pull(p) \/ RequestFails(p) \/ Crash(p)
    PROVE  /\ \A q \in Procs \ {p} :
                /\ \A d \in Digests : layout'[q][d] # None <=> layout[q][d] # None
                /\ \A b \in Blobs : View(q, b)' = View(q, b)
           /\ \A b \in Blobs : cache'[b] = Bad => cache[b] = Bad
           /\ \A m \in Manifests : cache[m] # None => cache'[m] # None
<1>t. cache \in [Digests -> {None, Whole, Bad}] /\ PullShape(p) /\ LayoutShape(p)
  BY DEF Typed, TypeOK, PullInv
<1>1. CASE cache' = cache /\ \A q \in Procs \ {p} : layout'[q] = layout[q]
  BY <1>1 DEF View
<1>2. ASSUME NEW m \in Manifests, NEW c \in {Whole, Bad},
             cache' = [cache EXCEPT ![m] = c], layout' = layout
      PROVE  /\ \A q \in Procs \ {p} :
                  /\ \A d \in Digests : layout'[q][d] # None <=> layout[q][d] # None
                  /\ \A b \in Blobs : View(q, b)' = View(q, b)
             /\ \A b \in Blobs : cache'[b] = Bad => cache[b] = Bad
             /\ \A n \in Manifests : cache[n] # None => cache'[n] # None
  <2>1. \A b \in Blobs : cache'[b] = cache[b]
    BY <1>t, <1>2, RegistryAssumption DEF Digests
  <2>2. \A n \in Manifests : cache'[n] \in {cache[n], c}
    BY <1>t, <1>2 DEF Digests
  <2> QED
    BY <1>2, <2>1, <2>2, RegistryAssumption DEF View
<1>3. ASSUME NEW b \in Blobs, NEW c \in {None, Whole}, Replace(b, c)
      PROVE  /\ \A q \in Procs \ {p} :
                  /\ \A d \in Digests : layout'[q][d] # None <=> layout[q][d] # None
                  /\ \A a \in Blobs : View(q, a)' = View(q, a)
             /\ \A a \in Blobs : cache'[a] = Bad => cache[a] = Bad
             /\ \A m \in Manifests : cache[m] # None => cache'[m] # None
  <2>1. cache' = [cache EXCEPT ![b] = c]
    BY <1>3 DEF Replace
  <2>2. \A d \in Digests : cache'[d] = IF d = b THEN c ELSE cache[d]
    BY <1>t, <2>1
  <2>3. \A m \in Manifests : m # b
    BY RegistryAssumption
  <2> QED
    BY <1>3, <2>2, <2>3, ReplaceKeeps, RegistryAssumption DEF PullInv, Digests
<1> QED
  BY <1>t, <1>1, <1>2, <1>3, CacheStep

----------------------------------------------------------------------------
(* The layout of a pull has what it should, and its blobs are whole.       *)

\* A step of another process changes none of this.
LEMMA OthersKeepLayout ==
    ASSUME Typed, PullInv, [Next]_vars, NEW p \in Procs, NEW q \in Procs \ {p},
           Push(p) \/ Pull(p) \/ RequestFails(p) \/ Crash(p)
    PROVE  PullShape(q)' /\ LayoutShape(q)' /\ BlobShape(q)'
<1>1. /\ pc'[q] = pc[q] /\ image'[q] = image[q] /\ todoM'[q] = todoM[q]
      /\ manifest'[q] = manifest[q] /\ todo'[q] = todo[q] /\ cur'[q] = cur[q]
      /\ held'[q] = held[q] /\ linked' = linked
  BY OthersStay, OthersGoOn, Fixed
<1>2. PullShape(q) /\ LayoutShape(q) /\ BlobShape(q)
  BY DEF PullInv
<1>3. /\ pc[q] \in StoreSteps => cur[q] \in Manifests
      /\ pc[q] \in BlobSteps => cur[q] \in Blobs
  BY <1>2, InHand
<1>4. PullShape(q)'
  <2>1. Seen(q)' = Seen(q) /\ Looked(q)' = Looked(q)
    BY <1>1 DEF Seen, Looked
  <2>2. \A m : Published(m) => Published(m)'
    BY RegistryGrows DEF Published
  <2> QED
    BY <1>1, <1>2, <2>1, <2>2 DEF PullShape
<1>5. LayoutShape(q)'
  <2>1. Expected(q)' = Expected(q)
    BY <1>1 DEF Expected, Seen, Looked
  <2>2. \A d \in Digests : layout'[q][d] # None <=> layout[q][d] # None
    BY CacheEffect
  <2>3. pc[q] \in BlobSteps => cur[q] \in Digests
    BY <1>3 DEF Digests
  <2> QED
    BY <1>1, <1>2, <2>1, <2>2, <2>3 DEF LayoutShape
<1>6. BlobShape(q)'
  <2>1. /\ \A d \in Digests : layout'[q][d] # None <=> layout[q][d] # None
        /\ \A b \in Blobs : View(q, b)' = View(q, b)
        /\ \A b \in Blobs : cache'[b] = Bad => cache[b] = Bad
        /\ \A m \in Manifests : cache[m] # None => cache'[m] # None
    BY CacheEffect
  <2> QED
    BY <1>1, <1>2, <1>3, <2>1 DEF BlobShape, Digests, StoreSteps, BlobSteps
<1> QED
  BY <1>4, <1>5, <1>6

\* A process that does not pull has no layout.
LEMMA NoPullNoLayout ==
    ASSUME NEW p \in Procs, op[p] # "pull", Typed
    PROVE  PullShape(p) /\ LayoutShape(p) /\ BlobShape(p)
<1>1. pc[p] \notin PullSteps
  BY DEF Typed, HandInv
<1>2. pc[p] \notin StoreSteps \cup {"look"} \cup BlobSteps /\ pc[p] # "unpack"
  BY <1>1 DEF PullSteps, StoreSteps, BlobSteps
<1>3. \A b \in Blobs : layout[p][b] = None
  BY DEF Typed, TypeOK, NoLayout, Digests
<1> QED
  BY <1>1, <1>2, <1>3 DEF PullShape, LayoutShape, BlobShape, PullSteps, StoreSteps, BlobSteps

\* A command that ends, fails or dies, and every step of a push.
LEMMA NoPullStep ==
    ASSUME Typed, [Next]_vars, NEW p \in Procs, op'[p] # "pull"
    PROVE  PullShape(p)' /\ LayoutShape(p)' /\ BlobShape(p)'
<1>1. Typed'
  BY StepTyped
<1>2. pc'[p] \notin PullSteps
  BY <1>1 DEF Typed, HandInv
<1>3. pc'[p] \notin StoreSteps \cup {"look"} \cup BlobSteps /\ pc'[p] # "unpack"
  BY <1>2 DEF PullSteps, StoreSteps, BlobSteps
<1>4. \A b \in Blobs : layout'[p][b] = None
  BY <1>1 DEF Typed, TypeOK, NoLayout, Digests
<1> QED
  BY <1>2, <1>3, <1>4 DEF PullShape, LayoutShape, BlobShape, PullSteps, StoreSteps, BlobSteps

LEMMA LeaveIsNoPull ==
    ASSUME Typed, NEW p \in Procs, NEW r, Leave(p, r)
    PROVE  op'[p] # "pull"
  BY RegistryAssumption DEF Typed, TypeOK, Leave

\* The beginning: a pull that starts, resolves the tag, and receives a manifest.
LEMMA ReceivingKeeps ==
    ASSUME Typed, PullInv, TagInv, [Next]_vars, NEW p \in Procs,
           PullStart(p) \/ PullIndex(p) \/ PullManifest(p)
    PROVE  PullShape(p)' /\ LayoutShape(p)' /\ BlobShape(p)'
<1> USE DEF Typed, TypeOK
<1>0. cache' = cache /\ linked' = linked /\ manifests' = manifests /\ blobs' = blobs
  BY DEF PullStart, PullIndex, PullManifest, registry, local
<1>1. CASE PullStart(p)
  <2>1. pc'[p] = "index" /\ layout' = layout /\ layout[p] = NoLayout
    BY <1>1, RegistryAssumption DEF PullStart, Enter, Goto, work
  <2>2. Expected(p)' = {}
    BY <2>1 DEF Expected, StoreSteps, BlobSteps
  <2>3. PullShape(p)'
    BY <2>1 DEF PullShape, StoreSteps, BlobSteps
  <2>4. LayoutShape(p)'
    BY <2>1, <2>2 DEF LayoutShape, NoLayout, BlobSteps
  <2>5. BlobShape(p)'
    BY <2>1 DEF BlobShape, NoLayout, Digests
  <2> QED
    BY <2>3, <2>4, <2>5
<1>2. CASE PullIndex(p)
  <2>1. CASE tag = None
    BY <1>2, <2>1, LeaveIsNoPull, NoPullStep DEF PullIndex, End
  <2>2. CASE tag # None
    <3>1. /\ pc[p] = "index" /\ pc'[p] = "manifest" /\ layout' = layout
          /\ image'[p] = tag /\ tag \in Images /\ todoM'[p] = ManifestsOf[tag]
      BY <1>2, <2>2 DEF PullIndex, Goto
    <3>2. PullShape(p)'
      BY <1>0, <2>2, <3>1 DEF PullShape, TagInv, Published, StoreSteps, BlobSteps
    <3>3. Expected(p) = {} /\ Expected(p)' = {}
      BY <3>1 DEF Expected, StoreSteps, BlobSteps, Pieces, Seen
    <3>4. LayoutShape(p)'
      BY <3>1, <3>3 DEF PullInv, LayoutShape, BlobSteps, PullSteps
    <3>5. BlobShape(p)'
      BY <1>0, <3>1 DEF PullInv, BlobShape, View
    <3> QED
      BY <3>2, <3>4, <3>5
  <2> QED
    BY <2>1, <2>2
<1>3. CASE PullManifest(p)
  <2>1. CASE End(p, "failed")
    BY <2>1, LeaveIsNoPull, NoPullStep DEF End
  <2>2. ASSUME NEW m \in todoM[p], Received(p, m, Whole)
        PROVE  PullShape(p)' /\ LayoutShape(p)' /\ BlobShape(p)'
    <3>1. /\ pc[p] = "manifest" /\ pc'[p] = "store" /\ layout' = layout
          /\ image'[p] = image[p] /\ todoM'[p] = todoM[p] \ {m}
          /\ manifest'[p] = m /\ cur'[p] = m /\ held'[p] = Whole
      BY <1>3, <2>2, RegistryAssumption DEF PullManifest, Received, Goto, Digests
    <3>2. PullShape(p)
      BY DEF PullInv
    <3>3. m \in ManifestsOf[image[p]] /\ m \in Seen(p)' /\ Seen(p)' \ {m} = Seen(p)
      BY <3>1, <3>2 DEF PullShape, PullSteps, Seen
    <3>4. PullShape(p)'
      BY <1>0, <3>1, <3>2, <3>3 DEF PullShape, Published, StoreSteps, BlobSteps, PullSteps
    <3>5. Expected(p)' = Expected(p)
      BY <3>1, <3>3 DEF Expected, StoreSteps, BlobSteps
    <3>6. LayoutShape(p)'
      BY <3>1, <3>5 DEF PullInv, LayoutShape, BlobSteps, PullSteps
    <3>7. BlobShape(p)'
      BY <1>0, <3>1 DEF PullInv, BlobShape, View
    <3> QED
      BY <3>4, <3>6, <3>7
  <2> QED
    BY <1>3, <2>1, <2>2 DEF PullManifest
<1> QED
  BY <1>1, <1>2, <1>3

\* The manifest goes to the cache.
LEMMA StoringKeeps ==
    ASSUME Typed, PullInv, NEW p \in Procs,
           StoreBytes(p) \/ StoreTruncate(p) \/ StoreWrite(p)
    PROVE  PullShape(p)' /\ LayoutShape(p)' /\ BlobShape(p)'
<1> USE DEF Typed, TypeOK
<1>1. /\ pc[p] \in StoreSteps /\ pc'[p] \in StoreSteps /\ layout' = layout /\ linked' = linked
      /\ image' = image /\ todoM' = todoM /\ manifest' = manifest /\ cur' = cur /\ held' = held
      /\ manifests' = manifests /\ blobs' = blobs
  BY DEF StoreBytes, StoreTruncate, StoreWrite, Goto, StoreSteps, registry, local, work
<1>2. PullShape(p) /\ LayoutShape(p) /\ BlobShape(p) /\ cur[p] \in Manifests
  BY <1>1, InHand DEF PullInv
<1>3. pc[p] \notin {"manifest", "unpack", "look", "link"} \cup BlobSteps
      /\ pc'[p] \notin {"manifest", "unpack", "look", "link"} \cup BlobSteps
      /\ pc[p] \in PullSteps \ {"index"} /\ pc'[p] \in PullSteps \ {"index"}
  BY <1>1 DEF StoreSteps, BlobSteps, PullSteps
<1>4. PullShape(p)'
  BY <1>1, <1>2, <1>3 DEF PullShape, Seen, Published
<1>5. LayoutShape(p)'
  <2>1. Expected(p)' = Expected(p)
    BY <1>1, <1>3 DEF Expected, Seen
  <2> QED
    BY <1>1, <1>2, <1>3, <2>1 DEF LayoutShape
<1>6. pc'[p] = "linkm" => cache'[cur'[p]] # None
  <2>1. CASE StoreBytes(p)
    BY <1>1, <2>1 DEF StoreBytes, Goto, local
  <2>2. CASE StoreTruncate(p)
    BY <2>2 DEF StoreTruncate, Goto
  <2>3. CASE StoreWrite(p)
    BY <1>1, <1>2, <2>3, RegistryAssumption DEF StoreWrite, PullShape, Digests
  <2> QED
    BY <2>1, <2>2, <2>3
<1>7. \A b \in Blobs : cache'[b] = cache[b]
  BY <1>2, RegistryAssumption DEF StoreBytes, StoreTruncate, StoreWrite, local, Digests
<1>8. BlobShape(p)'
  BY <1>1, <1>2, <1>3, <1>6, <1>7 DEF BlobShape, View
<1> QED
  BY <1>4, <1>5, <1>8

\* The manifest goes to the layout; no other manifest or blob of the image is it.
LEMMA LinkManifestKeeps ==
    ASSUME Typed, PullInv, NEW p \in Procs, LinkManifest(p)
    PROVE  PullShape(p)' /\ LayoutShape(p)' /\ BlobShape(p)'
<1> USE DEF Typed, TypeOK
<1>1. /\ pc[p] = "linkm" /\ pc'[p] = "look" /\ linked' = linked
      /\ image' = image /\ todoM' = todoM /\ manifest' = manifest /\ cur' = cur /\ held' = held
      /\ manifests' = manifests /\ blobs' = blobs
      /\ todo'[p] = EntriesOf[manifest[p]]
  BY DEF LinkManifest, Goto, registry
<1>2. PullShape(p) /\ LayoutShape(p) /\ BlobShape(p)
      /\ cur[p] = manifest[p] /\ cur[p] \in Manifests /\ pc[p] \in PullSteps
  BY <1>1, InHand DEF PullInv, PullShape, StoreSteps, PullSteps
<1>3. /\ cache' = cache
      /\ \A x \in Digests : x # cur[p] => layout'[p][x] = layout[p][x]
      /\ layout'[p][cur[p]] = IF linked THEN Link ELSE cache[cur[p]]
  <2>1. cur[p] \in Digests /\ (linked => layout[p][cur[p]] = None)
    BY <1>1, <1>2, HandIsFresh DEF StoreSteps
  <2> QED
    BY <2>1, MaterializeFresh DEF LinkManifest
<1>4. PullShape(p)'
  BY <1>1, <1>2 DEF PullShape, Seen, Published, PullSteps, StoreSteps, BlobSteps
<1>5. LayoutShape(p)'
  <2>1. Expected(p) = Pieces(Seen(p) \ {manifest[p]})
    BY <1>1 DEF Expected, StoreSteps, BlobSteps
  <2>2. Expected(p)' = Pieces(Seen(p) \ {manifest[p]}) \cup {manifest[p]}
    <3>1. Looked(p)' = {} /\ Seen(p)' = Seen(p)
      BY <1>1 DEF Looked, Seen
    <3> QED
      BY <1>1, <3>1 DEF Expected, StoreSteps, BlobSteps
  <2>3. layout'[p][cur[p]] # None
    BY <1>1, <1>2, <1>3, RegistryAssumption DEF BlobShape
  <2> QED
    BY <1>1, <1>2, <1>3, <2>1, <2>2, <2>3 DEF LayoutShape, BlobSteps
<1>6. BlobShape(p)'
  <2>1. \A b \in Blobs : b # cur[p] /\ b \in Digests
    BY <1>2, RegistryAssumption DEF Digests
  <2> QED
    BY <1>1, <1>2, <1>3, <2>1 DEF BlobShape, View
<1> QED
  BY <1>4, <1>5, <1>6

\* The next blob.  Here it matters that no digest repeats.
LEMMA LookKeeps ==
    ASSUME Typed, PullInv, NEW p \in Procs, LookAtCache(p)
    PROVE  PullShape(p)' /\ LayoutShape(p)' /\ BlobShape(p)'
<1> USE DEF Typed, TypeOK
<1>1. PICK e \in todo[p] :
        /\ todo'[p] = todo[p] \ {e}
        /\ cur'[p] = DigestOf[e]
        /\ pc' = [pc EXCEPT ![p] = CASE cache[DigestOf[e]] = None -> "download"
                                     [] cache[DigestOf[e]] = Bad -> "discard"
                                     [] cache[DigestOf[e]] = Whole -> "link"]
  BY DEF LookAtCache, Goto
<1>2. /\ pc[p] = "look" /\ linked' = linked /\ layout' = layout /\ cache' = cache
      /\ image' = image /\ todoM' = todoM /\ manifest' = manifest /\ held' = held
      /\ manifests' = manifests /\ blobs' = blobs
  BY DEF LookAtCache, registry, local
<1>3. PullShape(p) /\ LayoutShape(p) /\ BlobShape(p) /\ pc[p] \in PullSteps
  BY <1>2 DEF PullInv, PullSteps
<1>4. DigestOf[e] \in Blobs /\ DigestOf[e] \in Digests
  BY RegistryAssumption DEF Digests
<1>5. pc'[p] \in BlobSteps /\ (pc'[p] = "link" => cache[DigestOf[e]] # Bad)
  <2>1. cache[DigestOf[e]] \in {None, Whole, Bad}
    BY <1>4
  <2>2. CASE cache[DigestOf[e]] = None
    BY <1>1, <2>2, RegistryAssumption DEF BlobSteps
  <2>3. CASE cache[DigestOf[e]] = Bad
    BY <1>1, <2>3, RegistryAssumption DEF BlobSteps
  <2>4. CASE cache[DigestOf[e]] = Whole
    BY <1>1, <2>4, RegistryAssumption DEF BlobSteps
  <2> QED
    BY <2>1, <2>2, <2>3, <2>4
<1>6. pc'[p] \notin {"index", "manifest", "unpack", "linkm", "look"} \cup StoreSteps
      /\ pc'[p] \in PullSteps
  BY <1>5 DEF BlobSteps, StoreSteps, PullSteps
<1>7. /\ manifest[p] \in Seen(p) /\ image[p] \in Images /\ todo[p] \subseteq EntriesOf[manifest[p]]
      /\ e \in EntriesOf[manifest[p]]
  BY <1>2, <1>3 DEF PullShape, PullSteps
<1>8. Seen(p)' = Seen(p) /\ Looked(p)' = Looked(p) \cup {DigestOf[e]}
  BY <1>1, <1>2, <1>7 DEF Seen, Looked
<1>9. PullShape(p)'
  BY <1>1, <1>2, <1>3, <1>5, <1>6, <1>7, <1>8 DEF PullShape, Published
<1>10. Expected(p) = Pieces(Seen(p) \ {manifest[p]}) \cup {manifest[p]} \cup Looked(p)
  BY <1>2 DEF Expected, StoreSteps
<1>11. Expected(p)' = Expected(p) \cup {DigestOf[e]}
  <2>1. Expected(p)' = (Pieces(Seen(p) \ {manifest[p]}) \cup {manifest[p]} \cup Looked(p))'
    BY <1>5, <1>6 DEF Expected
  <2> QED
    BY <1>2, <1>8, <1>10, <2>1 DEF Pieces, BlobsIn
<1>12. linked => DigestOf[e] \notin Expected(p)
  <2> SUFFICES ASSUME linked, DigestOf[e] \in Expected(p) PROVE FALSE
    OBVIOUS
  <2>1. NoDigestRepeats
    BY DEF PullInv, LinksAreSafe
  <2>2. Seen(p) \subseteq ManifestsOf[image[p]] /\ Seen(p) \subseteq Manifests
    BY <1>7, RegistryAssumption DEF Seen
  <2>3. DigestOf[e] \notin Seen(p)
    BY <1>4, <2>2, RegistryAssumption
  <2>4. CASE DigestOf[e] \in Looked(p)
    <3>1. PICK f \in EntriesOf[manifest[p]] \ todo[p] : DigestOf[f] = DigestOf[e]
      BY <2>4 DEF Looked
    <3>2. f = e
      BY <1>7, <2>1, <2>2, <3>1 DEF NoDigestRepeats
    <3> QED
      BY <3>1, <3>2
  <2>5. CASE \E m \in Seen(p) \ {manifest[p]} : DigestOf[e] \in BlobsIn(m)
    <3>0. PICK m \in Seen(p) \ {manifest[p]} : DigestOf[e] \in BlobsIn(m)
      BY <2>5
    <3>1. PICK f \in EntriesOf[m] : DigestOf[f] = DigestOf[e]
      BY <3>0 DEF BlobsIn
    <3>2. m = manifest[p]
      BY <1>7, <2>1, <2>2, <3>1 DEF NoDigestRepeats
    <3> QED
      BY <3>1, <3>2
  <2> QED
    BY <1>7, <1>10, <2>3, <2>4, <2>5 DEF Pieces
<1>13. LayoutShape(p)'
  <2>1. linked => layout[p][DigestOf[e]] = None
    BY <1>2, <1>3, <1>4, <1>12 DEF LayoutShape, BlobSteps
  <2> QED
    BY <1>1, <1>2, <1>3, <1>4, <1>5, <1>11, <2>1 DEF LayoutShape, BlobSteps
<1>14. BlobShape(p)'
  BY <1>1, <1>2, <1>3, <1>5, <1>6 DEF BlobShape, View
<1> QED
  BY <1>9, <1>13, <1>14

\* A cached blob is removed, or replaced by one that has been verified.
LEMMA ReplacingKeeps ==
    ASSUME Typed, PullInv, [Next]_vars, NEW p \in Procs, Discard(p) \/ Download(p)
    PROVE  PullShape(p)' /\ LayoutShape(p)' /\ BlobShape(p)'
<1> USE DEF Typed, TypeOK
<1>1. CASE End(p, "failed")
  BY <1>1, LeaveIsNoPull, NoPullStep DEF End
<1>2. CASE ~End(p, "failed")
  <2>1. PICK c \in {None, Whole} :
          /\ Replace(cur[p], c)
          /\ pc'[p] = IF c = None THEN "download" ELSE "link"
    BY <1>2, RegistryAssumption DEF Discard, Download, Goto
  <2>2. /\ pc[p] \in {"discard", "download"} /\ pc'[p] \in {"download", "link"}
        /\ linked' = linked /\ manifests' = manifests /\ blobs' = blobs
        /\ image' = image /\ todoM' = todoM /\ manifest' = manifest /\ cur' = cur /\ held' = held
        /\ todo' = todo
    BY <1>2, <2>1 DEF Discard, Download, registry
  <2>3. PullShape(p) /\ LayoutShape(p) /\ BlobShape(p) /\ cur[p] \in Blobs /\ cur[p] \in Digests
    BY <2>2, InHand DEF PullInv, BlobSteps, Digests
  <2>4. /\ \A d \in Digests : layout'[p][d] # None <=> layout[p][d] # None
        /\ \A d \in Digests : View(p, d)' = View(p, d)
    BY <2>1, <2>3, ReplaceKeeps
  <2>5. /\ pc[p] \in BlobSteps /\ pc'[p] \in BlobSteps
        /\ pc[p] \in PullSteps \ {"index"} /\ pc'[p] \in PullSteps \ {"index"}
        /\ pc[p] \notin {"manifest", "unpack"} \cup StoreSteps
        /\ pc'[p] \notin {"manifest", "unpack", "linkm"} \cup StoreSteps
    BY <2>2 DEF BlobSteps, PullSteps, StoreSteps
  <2>6. PullShape(p)'
    BY <2>2, <2>3, <2>5 DEF PullShape, Seen, Looked, Published
  <2>7. LayoutShape(p)'
    <3>1. Expected(p)' = Expected(p)
      BY <2>2, <2>5 DEF Expected, Seen, Looked
    <3> QED
      BY <2>2, <2>3, <2>4, <2>5, <3>1 DEF LayoutShape
  <2>8. BlobShape(p)'
    <3>1. pc'[p] = "link" => cache'[cur[p]] # Bad
      BY <2>1, <2>3, RegistryAssumption DEF Replace
    <3> QED
      BY <2>2, <2>3, <2>4, <2>5, <3>1 DEF BlobShape, Digests
  <2> QED
    BY <2>6, <2>7, <2>8
<1> QED
  BY <1>1, <1>2

\* The blob goes to the layout.
LEMMA LinkBlobKeeps ==
    ASSUME Typed, PullInv, [Next]_vars, NEW p \in Procs, LinkBlob(p)
    PROVE  PullShape(p)' /\ LayoutShape(p)' /\ BlobShape(p)'
<1> USE DEF Typed, TypeOK
<1>1. CASE End(p, "failed")
  BY <1>1, LeaveIsNoPull, NoPullStep DEF End
<1>2. CASE ~End(p, "failed")
  <2>1. /\ pc[p] = "link" /\ pc'[p] = "look" /\ Materialize(p, cur[p]) /\ cache[cur[p]] # None
        /\ linked' = linked /\ manifests' = manifests /\ blobs' = blobs
        /\ image' = image /\ todoM' = todoM /\ manifest' = manifest /\ cur' = cur /\ held' = held
        /\ todo' = todo
    BY <1>2 DEF LinkBlob, Goto, registry
  <2>2. PullShape(p) /\ LayoutShape(p) /\ BlobShape(p) /\ cur[p] \in Blobs /\ cur[p] \in Digests
    BY <2>1, InHand DEF PullInv, BlobSteps, Digests
  <2>3. /\ cache' = cache
        /\ \A x \in Digests : x # cur[p] => layout'[p][x] = layout[p][x]
        /\ layout'[p][cur[p]] = IF linked THEN Link ELSE cache[cur[p]]
    BY <2>1, <2>2, HandIsFresh, MaterializeFresh
  <2>4. cache[cur[p]] = Whole
    BY <2>1, <2>2 DEF BlobShape
  <2>5. PullShape(p)'
    BY <2>1, <2>2 DEF PullShape, Seen, Published, PullSteps, StoreSteps, BlobSteps
  <2>6. LayoutShape(p)'
    <3>1. Expected(p)' = Expected(p)
      BY <2>1 DEF Expected, Seen, Looked, StoreSteps, BlobSteps
    <3>2. cur[p] \in Expected(p)
      BY <2>1, <2>2 DEF Expected, PullShape, StoreSteps, BlobSteps
    <3>3. layout'[p][cur[p]] # None
      BY <2>3, <2>4, RegistryAssumption
    <3> QED
      BY <2>1, <2>2, <2>3, <3>1, <3>2, <3>3 DEF LayoutShape, BlobSteps, PullSteps
  <2>7. BlobShape(p)'
    <3>1. View(p, cur[p])' = Whole
      BY <2>1, <2>3, <2>4, RegistryAssumption DEF View
    <3> QED
      BY <2>1, <2>2, <2>3, <3>1 DEF BlobShape, View, Digests
  <2> QED
    BY <2>5, <2>6, <2>7
<1> QED
  BY <1>1, <1>2

\* A manifest is done when its entries are.
LEMMA PullNextKeeps ==
    ASSUME Typed, PullInv, NEW p \in Procs, PullNext(p)
    PROVE  PullShape(p)' /\ LayoutShape(p)' /\ BlobShape(p)'
<1> USE DEF Typed, TypeOK
<1>1. /\ pc[p] = "look" /\ todo[p] = {} /\ pc'[p] = IF todoM[p] = {} THEN "unpack" ELSE "manifest"
      /\ cache' = cache /\ layout' = layout /\ manifests' = manifests /\ blobs' = blobs
      /\ image' = image /\ todoM' = todoM /\ linked' = linked
  BY DEF PullNext, Goto, registry, local, work
<1>2. PullShape(p) /\ LayoutShape(p) /\ BlobShape(p) /\ manifest[p] \in Seen(p)
  BY <1>1 DEF PullInv, PullShape
<1>3. PullShape(p)'
  BY <1>1, <1>2 DEF PullShape, Published, PullSteps, StoreSteps, BlobSteps
<1>4. Expected(p)' = Expected(p)
  <2>1. Expected(p) = Pieces(Seen(p) \ {manifest[p]}) \cup {manifest[p]} \cup Looked(p)
    BY <1>1 DEF Expected, StoreSteps
  <2>2. Expected(p)' = Pieces(Seen(p))
    <3>1. pc'[p] \in {"manifest", "unpack"} /\ Seen(p)' = Seen(p)
      BY <1>1 DEF Seen
    <3> QED
      BY <3>1 DEF Expected, StoreSteps, BlobSteps, Pieces, BlobsIn
  <2>3. Looked(p) = BlobsIn(manifest[p])
    BY <1>1 DEF Looked, BlobsIn
  <2>4. Pieces(Seen(p)) = Pieces(Seen(p) \ {manifest[p]}) \cup {manifest[p]} \cup BlobsIn(manifest[p])
    BY <1>2 DEF Pieces
  <2> QED
    BY <2>1, <2>2, <2>3, <2>4
<1>5. LayoutShape(p)'
  BY <1>1, <1>2, <1>4 DEF LayoutShape, BlobSteps, PullSteps
<1>6. BlobShape(p)'
  BY <1>1, <1>2 DEF BlobShape, View
<1> QED
  BY <1>3, <1>5, <1>6

LEMMA PushIsNoPull ==
    ASSUME Typed, NEW p \in Procs, Push(p)
    PROVE  op'[p] # "pull"
<1>1. CASE PushStart(p)
  BY <1>1, RegistryAssumption DEF PushStart, Enter, Typed, TypeOK
<1>2. ASSUME NEW r, Leave(p, r) PROVE op'[p] # "pull"
  BY <1>2, LeaveIsNoPull
<1>3. CASE PushProbe(p) \/ PushManifest(p) \/ PushTag(p) \/ PushHead(p) \/ PushUpload(p)
  <2>1. op[p] = "push"
    BY <1>3 DEF PushProbe, PushHead, PushManifest, PushTag, PushUpload, Typed, HandInv, PushSteps
  <2> QED
    BY <1>2, <1>3, <2>1 DEF PushProbe, PushHead, PushManifest, PushTag, PushUpload, PushNext,
                            Uploaded, End, AnswerLost
<1> QED
  BY <1>1, <1>3 DEF Push

\* Every step of a process keeps its own layout right.
LEMMA OwnLayoutKept ==
    ASSUME Typed, PullInv, TagInv, [Next]_vars, NEW p \in Procs,
           Push(p) \/ Pull(p) \/ RequestFails(p) \/ Crash(p)
    PROVE  PullShape(p)' /\ LayoutShape(p)' /\ BlobShape(p)'
<1>1. CASE Push(p)
  BY <1>1, PushIsNoPull, NoPullStep
<1>2. CASE RequestFails(p) \/ Crash(p) \/ Unpack(p)
  BY <1>2, LeaveIsNoPull, NoPullStep DEF RequestFails, Crash, Unpack, End
<1>3. CASE Pull(p)
  BY <1>2, <1>3, ReceivingKeeps, StoringKeeps, LinkManifestKeeps, LookKeeps, ReplacingKeeps,
     LinkBlobKeeps, PullNextKeeps DEF Pull
<1> QED
  BY <1>1, <1>2, <1>3

LEMMA PullStep ==
    ASSUME Typed, PullInv, TagInv, [Next]_vars
    PROVE  PullInv'
<1>1. CASE UNCHANGED vars
  <2>1. /\ manifests' = manifests /\ blobs' = blobs /\ cache' = cache /\ linked' = linked
        /\ pc' = pc /\ image' = image /\ todoM' = todoM /\ manifest' = manifest /\ todo' = todo
        /\ cur' = cur /\ held' = held /\ layout' = layout
    BY <1>1 DEF vars, registry, local, work
  <2>2. ASSUME NEW p \in Procs
        PROVE  PullShape(p)' /\ LayoutShape(p)' /\ BlobShape(p)'
    <3>1. PullShape(p) /\ LayoutShape(p) /\ BlobShape(p)
      BY DEF PullInv
    <3>2. PullShape(p)'
      BY <2>1, <3>1 DEF PullShape, Seen, Looked, Published
    <3>3. LayoutShape(p)'
      <4>1. Expected(p)' = Expected(p)
        BY <2>1 DEF Expected, Seen, Looked
      <4> QED
        BY <2>1, <3>1, <4>1 DEF LayoutShape
    <3>4. BlobShape(p)'
      BY <2>1, <3>1 DEF BlobShape, View
    <3> QED
      BY <3>2, <3>3, <3>4
  <2> QED
    BY <2>1, <2>2 DEF PullInv, LinksAreSafe
<1>2. ASSUME NEW p \in Procs, Push(p) \/ Pull(p) \/ RequestFails(p) \/ Crash(p)
      PROVE  PullInv'
  <2>1. LinksAreSafe'
    BY <1>2, Fixed DEF PullInv, LinksAreSafe
  <2>2. ASSUME NEW q \in Procs
        PROVE  PullShape(q)' /\ LayoutShape(q)' /\ BlobShape(q)'
    BY <1>2, OthersKeepLayout, OwnLayoutKept
  <2> QED
    BY <2>1, <2>2 DEF PullInv
<1> QED
  BY <1>1, <1>2 DEF Next

LEMMA InitPull == Init /\ LinksAreSafe => PullInv
<1> SUFFICES ASSUME Init, LinksAreSafe PROVE PullInv
  OBVIOUS
<1>1. ASSUME NEW p \in Procs PROVE op[p] # "pull"
  BY RegistryAssumption DEF Init
<1> QED
  BY <1>1, InitTyped, NoPullNoLayout DEF PullInv

\* A pull leaves its layout to unpack with one image, whatever the tag does meanwhile,
\* and with whole blobs, whatever was in the cache and whatever other pulls do to it: if
\* layouts are copies, or no image lists a blob twice (finding 2 is what happens else).
THEOREM PulledBlobsAlwaysWhole == Spec /\ LinksAreSafe => []PulledBlobsAreWhole
<1>1. Init /\ LinksAreSafe => Typed /\ PushInv /\ TagInv /\ PullInv
  BY InitTagged, InitPull
<1>2. Typed /\ PushInv /\ TagInv /\ PullInv /\ [Next]_vars
      => (Typed /\ PushInv /\ TagInv /\ PullInv)'
  BY TaggedStep, PullStep
<1>3. Typed /\ PullInv => PulledBlobsAreWhole
  <2> SUFFICES ASSUME Typed, PullInv, NEW p \in Procs, pc[p] = "unpack"
               PROVE  \A d \in Digests :
                        /\ layout[p][d] # None <=> d \in Content(image[p])
                        /\ d \in Blobs \cap Content(image[p]) => View(p, d) = Whole
    BY DEF PulledBlobsAreWhole
  <2>1. PullShape(p) /\ LayoutShape(p) /\ BlobShape(p)
    BY DEF PullInv
  <2>2. Expected(p) = Content(image[p])
    BY <2>1 DEF Expected, PullShape, Seen, Pieces, Content, StoreSteps, BlobSteps
  <2>3. \A d \in Digests : layout[p][d] # None <=> d \in Content(image[p])
    BY <2>1, <2>2 DEF LayoutShape, PullSteps, BlobSteps
  <2> QED
    BY <2>1, <2>3 DEF BlobShape
<1> QED
  BY <1>1, <1>2, <1>3, PTL DEF Spec

----------------------------------------------------------------------------
(* Pulls that nobody overlaps.                                             *)

\* Who is writing a manifest finishes it, or dies.
LEMMA WriterStep ==
    ASSUME Typed, NEW p \in Procs, PullShape(p), pc[p] = "write", ~died',
           Push(p) \/ Pull(p) \/ RequestFails(p) \/ Crash(p)
    PROVE  cache'[cur[p]] = Whole
<1>1. StoreWrite(p) \/ PushStart(p) \/ PullStart(p)
  BY DEF Push, Pull, PushProbe, PushHead, PushUpload, PushManifest, PushTag,
         PullIndex, PullManifest, StoreBytes, StoreTruncate, LinkManifest, LookAtCache, Discard,
         Download, LinkBlob, PullNext, Unpack, RequestFails, PushSteps, Crash
<1>2. op[p] # None
  BY RegistryAssumption DEF Typed, HandInv, PullSteps
<1>3. StoreWrite(p)
  BY <1>1, <1>2 DEF PushStart, PullStart, Enter
<1>4. cur[p] \in Digests /\ held[p] = Whole
  BY InHand DEF PullShape, StoreSteps, Digests
<1> QED
  BY <1>3, <1>4 DEF StoreWrite, Typed, TypeOK

LEMMA CacheInvStep ==
    ASSUME Typed, PullInv, CacheInv, [Next]_vars
    PROVE  CacheInv'
<1>1. CASE UNCHANGED vars
  BY <1>1 DEF CacheInv, vars, local, work, history
<1>2. ASSUME NEW p \in Procs, Push(p) \/ Pull(p) \/ RequestFails(p) \/ Crash(p),
             ~died', NEW m \in Manifests, cache'[m] = Bad
      PROVE  \E q \in Procs : pc'[q] = "write" /\ cur'[q] = m
  <2>1. PullShape(p) /\ LayoutShape(p) /\ ~died /\ m \in Digests
    BY <1>2, Fixed DEF PullInv, Digests
  <2>2. cache[m] = Bad \/ (pc'[p] = "write" /\ cur'[p] = m)
    <3> USE DEF Typed, TypeOK
    <3>1. CASE cache' = cache
      BY <1>2, <3>1
    <3>2. ASSUME NEW n \in Manifests, NEW c \in {Whole, Bad}, cache' = [cache EXCEPT ![n] = c],
                 cur'[p] = n, c = Bad => pc'[p] = "write"
          PROVE  cache[m] = Bad \/ (pc'[p] = "write" /\ cur'[p] = m)
      BY <1>2, <2>1, <3>2
    <3>3. ASSUME NEW b \in Blobs, NEW c \in {None, Whole}, Replace(b, c)
          PROVE  cache[m] = Bad
      <4>1. m # b
        BY RegistryAssumption
      <4> QED
        BY <1>2, <2>1, <3>3, <4>1 DEF Replace
    <3> QED
      BY <1>2, <2>1, <3>1, <3>2, <3>3, CacheStep
  <2>3. CASE cache[m] = Bad
    <3>1. PICK q \in Procs : pc[q] = "write" /\ cur[q] = m
      BY <2>1, <2>3 DEF CacheInv
    <3>2. q # p
      <4> SUFFICES ASSUME q = p PROVE FALSE
        OBVIOUS
      <4>1. cache'[m] = Whole
        BY <1>2, <2>1, <3>1, WriterStep
      <4> QED
        BY <1>2, <4>1, RegistryAssumption
    <3>3. pc'[q] = "write" /\ cur'[q] = m
      BY <1>2, <3>1, <3>2, OthersStay
    <3> QED
      BY <3>3
  <2> QED
    BY <2>2, <2>3
<1>3. ASSUME NEW p \in Procs, Push(p) \/ Pull(p) \/ RequestFails(p) \/ Crash(p)
      PROVE  CacheInv'
  BY <1>2, <1>3 DEF CacheInv
<1> QED
  BY <1>1, <1>3 DEF Next

\* Another process cannot start a pull without ending the solitude, and touches nothing.
LEMMA OthersLeaveAlone ==
    ASSUME Typed, PullInv, AloneInv, [Next]_vars, NEW p \in Procs, NEW q \in Procs \ {p},
           q \in alone', Push(p) \/ Pull(p) \/ RequestFails(p) \/ Crash(p)
    PROVE  AloneShape(q)'
<1>1. /\ pc'[q] = pc[q] /\ cur'[q] = cur[q] /\ op'[q] = op[q] /\ outcome'[q] = outcome[q]
      /\ q \in lucky' <=> q \in lucky
      /\ died => died'
  BY OthersStay, OthersGoOn, Fixed
<1>2. q \in alone /\ AloneShape(q)
  BY OthersGoOn DEF AloneInv
<1>3. ASSUME op[q] = "pull"
      PROVE  op[p] # "pull" /\ op'[p] # "pull"
  <2>1. op[p] # "pull"
    BY <1>2, <1>3 DEF AloneShape
  <2>2. ASSUME op'[p] = "pull" PROVE FALSE
    <3>1. pc[p] \notin PullSteps
      BY <2>1 DEF Typed, HandInv
    <3>2. CASE Pull(p)
      <4>1. PullStart(p)
        BY <3>1, <3>2 DEF Pull, PullSteps, PullIndex, PullManifest, StoreBytes, StoreTruncate,
               StoreWrite, LinkManifest, LookAtCache, Discard, Download, LinkBlob, PullNext, Unpack
      <4>2. q \in Pulling
        BY <1>3 DEF Pulling
      <4>3. alone' = {}
        BY <4>1, <4>2 DEF PullStart
      <4> QED
        BY <4>3
    <3>3. CASE RequestFails(p) \/ Crash(p)
      BY <2>2, <3>3, LeaveIsNoPull DEF RequestFails, Crash
    <3>4. CASE Push(p)
      BY <2>2, <3>4, PushIsNoPull
    <3> QED
      BY <3>2, <3>3, <3>4
  <2> QED
    BY <2>1, <2>2
<1>4. ASSUME op[q] = "pull"
      PROVE  /\ \A r \in Procs : op'[r] = "pull" => r = q
             /\ cache' = cache /\ layout'[q] = layout[q]
  <2>1. ASSUME NEW r \in Procs, op'[r] = "pull" PROVE r = q
    <3>1. r # p
      BY <1>3, <1>4, <2>1
    <3>2. op'[r] = op[r]
      BY <3>1, OthersGoOn
    <3> QED
      BY <1>2, <1>4, <2>1, <3>2 DEF AloneShape
  <2>2. cache' = cache /\ layout'[q] = layout[q]
    <3>1. PullShape(p) /\ LayoutShape(p)
      BY DEF PullInv
    <3> QED
      BY <1>3, <1>4, <3>1, CacheStep
  <2> QED
    BY <2>1, <2>2
<1> QED
  BY <1>1, <1>2, <1>4 DEF AloneShape, View

\* A pull that is alone is hit by a fault, or goes on.
LEMMA AloneGoesOn ==
    ASSUME Typed, PullInv, CacheInv, NEW p \in Procs, AloneShape(p), Pull(p), ~PullStart(p)
    PROVE  /\ op[p] = "pull"
           /\ \A r : Leave(p, r) => r # "failed" \/ died
<1>1. op[p] = "pull"
  BY DEF Pull, PullSteps, Typed, HandInv, PullIndex, PullManifest, StoreBytes, StoreTruncate,
         StoreWrite, LinkManifest, LookAtCache, Discard, Download, LinkBlob, PullNext, Unpack
<1>2. PullShape(p) /\ LayoutShape(p) /\ BlobShape(p)
  BY DEF PullInv
<1> SUFFICES ASSUME NEW r, Leave(p, r), r = "failed", ~died PROVE FALSE
  BY <1>1
<1>3. pc'[p] = "idle" /\ outcome'[p] = "failed"
  BY DEF Leave, Goto, Typed, TypeOK
<1>4. CASE PullIndex(p)
  BY <1>3, <1>4 DEF PullIndex, End, Leave, Goto, Typed, TypeOK
<1>5. CASE PullManifest(p)
  <2>1. \A m \in todoM[p] : m \in manifests
    BY <1>2, <1>5 DEF PullManifest, PullShape, PullSteps, Published
  <2> QED
    BY <1>3, <1>5, <2>1 DEF PullManifest, Received, Goto, Typed, TypeOK
<1>6. CASE StoreBytes(p) \/ StoreTruncate(p) \/ StoreWrite(p) \/ LinkManifest(p) \/ PullNext(p)
  BY <1>3, <1>6 DEF StoreBytes, StoreTruncate, StoreWrite, LinkManifest, PullNext, Goto,
                    Typed, TypeOK
<1>7. CASE LookAtCache(p)
  BY <1>1, <1>7, RegistryAssumption DEF LookAtCache, Leave, Typed, TypeOK
<1>8. CASE Discard(p) \/ LinkBlob(p)
  BY <1>1, <1>3, <1>8 DEF Discard, LinkBlob, AloneShape, Goto, Typed, TypeOK
<1>9. CASE Download(p)
  <2>1. manifest[p] \in ManifestsOf[image[p]] /\ cur[p] \in Looked(p) /\ Published(manifest[p])
    BY <1>2, <1>9 DEF Download, PullShape, BlobSteps, PullSteps, Seen
  <2>2. cur[p] \in blobs
    BY <2>1 DEF Looked, Published, BlobsIn
  <2> QED
    BY <1>3, <1>9, <2>2 DEF Download, Goto, Typed, TypeOK
<1>10. CASE Unpack(p)
  <2>1. \A d \in Digests : layout[p][d] # None <=> d \in Content(image[p])
    <3>1. Expected(p) = Content(image[p])
      BY <1>2, <1>10 DEF Unpack, Expected, PullShape, Seen, Pieces, Content, StoreSteps, BlobSteps
    <3> QED
      BY <1>2, <1>10, <3>1 DEF Unpack, LayoutShape, PullSteps, BlobSteps
  <2>2. \A d \in Content(image[p]) : d \in Digests
    <3>1. image[p] \in Images
      BY <1>2, <1>10 DEF Unpack, PullShape, PullSteps
    <3> QED
      BY <3>1, RegistryAssumption DEF Content, BlobsIn, Digests
  <2>3. \A d \in Content(image[p]) : View(p, d) = Whole
    BY <1>1, <1>2, <2>1, <2>2 DEF BlobShape, AloneShape, Digests
  <2>4. End(p, "ok")
    BY <1>10, <2>3 DEF Unpack
  <2>5. outcome'[p] = "ok"
    BY <2>4 DEF End, Leave, Typed, TypeOK
  <2> QED
    BY <1>3, <2>5
<1> QED
  BY <1>4, <1>5, <1>6, <1>7, <1>8, <1>9, <1>10 DEF Pull

\* What a pull that is alone does to its own manifests.
LEMMA OwnManifests ==
    ASSUME Typed, PullInv, CacheInv, NEW p \in Procs, AloneShape(p), op[p] = "pull", ~died,
           Pull(p), ~(\E r : Leave(p, r)), NEW m \in Manifests, layout'[p][m] # None
    PROVE  View(p, m)' = Whole
<1> USE DEF Typed, TypeOK
<1>1. PullShape(p) /\ LayoutShape(p) /\ BlobShape(p) /\ m \in Digests
  BY DEF PullInv, Digests
<1>2. layout[p][m] # None => View(p, m) = Whole
  BY DEF AloneShape
<1>3. CASE cache' = cache /\ layout' = layout
  BY <1>2, <1>3 DEF View
<1>4. CASE PullStart(p)
  BY <1>4, RegistryAssumption DEF PullStart, Enter
<1>5. CASE PullIndex(p) \/ PullManifest(p) \/ StoreBytes(p) \/ LookAtCache(p) \/ PullNext(p)
  <2>1. cache' = cache /\ layout' = layout
    BY <1>5 DEF PullIndex, PullManifest, Received, StoreBytes, LookAtCache, PullNext, End, local, work
  <2> QED
    BY <1>3, <2>1
<1>6. CASE StoreTruncate(p) \/ StoreWrite(p)
  <2>1. pc[p] \in StoreSteps
    BY <1>6 DEF StoreTruncate, StoreWrite, StoreSteps
  <2>2. cur[p] \in Digests /\ layout[p][cur[p]] = None
    BY <1>1, <2>1, HandIsFresh
  <2>3. layout' = layout /\ \A d \in Digests : d # cur[p] => cache'[d] = cache[d]
    BY <1>6, <2>2 DEF StoreTruncate, StoreWrite, work
  <2>4. m # cur[p]
    BY <2>2, <2>3
  <2> QED
    BY <1>1, <1>2, <2>3, <2>4 DEF View
<1>7. CASE LinkManifest(p)
  <2>1. /\ pc[p] = "linkm" /\ cur[p] \in Digests
        /\ cache' = cache
        /\ \A x \in Digests : x # cur[p] => layout'[p][x] = layout[p][x]
        /\ layout'[p][cur[p]] = IF linked THEN Link ELSE cache[cur[p]]
    BY <1>1, <1>7, HandIsFresh, MaterializeFresh DEF LinkManifest, StoreSteps
  <2>2. CASE m # cur[p]
    BY <1>1, <1>2, <2>1, <2>2 DEF View
  <2>3. CASE m = cur[p]
    <3>1. cache[m] # Bad
      <4> SUFFICES ASSUME cache[m] = Bad PROVE FALSE
        OBVIOUS
      <4>1. PICK q \in Procs : pc[q] = "write"
        BY DEF CacheInv
      <4>2. q = p
        BY <4>1 DEF AloneShape, HandInv, PullSteps
      <4> QED
        BY <2>1, <4>1, <4>2
    <3>2. cache[m] = Whole
      BY <1>1, <2>1, <2>3, <3>1 DEF BlobShape
    <3> QED
      BY <2>1, <2>3, <3>2, RegistryAssumption DEF View
  <2> QED
    BY <2>2, <2>3
<1>8. CASE Discard(p) \/ Download(p)
  <2>1. PICK c \in {None, Whole} : Replace(cur[p], c)
    BY <1>8 DEF Discard, Download, End
  <2>2. cur[p] \in Blobs
    BY <1>1, <1>8, InHand DEF Discard, Download, BlobSteps
  <2>3. View(p, m)' = View(p, m) /\ layout[p][m] # None
    BY <1>1, <2>1, <2>2, ReplaceKeeps
  <2> QED
    BY <1>2, <2>3
<1>9. CASE LinkBlob(p)
  <2>1. Materialize(p, cur[p]) /\ pc[p] = "link"
    BY <1>9 DEF LinkBlob, End
  <2>2. cur[p] \in Digests /\ cur[p] \in Blobs
    BY <1>1, <2>1, InHand DEF BlobSteps, Digests
  <2>3. cache' = cache /\ \A x \in Digests : x # cur[p] => layout'[p][x] = layout[p][x]
    BY <1>1, <2>1, <2>2, HandIsFresh, MaterializeFresh
  <2>4. m # cur[p]
    BY <2>2, RegistryAssumption
  <2> QED
    BY <1>1, <1>2, <2>3, <2>4 DEF View
<1>10. ~Unpack(p)
  BY DEF Unpack, End
<1> QED
  BY <1>4, <1>5, <1>6, <1>7, <1>8, <1>9, <1>10 DEF Pull

LEMMA OwnStepAlone ==
    ASSUME Typed, PullInv, CacheInv, AloneInv, [Next]_vars, NEW p \in Procs, p \in alone',
           Push(p) \/ Pull(p) \/ RequestFails(p) \/ Crash(p)
    PROVE  AloneShape(p)'
<1> USE DEF Typed, TypeOK
<1>1. \A q \in Procs \ {p} : op'[q] = op[q]
  BY OthersGoOn
<1>2. died => died'
  BY Fixed
<1>3. ASSUME NEW r, Leave(p, r), r # "failed" \/ p \notin lucky' \/ died
      PROVE  AloneShape(p)'
  <2>1. op'[p] # "pull" /\ outcome'[p] = r
    BY <1>3, LeaveIsNoPull DEF Leave
  <2> QED
    BY <1>2, <1>3, <2>1 DEF AloneShape
<1>4. CASE RequestFails(p) \/ Crash(p)
  BY <1>3, <1>4 DEF RequestFails, Crash, Fault
<1>5. CASE Push(p)
  <2>1. CASE \E r : Leave(p, r)
    <3>1. PICK r : Leave(p, r)
      BY <2>1
    <3>2. op'[p] = None /\ outcome'[p] = r
      BY <3>1 DEF Leave
    <3>3. ~PushStart(p)
      BY <3>2, RegistryAssumption DEF PushStart, Enter
    <3>4. op[p] = "push"
      BY <1>5, <3>3 DEF Push, PushProbe, PushHead, PushUpload, PushManifest, PushTag, HandInv,
                        PushSteps
    <3>5. End(p, "ok") \/ End(p, "refused") \/ AnswerLost(p)
      BY <1>5, <3>2, <3>3, <3>4, RegistryAssumption
         DEF Push, PushProbe, PushHead, PushUpload, Uploaded, PushManifest, PushTag, PushNext
    <3> QED
      BY <1>3, <3>5 DEF End, AnswerLost, Fault
  <2>2. CASE ~\E r : Leave(p, r)
    <3>1. p \in alone /\ ~PushStart(p)
      BY <1>5, <2>2 DEF Push, PushStart, PushProbe, PushHead, PushUpload, Uploaded, PushManifest,
                        PushTag, PushNext, End, AnswerLost, history
    <3>2. outcome'[p] = outcome[p] /\ lucky' = lucky
      BY <1>5, <2>2, <3>1 DEF Push, PushProbe, PushHead, PushUpload, Uploaded, PushManifest,
                        PushTag, PushNext, End, AnswerLost, history
    <3>3. op'[p] # "pull"
      BY <1>5, PushIsNoPull
    <3> QED
      BY <1>2, <3>1, <3>2, <3>3 DEF AloneInv, AloneShape
  <2> QED
    BY <2>1, <2>2
<1>6. CASE PullStart(p)
  <2>1. /\ pc'[p] = "index" /\ outcome'[p] = "none" /\ layout' = layout /\ layout[p] = NoLayout
        /\ op' = [op EXCEPT ![p] = "pull"]
    BY <1>6, RegistryAssumption DEF PullStart, Enter, Goto, work
  <2>2. Pulling = {}
    BY <1>6 DEF PullStart
  <2>3. \A q \in Procs : op'[q] = "pull" => q = p
    BY <2>1, <2>2 DEF Pulling
  <2>4. \A m \in Manifests : layout'[p][m] = None
    BY <2>1 DEF NoLayout, Digests
  <2> QED
    BY <2>1, <2>3, <2>4 DEF AloneShape
<1>7. CASE Pull(p) /\ ~PullStart(p)
  <2>1. p \in alone /\ lucky' \subseteq lucky
    BY <1>7 DEF Pull, PullIndex, PullManifest, Received, StoreBytes, StoreTruncate, StoreWrite,
                LinkManifest, LookAtCache, Discard, Download, LinkBlob, PullNext, Unpack, End, Leave,
                history
  <2>2. AloneShape(p)
    BY <2>1 DEF AloneInv
  <2>3. op[p] = "pull" /\ \A r : Leave(p, r) => r # "failed" \/ died
    BY <1>7, <2>2, AloneGoesOn
  <2>4. CASE \E r : Leave(p, r)
    BY <1>3, <2>3, <2>4
  <2>5. CASE ~\E r : Leave(p, r)
    <3>1. op'[p] = "pull" /\ outcome'[p] = outcome[p]
      BY <1>7, <2>3, <2>5
         DEF Pull, PullIndex, PullManifest, Received, StoreBytes, StoreTruncate, StoreWrite,
             LinkManifest, LookAtCache, Discard, Download, LinkBlob, PullNext, Unpack, End, history
    <3>2. \A q \in Procs : op'[q] = "pull" => q = p
      BY <1>1, <2>2, <2>3 DEF AloneShape
    <3>3. pc'[p] \in {"discard", "link"} => cache'[cur'[p]] # None
      <4>1. CASE LookAtCache(p)
        <5>1. PICK e \in todo[p] :
                /\ cur'[p] = DigestOf[e]
                /\ pc'[p] = CASE cache[DigestOf[e]] = None -> "download"
                              [] cache[DigestOf[e]] = Bad -> "discard"
                              [] cache[DigestOf[e]] = Whole -> "link"
          BY <4>1 DEF LookAtCache, Goto
        <5>2. cache' = cache
          BY <4>1 DEF LookAtCache, local
        <5>3. CASE cache[DigestOf[e]] = None
          BY <5>1, <5>3, RegistryAssumption
        <5> QED
          BY <5>1, <5>2, <5>3
      <4>2. CASE Download(p)
        <5>1. cur[p] \in Digests
          BY <2>3, <4>2, InHand DEF PullInv, Download, BlobSteps, Digests
        <5> QED
          BY <2>5, <4>2, <5>1, RegistryAssumption DEF Download, Replace, End
      <4>3. CASE ~LookAtCache(p) /\ ~Download(p)
        BY <1>7, <2>5, <4>3
           DEF Pull, PullIndex, PullManifest, Received, StoreBytes, StoreTruncate, StoreWrite,
               LinkManifest, Discard, LinkBlob, PullNext, Unpack, End, Goto
      <4> QED
        BY <4>1, <4>2, <4>3
    <3>4. ~died' => \A m \in Manifests : layout'[p][m] # None => View(p, m)' = Whole
      BY <1>2, <1>7, <2>2, <2>3, <2>5, OwnManifests
    <3> QED
      BY <1>2, <2>1, <2>2, <3>1, <3>2, <3>3, <3>4 DEF AloneShape
  <2> QED
    BY <2>4, <2>5
<1> QED
  BY <1>4, <1>5, <1>6, <1>7

LEMMA AloneStep ==
    ASSUME Typed, PullInv, CacheInv, AloneInv, [Next]_vars
    PROVE  AloneInv'
<1>1. CASE UNCHANGED vars
  <2>1. /\ op' = op /\ pc' = pc /\ cur' = cur /\ cache' = cache /\ layout' = layout
        /\ died' = died /\ alone' = alone /\ lucky' = lucky /\ outcome' = outcome
    BY <1>1 DEF vars, local, work, history
  <2>2. ASSUME NEW p \in alone PROVE AloneShape(p)'
    BY <2>1 DEF AloneInv, AloneShape, View
  <2> QED
    BY <2>1, <2>2 DEF AloneInv
<1>2. ASSUME NEW p \in Procs, Push(p) \/ Pull(p) \/ RequestFails(p) \/ Crash(p),
             NEW q \in alone'
      PROVE  AloneShape(q)'
  <2>1. q \in Procs
    BY StepTyped DEF Typed, TypeOK
  <2>2. CASE q = p
    BY <1>2, <2>2, OwnStepAlone
  <2>3. CASE q # p
    BY <1>2, <2>1, <2>3, OthersLeaveAlone
  <2> QED
    BY <2>2, <2>3
<1> QED
  BY <1>1, <1>2 DEF Next, AloneInv

\* A pull that no other overlaps and no fault hits does not fail, whatever earlier pulls
\* have left in the cache, unless one died while it wrote a manifest; under the same
\* condition on repeated digests.
THEOREM PullsCanAlwaysBeRepeated == Spec /\ LinksAreSafe => []PullsCanBeRepeated
<1> DEFINE Inv == Typed /\ PushInv /\ TagInv /\ PullInv /\ CacheInv /\ AloneInv
<1>1. Init /\ LinksAreSafe => Inv
  <2> SUFFICES ASSUME Init, LinksAreSafe PROVE Inv
    OBVIOUS
  <2>1. CacheInv
    <3>1. \A m \in Manifests : cache[m] # Bad
      BY RegistryAssumption DEF Init, Digests
    <3> QED
      BY <3>1 DEF CacheInv
  <2>2. AloneInv
    BY DEF Init, AloneInv
  <2> QED
    BY <2>1, <2>2, InitTagged, InitPull
<1>2. Inv /\ [Next]_vars => Inv'
  BY TaggedStep, PullStep, CacheInvStep, AloneStep
<1>3. Inv => PullsCanBeRepeated
  BY DEF AloneInv, AloneShape, PullsCanBeRepeated
<1> QED
  BY <1>1, <1>2, <1>3, PTL DEF Spec
=============================================================================
