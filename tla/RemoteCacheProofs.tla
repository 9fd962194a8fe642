------------------------- MODULE RemoteCacheProofs -------------------------
(***************************************************************************)
(* Machine-checked proofs about RemoteCache, for every set of clients,     *)
(* commands, process ids and builds, every file size, every number of      *)
(* rebuilds and every combination of faults.                               *)
(***************************************************************************)
EXTENDS RemoteCache, SequenceTheorems, TLAPS

----------------------------------------------------------------------------
(* Facts about file contents.                                              *)

\* A file content is a sequence of versions of at most Size chunks.
LEMMA ContentIsSeq ==
    ASSUME NEW s \in Contents
    PROVE  s \in Seq(Versions) /\ Len(s) \in 0..Size
<1>1. PICK n \in 0..Size : s \in [1..n -> Versions]
  BY DEF Contents
<1>2. s \in Seq(Versions)
  BY <1>1, SeqDef, CacheAssumption
<1>3. Len(s) = n
  BY <1>1, CacheAssumption
<1> QED
  BY <1>1, <1>2, <1>3

\* A sequence of versions of at most Size chunks is a file content.
LEMMA SeqIsContent ==
    ASSUME NEW s \in Seq(Versions), Len(s) <= Size
    PROVE  s \in Contents
<1>1. s \in [1..Len(s) -> Versions] /\ Len(s) \in 0..Size
  BY LenProperties, CacheAssumption
<1> QED
  BY <1>1 DEF Contents

\* The file that `cat >` and fs::copy create, and every complete build, are contents.
LEMMA EmptyAndWhole ==
    /\ <<>> \in Contents
    /\ Len(<<>>) = 0
    /\ \A v \in Versions : Whole(v) \in Contents
<1>1. <<>> \in Contents /\ Len(<<>>) = 0
  <2>1. <<>> \in Seq(Versions) /\ Len(<<>>) = 0
    BY EmptySeq
  <2>2. Len(<<>>) <= Size
    BY <2>1, CacheAssumption
  <2> QED
    BY <2>1, <2>2, SeqIsContent
<1>2. ASSUME NEW v \in Versions PROVE Whole(v) \in Contents
  BY CacheAssumption DEF Whole, Contents
<1> QED
  BY <1>1, <1>2

\* Writing one more chunk keeps a short file a content.
LEMMA AppendContent ==
    ASSUME NEW s \in Contents, NEW v \in Versions, Len(s) < Size
    PROVE  Append(s, v) \in Contents
<1>1. s \in Seq(Versions) /\ Len(s) \in 0..Size
  BY ContentIsSeq
<1>2. Append(s, v) \in Seq(Versions) /\ Len(Append(s, v)) = Len(s) + 1
  BY <1>1, AppendProperties
<1>3. Len(Append(s, v)) <= Size
  BY <1>1, <1>2, CacheAssumption
<1> QED
  BY <1>2, <1>3, SeqIsContent

\* One more chunk of t, read at the feeder's offset.
LEMMA ReadNext ==
    ASSUME NEW s \in Contents, NEW t \in Contents, Len(s) < Len(t)
    PROVE  /\ Append(s, t[Len(s) + 1]) \in Contents
           /\ ReadOf(s, t) => ReadOf(Append(s, t[Len(s) + 1]), t)
<1>1. /\ s \in Seq(Versions) /\ Len(s) \in 0..Size
      /\ t \in Seq(Versions) /\ Len(t) \in 0..Size
  BY ContentIsSeq
<1>2. Len(s) + 1 \in 1..Len(t)
  BY <1>1
<1>3. t[Len(s) + 1] \in Versions
  BY <1>1, <1>2, ElementOfSeq
<1>4. Append(s, t[Len(s) + 1]) \in Contents
  BY <1>1, <1>3, AppendContent, CacheAssumption
<1>5. ASSUME ReadOf(s, t) PROVE ReadOf(Append(s, t[Len(s) + 1]), t)
  BY <1>1, <1>2, <1>3, <1>5, AppendProperties DEF ReadOf
<1> QED
  BY <1>4, <1>5

\* A feeder that has read to the end has sent the whole file.
LEMMA ReadToEnd ==
    ASSUME NEW s \in Contents, NEW t \in Contents, ReadOf(s, t), Len(s) >= Len(t)
    PROVE  s = t
<1>1. s \in Seq(Versions) /\ t \in Seq(Versions) /\ Len(s) = Len(t)
  BY ContentIsSeq, CacheAssumption DEF ReadOf
<1> QED
  BY <1>1, SeqEqual DEF ReadOf

----------------------------------------------------------------------------
(* Type correctness.                                                       *)

\* A live shell's temporary and a feeding client's source are file contents.
LEMMA LiveContents ==
    ASSUME TypeOK, CacheInv, NEW c \in Clients
    PROVE  /\ Live(c) => Temp(c) \in TempKeys /\ tmp[Temp(c)] \in Contents
           /\ Feeding(c) => Live(c) /\ Source(c) \in Contents
<1>1. Live(c) => Temp(c) \in TempKeys /\ tmp[Temp(c)] \in Contents
  BY DEF TypeOK, CacheInv, ShellShape, Temp, TempPath, TempKeys
<1>2. Feeding(c) => Live(c) /\ Source(c) \in Contents
  BY DEF TypeOK, CacheInv, ClientShape, Feeding, Source, Live
<1> QED
  BY <1>1, <1>2

\* What a feeder writes next is a file content.
LEMMA NextChunk ==
    ASSUME TypeOK, CacheInv, NEW c \in Clients, SendChunk(c)
    PROVE  /\ tmp[Temp(c)] \in Contents
           /\ Source(c) \in Contents
           /\ Append(tmp[Temp(c)], Source(c)[Len(tmp[Temp(c)]) + 1]) \in Contents
           /\ Append(tmp[Temp(c)], Source(c)[Len(tmp[Temp(c)]) + 1]) # None
<1>1. tmp[Temp(c)] \in Contents /\ Source(c) \in Contents
  BY LiveContents DEF SendChunk
<1>2. Append(tmp[Temp(c)], Source(c)[Len(tmp[Temp(c)]) + 1]) \in Contents
  BY <1>1, ReadNext DEF SendChunk
<1> QED
  BY <1>1, <1>2, CacheAssumption

\* Every action keeps every variable in its type.
LEMMA TypeStep ==
    ASSUME TypeOK, CacheInv, [Next]_vars
    PROVE  TypeOK'
<1> USE DEF TypeOK, vars, localVars, clientVars, remoteVars
<1>0. {addr[c] : c \in Reading} \subseteq Contents
  BY DEF Reading, CacheInv, ClientShape
<1>1. ASSUME NEW v \in Versions, BuildStart(v) PROVE TypeOK'
  BY <1>0, <1>1, EmptyAndWhole, CacheAssumption DEF BuildStart
<1>2. CASE BuildWrite
  <2>1. local' \in Contents
    BY <1>2, AppendContent, CacheAssumption DEF BuildWrite
  <2> QED
    BY <1>0, <1>2, <2>1 DEF BuildWrite
<1>3. CASE BuildEnd
  BY <1>3 DEF BuildEnd
<1>4. ASSUME NEW c \in Clients, Progress(c) PROVE TypeOK'
  <2>1. CASE Hash(c)
    BY <2>1 DEF Hash, Phases
  <2>2. CASE ProbeHit(c) \/ ProbeMiss(c)
    BY <2>2 DEF ProbeHit, ProbeMiss, Phases
  <2>3. CASE Execute(c)
    BY <2>3 DEF Execute, Phases, CacheInv, ClientShape
  <2>4. CASE StartUpload(c)
    <3>1. PICK p \in Pids :
             /\ pid' = [pid EXCEPT ![c] = p]
             /\ tmp' = [tmp EXCEPT ![TempPath(addr[c], p)] = <<>>]
      BY <2>4 DEF StartUpload
    <3>2. addr[c] \in Contents
      BY <2>4 DEF StartUpload, CacheInv, ClientShape
    <3>3. tmp' \in [TempKeys -> Contents \cup {None}]
      BY <3>1, EmptyAndWhole
    <3>4. pid' \in [Clients -> Pids \cup {None}]
      BY <3>1
    <3> QED
      BY <2>4, <3>2, <3>3, <3>4 DEF StartUpload, Phases, Feeds, Shells
  <2>5. CASE SendChunk(c)
    <3>1. tmp' \in [TempKeys -> Contents \cup {None}]
      BY <2>5, NextChunk DEF SendChunk
    <3> QED
      BY <2>5, <3>1 DEF SendChunk
  <2>6. CASE SendEof(c)
    BY <2>6 DEF SendEof, Feeds, Shells
  <2>7. CASE Chmod(c)
    BY <2>7 DEF Chmod, Shells
  <2>8. CASE Move(c)
    BY <2>8, LiveContents DEF Move, Live, Shells
  <2>9. CASE UploadSucceeds(c) \/ UploadFails(c)
    BY <2>9 DEF UploadSucceeds, UploadFails, Phases
  <2> QED
    BY <1>4, <2>1, <2>2, <2>3, <2>4, <2>5, <2>6, <2>7, <2>8, <2>9 DEF Progress
<1>5. ASSUME NEW c \in Clients, Fault(c) PROVE TypeOK'
  <2>1. CASE ReadFails(c)
    BY <2>1 DEF ReadFails, Phases
  <2>2. CASE FeedError(c)
    BY <2>2 DEF FeedError, Feeding, Feeds, Shells, CacheInv, ClientShape
  <2>3. CASE ConnectionLost(c)
    BY <2>3 DEF ConnectionLost, Phases, Feeds, Shells, CacheInv, ClientShape
  <2>4. CASE ScriptFails(c) \/ ShellKilled(c)
    BY <2>4 DEF ScriptFails, ShellKilled, Shells
  <2>5. CASE ShellSignalled(c)
    BY <2>5 DEF ShellSignalled, Shells
  <2> QED
    BY <1>5, <2>1, <2>2, <2>3, <2>4, <2>5 DEF Fault
<1>6. CASE UNCHANGED vars
  BY <1>6
<1> QED
  BY <1>1, <1>2, <1>3, <1>4, <1>5, <1>6 DEF Next, Build

----------------------------------------------------------------------------
(* The invariant, conjunct by conjunct.                                    *)

\* A step of the build touches no client and no remote file.
LEMMA ClientShapeStep ==
    ASSUME TypeOK, CacheInv, [Next]_vars, NEW d \in Clients
    PROVE  ClientShape(d)'
<1> USE DEF TypeOK, CacheInv, ClientShape, Streams, vars, localVars, clientVars, remoteVars
<1>1. CASE Build
  BY <1>1 DEF Build, BuildStart, BuildWrite, BuildEnd
<1>2. ASSUME NEW c \in Clients, Progress(c) PROVE ClientShape(d)'
  <2>1. CASE Hash(c)
    BY <2>1 DEF Hash
  <2>2. CASE ProbeHit(c) \/ ProbeMiss(c)
    BY <2>2 DEF ProbeHit, ProbeMiss
  <2>3. CASE Execute(c)
    BY <2>3 DEF Execute
  <2>4. CASE StartUpload(c)
    BY <2>4 DEF StartUpload
  <2>5. CASE SendChunk(c) \/ SendEof(c)
    BY <2>5 DEF SendChunk, SendEof, Feeding
  <2>6. CASE Chmod(c) \/ Move(c)
    BY <2>6 DEF Chmod, Move
  <2>7. CASE UploadSucceeds(c) \/ UploadFails(c)
    BY <2>7 DEF UploadSucceeds, UploadFails
  <2> QED
    BY <1>2, <2>1, <2>2, <2>3, <2>4, <2>5, <2>6, <2>7 DEF Progress
<1>3. ASSUME NEW c \in Clients, Fault(c) PROVE ClientShape(d)'
  <2>1. CASE ReadFails(c)
    BY <2>1 DEF ReadFails
  <2>2. CASE FeedError(c)
    BY <2>2 DEF FeedError, Feeding
  <2>3. CASE ConnectionLost(c)
    BY <2>3 DEF ConnectionLost
  <2>4. CASE ScriptFails(c) \/ ShellSignalled(c) \/ ShellKilled(c)
    BY <2>4 DEF ScriptFails, ShellSignalled, ShellKilled, Live
  <2> QED
    BY <1>3, <2>1, <2>2, <2>3, <2>4 DEF Fault
<1>4. CASE UNCHANGED vars
  BY <1>4
<1> QED
  BY <1>1, <1>2, <1>3, <1>4 DEF Next

\* Distinct live shells have distinct pids, so no step on one's temporary
\* reaches another's.
LEMMA ShellShapeStep ==
    ASSUME TypeOK, CacheInv, [Next]_vars, NEW d \in Clients
    PROVE  ShellShape(d)'
<1> USE DEF TypeOK, CacheInv, ShellShape, Live, Temp, TempPath, TempKeys,
            vars, localVars, clientVars, remoteVars
<1>1. CASE Build
  BY <1>1 DEF Build, BuildStart, BuildWrite, BuildEnd
<1>2. ASSUME NEW c \in Clients, Progress(c) PROVE ShellShape(d)'
  <2>1. CASE Hash(c)
    BY <2>1 DEF Hash, ClientShape
  <2>2. CASE ProbeHit(c) \/ ProbeMiss(c) \/ Execute(c)
    BY <2>2 DEF ProbeHit, ProbeMiss, Execute
  <2>3. CASE StartUpload(c)
    <3>1. PICK p \in Pids :
             /\ \A e \in Clients : Live(e) => pid[e] # p
             /\ pid' = [pid EXCEPT ![c] = p]
             /\ tmp' = [tmp EXCEPT ![TempPath(addr[c], p)] = <<>>]
      BY <2>3 DEF StartUpload
    <3>2. addr[c] \in Contents /\ ~Live(c)
      BY <2>3 DEF StartUpload, ClientShape
    <3>3. addr' = addr /\ sh' = [sh EXCEPT ![c] = "cat"]
      BY <2>3 DEF StartUpload
    <3>4. <<>> # None
      BY EmptyAndWhole, CacheAssumption
    <3>5. CASE d = c
      BY <3>1, <3>2, <3>3, <3>4, <3>5
    <3>6. CASE d # c
      BY <3>1, <3>2, <3>3, <3>6
    <3> QED
      BY <3>5, <3>6
  <2>4. CASE SendChunk(c)
    <3>1. PICK s \in Contents : s # None /\ tmp' = [tmp EXCEPT ![Temp(c)] = s]
      BY <2>4, NextChunk DEF SendChunk
    <3> QED
      BY <2>4, <3>1 DEF SendChunk, Feeding
  <2>5. CASE SendEof(c)
    BY <2>5 DEF SendEof, Feeding
  <2>6. CASE Chmod(c)
    BY <2>6 DEF Chmod
  <2>7. CASE Move(c)
    BY <2>7 DEF Move
  <2>8. CASE UploadSucceeds(c) \/ UploadFails(c)
    BY <2>8 DEF UploadSucceeds, UploadFails
  <2> QED
    BY <1>2, <2>1, <2>2, <2>3, <2>4, <2>5, <2>6, <2>7, <2>8 DEF Progress
<1>3. ASSUME NEW c \in Clients, Fault(c) PROVE ShellShape(d)'
  <2>1. CASE ReadFails(c)
    BY <2>1 DEF ReadFails
  <2>2. CASE FeedError(c)
    BY <2>2 DEF FeedError, Feeding
  <2>3. CASE ConnectionLost(c)
    BY <2>3 DEF ConnectionLost
  <2>4. CASE ScriptFails(c) \/ ShellKilled(c)
    BY <2>4 DEF ScriptFails, ShellKilled
  <2>5. CASE ShellSignalled(c)
    BY <2>5 DEF ShellSignalled
  <2> QED
    BY <1>3, <2>1, <2>2, <2>3, <2>4, <2>5 DEF Fault
<1>4. CASE UNCHANGED vars
  BY <1>4
<1> QED
  BY <1>1, <1>2, <1>3, <1>4 DEF Next

\* A temporary changes only under the shell that owns it.
LEMMA OtherTemp ==
    ASSUME TypeOK, CacheInv, NEW c \in Clients, NEW d \in Clients, d # c,
           Live(c), Live(d), NEW s
    PROVE  [tmp EXCEPT ![Temp(c)] = s][Temp(d)] = tmp[Temp(d)]
<1>1. Temp(c) # Temp(d) /\ Temp(d) \in TempKeys
  BY DEF CacheInv, ShellShape, Temp, TempPath, TempKeys
<1> QED
  BY <1>1 DEF TypeOK

\* An upload whose address is not suspect writes exactly what was hashed: a
\* build makes the addresses being read suspect, other shells write elsewhere.
LEMMA FaithfulStep ==
    ASSUME TypeOK, CacheInv, [Next]_vars, NEW d \in Clients
    PROVE  UploadIsFaithful(d)'
<1> USE DEF vars, localVars, clientVars, remoteVars
<1>0. UploadIsFaithful(d) /\ ClientShape(d) /\ ShellShape(d)
  BY DEF CacheInv
<1>1. CASE Build
  <2>1. CASE BuildEnd
    BY <1>0, <2>1 DEF BuildEnd, UploadIsFaithful, Source, Streams, Temp, TempPath
  <2>2. CASE BuildWrite \/ \E v \in Versions : BuildStart(v)
    <3>1. /\ suspect' = suspect \cup {addr[c] : c \in Reading}
          /\ UNCHANGED <<clientVars, remoteVars>>
      BY <2>2 DEF BuildWrite, BuildStart
    <3>2. CASE Streams(d) /\ sh[d] = "cat"
      BY <1>0, <3>1, <3>2 DEF ClientShape, Reading, UploadIsFaithful
    <3>3. CASE ~(Streams(d) /\ sh[d] = "cat")
      BY <1>0, <3>1, <3>3 DEF UploadIsFaithful, Source, Streams, Temp, TempPath
    <3> QED
      BY <3>2, <3>3
  <2> QED
    BY <1>1, <2>1, <2>2 DEF Build
<1>2. ASSUME NEW c \in Clients, Progress(c) PROVE UploadIsFaithful(d)'
  <2>1. CASE Hash(c)
    BY <1>0, <2>1 DEF Hash, UploadIsFaithful, ClientShape, CacheInv, TypeOK,
                      Source, Streams, Temp, TempPath
  <2>2. CASE ProbeHit(c) \/ ProbeMiss(c) \/ Execute(c) \/ UploadSucceeds(c) \/ UploadFails(c)
    BY <1>0, <2>2 DEF ProbeHit, ProbeMiss, Execute, UploadSucceeds, UploadFails,
                      UploadIsFaithful, Source, Streams, Temp, TempPath
  <2>3. CASE StartUpload(c)
    <3>1. PICK p \in Pids :
             /\ \A e \in Clients : Live(e) => pid[e] # p
             /\ pid' = [pid EXCEPT ![c] = p]
             /\ tmp' = [tmp EXCEPT ![TempPath(addr[c], p)] = <<>>]
      BY <2>3 DEF StartUpload
    <3>2. addr[c] \in Contents /\ ~Live(c)
      BY <2>3 DEF StartUpload, CacheInv, ClientShape, Live
    <3>3. CASE d = c
      <4>1. tmp'[Temp(c)'] = <<>> /\ sh'[c] = "cat" /\ addr' = addr
        BY <2>3, <3>1, <3>2 DEF StartUpload, TypeOK, Temp, TempPath, TempKeys
      <4>2. ReadOf(<<>>, addr[c])
        BY <3>2, EmptyAndWhole, ContentIsSeq DEF ReadOf
      <4>3. addr[c] \notin suspect' => Source(c)' = addr[c]
        BY <2>3, <3>2 DEF StartUpload, Source, Streams, TypeOK
      <4> QED
        BY <3>3, <4>1, <4>2, <4>3 DEF UploadIsFaithful
    <3>4. CASE d # c
      <4>1. /\ sh'[d] = sh[d] /\ addr' = addr /\ pid'[d] = pid[d]
            /\ Source(d)' = Source(d)
            /\ suspect \subseteq suspect'
        BY <2>3, <3>1, <3>4 DEF StartUpload, TypeOK, Source, Streams
      <4>2. Live(d) => tmp'[Temp(d)] = tmp[Temp(d)]
        BY <1>0, <3>1 DEF TypeOK, ShellShape, Temp, TempPath, TempKeys
      <4> QED
        BY <1>0, <4>1, <4>2 DEF UploadIsFaithful, Live, Temp, TempPath
    <3> QED
      BY <3>3, <3>4
  <2>4. CASE SendChunk(c)
    <3>1. Live(c) /\ sh[c] = "cat"
      BY <2>4 DEF SendChunk, Feeding, Live
    <3>2. UNCHANGED <<sh, addr, pid, data, local, suspect>>
      BY <2>4 DEF SendChunk
    <3>3. CASE d = c
      <4>1. Temp(c) \in TempKeys
        BY <3>1, LiveContents
      <4>2. tmp'[Temp(c)] = Append(tmp[Temp(c)], Source(c)[Len(tmp[Temp(c)]) + 1])
        BY <2>4, <4>1 DEF SendChunk, TypeOK
      <4>3. ASSUME addr[c] \notin suspect PROVE ReadOf(tmp'[Temp(c)], addr[c])
        <5>1. Source(c) = addr[c] /\ ReadOf(tmp[Temp(c)], Source(c))
          BY <1>0, <3>1, <3>3, <4>3 DEF UploadIsFaithful
        <5>2. Len(tmp[Temp(c)]) < Len(Source(c))
          BY <2>4 DEF SendChunk
        <5>3. ReadOf(tmp'[Temp(c)], Source(c))
          BY <2>4, <4>2, <5>1, <5>2, NextChunk, ReadNext
        <5> QED
          BY <5>1, <5>3
      <4> QED
        BY <1>0, <3>1, <3>2, <3>3, <4>3 DEF UploadIsFaithful, Source, Streams, Temp, TempPath
    <3>4. CASE d # c
      <4>1. Live(d) => tmp'[Temp(d)] = tmp[Temp(d)]
        BY <2>4, <3>1, <3>4, OtherTemp DEF SendChunk
      <4> QED
        BY <1>0, <3>2, <4>1 DEF UploadIsFaithful, Live, Source, Streams, Temp, TempPath
    <3> QED
      BY <3>3, <3>4
  <2>5. CASE SendEof(c)
    <3>1. Live(c) /\ sh[c] = "cat" /\ Len(tmp[Temp(c)]) >= Len(Source(c))
      BY <2>5 DEF SendEof, Feeding, Live
    <3>2. /\ UNCHANGED <<addr, pid, tmp, data, local, suspect>>
          /\ sh' = [sh EXCEPT ![c] = "eof"]
      BY <2>5 DEF SendEof
    <3>3. CASE d = c
      <4>1. ASSUME addr[c] \notin suspect PROVE tmp[Temp(c)] = addr[c]
        <5>1. Source(c) = addr[c] /\ ReadOf(tmp[Temp(c)], Source(c))
          BY <1>0, <3>1, <3>3, <4>1 DEF UploadIsFaithful
        <5>2. tmp[Temp(c)] \in Contents /\ Source(c) \in Contents
          BY <2>5, LiveContents DEF SendEof
        <5> QED
          BY <3>1, <5>1, <5>2, ReadToEnd
      <4> QED
        BY <1>0, <3>1, <3>2, <3>3, <4>1 DEF UploadIsFaithful, TypeOK, Temp, TempPath
    <3>4. CASE d # c
      BY <1>0, <3>2, <3>4 DEF UploadIsFaithful, TypeOK, Source, Streams, Temp, TempPath
    <3> QED
      BY <3>3, <3>4
  <2>6. CASE Chmod(c)
    BY <1>0, <2>6 DEF Chmod, UploadIsFaithful, TypeOK, Source, Streams, Temp, TempPath
  <2>7. CASE Move(c)
    <3>1. Live(d) /\ d # c => tmp'[Temp(d)] = tmp[Temp(d)]
      BY <2>7, OtherTemp DEF Move, Live
    <3> QED
      BY <1>0, <2>7, <3>1 DEF Move, UploadIsFaithful, TypeOK, Live, Source, Streams, Temp, TempPath
  <2> QED
    BY <1>2, <2>1, <2>2, <2>3, <2>4, <2>5, <2>6, <2>7 DEF Progress
<1>3. ASSUME NEW c \in Clients, Fault(c) PROVE UploadIsFaithful(d)'
  <2>1. CASE ReadFails(c)
    BY <1>0, <2>1 DEF ReadFails, UploadIsFaithful, Source, Streams, Temp, TempPath
  <2>2. CASE FeedError(c) \/ ConnectionLost(c)
    BY <1>0, <2>2 DEF FeedError, ConnectionLost, Feeding, UploadIsFaithful, TypeOK,
                      Source, Streams, Temp, TempPath
  <2>3. CASE ScriptFails(c) \/ ShellKilled(c)
    BY <1>0, <2>3 DEF ScriptFails, ShellKilled, UploadIsFaithful, TypeOK, Source, Streams, Temp, TempPath
  <2>4. CASE ShellSignalled(c)
    <3>1. Live(d) /\ d # c => tmp'[Temp(d)] = tmp[Temp(d)]
      BY <2>4, OtherTemp DEF ShellSignalled
    <3> QED
      BY <1>0, <2>4, <3>1 DEF ShellSignalled, UploadIsFaithful, TypeOK, Live, Source, Streams, Temp, TempPath
  <2> QED
    BY <1>3, <2>1, <2>2, <2>3, <2>4 DEF Fault
<1>4. CASE UNCHANGED vars
  BY <1>0, <1>4 DEF UploadIsFaithful, Source, Streams, Temp, TempPath
<1> QED
  BY <1>1, <1>2, <1>3, <1>4 DEF Next

\* Installed files are never removed: only Move writes the cache, and it writes
\* a file.
LEMMA CacheStep ==
    ASSUME TypeOK, CacheInv, [Next]_vars
    PROVE  \/ UNCHANGED cache
           \/ \E c \in Clients :
                /\ Move(c)
                /\ sh[c] = "ready"
                /\ addr[c] \in Contents
                /\ tmp[Temp(c)] \in Contents
                /\ cache' = [cache EXCEPT ![addr[c]] = tmp[Temp(c)]]
<1> USE DEF vars, localVars, clientVars, remoteVars
<1>1. CASE Build
  BY <1>1 DEF Build, BuildStart, BuildWrite, BuildEnd
<1>2. ASSUME NEW c \in Clients, Progress(c), ~Move(c) PROVE UNCHANGED cache
  BY <1>2 DEF Progress, Hash, ProbeHit, ProbeMiss, Execute, StartUpload, SendChunk,
              SendEof, Chmod, UploadSucceeds, UploadFails
<1>3. ASSUME NEW c \in Clients, Move(c)
      PROVE  /\ sh[c] = "ready"
             /\ addr[c] \in Contents
             /\ tmp[Temp(c)] \in Contents
             /\ cache' = [cache EXCEPT ![addr[c]] = tmp[Temp(c)]]
  <2>1. Live(c)
    BY <1>3 DEF Move, Live
  <2>2. tmp[Temp(c)] \in Contents /\ addr[c] \in Contents
    BY <2>1, LiveContents DEF CacheInv, ShellShape
  <2> QED
    BY <1>3, <2>2 DEF Move
<1>4. ASSUME NEW c \in Clients, Fault(c) PROVE UNCHANGED cache
  BY <1>4 DEF Fault, ReadFails, FeedError, ConnectionLost, ScriptFails, ShellSignalled, ShellKilled
<1> QED
  BY <1>1, <1>2, <1>3, <1>4 DEF Next

\* A filled address stays filled.
LEMMA FilledStaysFilled ==
    ASSUME TypeOK, CacheInv, [Next]_vars, NEW h \in Contents, cache[h] # None
    PROVE  cache'[h] # None
BY CacheStep, CacheAssumption DEF TypeOK

\* Addresses never leave the suspect set, and a client that has hashed keeps its address.
LEMMA HistoryStep ==
    ASSUME TypeOK, CacheInv, [Next]_vars
    PROVE  /\ suspect \subseteq suspect'
           /\ \A c \in Clients : phase[c] # "start" => addr'[c] = addr[c]
<1> USE DEF vars, localVars, clientVars, remoteVars
<1>1. CASE Build
  BY <1>1 DEF Build, BuildStart, BuildWrite, BuildEnd
<1>2. ASSUME NEW c \in Clients, Progress(c)
      PROVE  /\ suspect \subseteq suspect'
             /\ \A d \in Clients : phase[d] # "start" => addr'[d] = addr[d]
  BY <1>2 DEF TypeOK, Progress, Hash, ProbeHit, ProbeMiss, Execute, StartUpload, SendChunk,
              SendEof, Chmod, Move, UploadSucceeds, UploadFails
<1>3. ASSUME NEW c \in Clients, Fault(c) PROVE suspect \subseteq suspect' /\ addr' = addr
  BY <1>3 DEF Fault, ReadFails, FeedError, ConnectionLost, ScriptFails, ShellSignalled, ShellKilled
<1> QED
  BY <1>1, <1>2, <1>3 DEF Next

\* CommittedIsWhole: what Move installs was faithful, or its address is suspect.
LEMMA CommittedStep ==
    ASSUME TypeOK, CacheInv, [Next]_vars
    PROVE  CommittedIsWhole'
<1> SUFFICES ASSUME NEW h \in Contents, h \notin suspect', cache'[h] # None
             PROVE  cache'[h] = h
  BY DEF CommittedIsWhole
<1>1. h \notin suspect
  BY HistoryStep
<1>2. CASE UNCHANGED cache
  BY <1>1, <1>2 DEF CacheInv, CommittedIsWhole
<1>3. ASSUME NEW c \in Clients, sh[c] = "ready", addr[c] \in Contents,
             cache' = [cache EXCEPT ![addr[c]] = tmp[Temp(c)]]
      PROVE  cache'[h] = h
  <2>1. CASE addr[c] = h
    BY <1>1, <1>3, <2>1 DEF CacheInv, UploadIsFaithful, TypeOK
  <2>2. CASE addr[c] # h
    BY <1>1, <1>3, <2>2 DEF CacheInv, CommittedIsWhole, TypeOK
  <2> QED
    BY <2>1, <2>2
<1> QED
  BY <1>2, <1>3, CacheStep

\* UploadInstalls: the step that exits with status 0 is the one that installs.
LEMMA InstallsStep ==
    ASSUME TypeOK, CacheInv, [Next]_vars, NEW d \in Clients
    PROVE  UploadInstalls(d)'
<1> SUFFICES ASSUME sh'[d] = "exited"
             PROVE  addr'[d] \in Contents /\ cache'[addr'[d]] # None
  BY DEF UploadInstalls
<1>1. CASE sh[d] = "exited"
  <2>1. addr[d] \in Contents /\ cache[addr[d]] # None /\ phase[d] # "start"
    BY <1>1 DEF CacheInv, UploadInstalls, ClientShape
  <2> QED
    BY <2>1, HistoryStep, FilledStaysFilled
<1>2. CASE sh[d] # "exited"
  <2>1. Move(d)
    <3> USE DEF vars, localVars, clientVars, remoteVars
    <3>1. ~Build /\ ~UNCHANGED vars
      BY <1>2 DEF Build, BuildStart, BuildWrite, BuildEnd
    <3>2. ASSUME NEW c \in Clients, Fault(c) PROVE FALSE
      BY <1>2, <3>2 DEF TypeOK, Fault, ReadFails, FeedError, ConnectionLost,
                        ScriptFails, ShellSignalled, ShellKilled
    <3>3. ASSUME NEW c \in Clients, Progress(c) PROVE c = d /\ Move(c)
      BY <1>2, <3>3 DEF TypeOK, Progress, Hash, ProbeHit, ProbeMiss, Execute, StartUpload,
                        SendChunk, SendEof, Chmod, Move, UploadSucceeds, UploadFails
    <3> QED
      BY <3>1, <3>2, <3>3 DEF Next
  <2>2. Live(d) /\ addr' = addr
    BY <2>1 DEF Move, Live, clientVars
  <2>3. tmp[Temp(d)] \in Contents /\ addr[d] \in Contents
    BY <2>2, LiveContents DEF CacheInv, ShellShape
  <2> QED
    BY <2>1, <2>2, <2>3, CacheAssumption DEF Move, TypeOK
<1> QED
  BY <1>1, <1>2

\* ReadyToRun: a probe that hit, or an upload that succeeded, found the address
\* filled, and it stays filled.
LEMMA ReadyStep ==
    ASSUME TypeOK, CacheInv, [Next]_vars
    PROVE  ReadyToRun'
<1> SUFFICES ASSUME NEW d \in Clients, phase'[d] \in {"execute", "done"}
             PROVE  cache'[addr'[d]] # None
  BY DEF ReadyToRun
<1>1. CASE phase[d] \in {"execute", "done"}
  <2>1. addr[d] \in Contents /\ cache[addr[d]] # None
    BY <1>1 DEF CacheInv, ReadyToRun, ClientShape
  <2> QED
    BY <1>1, <2>1, HistoryStep, FilledStaysFilled
<1>2. CASE phase[d] \notin {"execute", "done"}
  <2>1. ProbeHit(d) \/ UploadSucceeds(d)
    <3> USE DEF vars, localVars, clientVars, remoteVars
    <3>1. ~Build /\ ~UNCHANGED vars
      BY <1>2 DEF Build, BuildStart, BuildWrite, BuildEnd
    <3>2. ASSUME NEW c \in Clients, Fault(c) PROVE FALSE
      BY <1>2, <3>2 DEF TypeOK, Fault, ReadFails, FeedError, ConnectionLost,
                        ScriptFails, ShellSignalled, ShellKilled
    <3>3. ASSUME NEW c \in Clients, Progress(c)
          PROVE  c = d /\ (ProbeHit(c) \/ UploadSucceeds(c))
      BY <1>2, <3>3 DEF TypeOK, Progress, Hash, ProbeHit, ProbeMiss, Execute, StartUpload,
                        SendChunk, SendEof, Chmod, Move, UploadSucceeds, UploadFails
    <3> QED
      BY <3>1, <3>2, <3>3 DEF Next
  <2> QED
    BY <2>1 DEF ProbeHit, UploadSucceeds, remoteVars, CacheInv, UploadInstalls
<1> QED
  BY <1>1, <1>2

\* RanWhatWasHashed: Execute runs what the cache holds under the client's address.
LEMMA RanStep ==
    ASSUME TypeOK, CacheInv, [Next]_vars
    PROVE  RanWhatWasHashed'
<1> SUFFICES ASSUME NEW d \in Clients, ran'[d] # None
             PROVE  ran'[d] = addr'[d] \/ addr'[d] \in suspect'
  BY DEF RanWhatWasHashed
<1>1. CASE ran'[d] = ran[d]
  <2>1. phase[d] # "start"
    BY <1>1 DEF CacheInv, ClientShape
  <2> QED
    BY <1>1, <2>1, HistoryStep DEF CacheInv, RanWhatWasHashed
<1>2. CASE ran'[d] # ran[d]
  <2>1. Execute(d)
    <3> USE DEF vars, localVars, clientVars, remoteVars
    <3>1. ~Build /\ ~UNCHANGED vars
      BY <1>2 DEF Build, BuildStart, BuildWrite, BuildEnd
    <3>2. ASSUME NEW c \in Clients, Fault(c) PROVE FALSE
      BY <1>2, <3>2 DEF Fault, ReadFails, FeedError, ConnectionLost,
                        ScriptFails, ShellSignalled, ShellKilled
    <3>3. ASSUME NEW c \in Clients, Progress(c) PROVE c = d /\ Execute(c)
      BY <1>2, <3>3 DEF TypeOK, Progress, Hash, ProbeHit, ProbeMiss, Execute, StartUpload,
                        SendChunk, SendEof, Chmod, Move, UploadSucceeds, UploadFails
    <3> QED
      BY <3>1, <3>2, <3>3 DEF Next
  <2> QED
    BY <2>1 DEF Execute, CacheInv, ClientShape, CommittedIsWhole, TypeOK
<1> QED
  BY <1>1, <1>2

\* DoubtIsEarned: a step that raises a doubt is a rebuild, follows one, or breaks
\* the feed of a client at that address.
LEMMA DoubtStep ==
    ASSUME TypeOK, CacheInv, [Next]_vars
    PROVE  DoubtIsEarned'
<1> USE DEF vars, localVars, clientVars, remoteVars
<1>0. DoubtIsEarned
  BY DEF CacheInv
<1>1. CASE Build
  <2>1. ASSUME NEW v \in Versions, BuildStart(v) PROVE DoubtIsEarned'
    BY <1>0, <2>1, CacheAssumption DEF BuildStart, DoubtIsEarned, Broken, TypeOK
  <2>2. CASE BuildWrite \/ BuildEnd
    BY <1>0, <2>2, CacheAssumption DEF BuildWrite, BuildEnd, DoubtIsEarned, Broken, TypeOK
  <2> QED
    BY <1>1, <2>1, <2>2 DEF Build
<1>2. ASSUME NEW c \in Clients, Progress(c) PROVE DoubtIsEarned'
  <2>1. CASE Hash(c)
    BY <1>0, <2>1 DEF Hash, DoubtIsEarned, Broken, TypeOK
  <2>2. CASE ProbeHit(c) \/ ProbeMiss(c) \/ Execute(c)
    BY <1>0, <2>2 DEF ProbeHit, ProbeMiss, Execute, DoubtIsEarned, Broken, TypeOK
  <2>3. CASE StartUpload(c)
    <3>1. addr[c] # None /\ ~Broken(c)
      BY <1>0, <2>3, CacheAssumption DEF StartUpload, DoubtIsEarned, CacheInv, ClientShape
    <3>2. \/ suspect' = suspect
          \/ local # addr[c] /\ suspect' = suspect \cup {addr[c]}
      BY <2>3 DEF StartUpload
    <3>3. builds > 0 \/ suspect' = suspect
      BY <1>0, <3>1, <3>2, CacheAssumption DEF DoubtIsEarned, TypeOK
    <3> QED
      BY <1>0, <2>3, <3>1, <3>3 DEF StartUpload, DoubtIsEarned, Broken, TypeOK
  <2>4. CASE SendChunk(c) \/ SendEof(c) \/ Chmod(c) \/ Move(c)
    BY <1>0, <2>4 DEF SendChunk, SendEof, Chmod, Move, Feeding, DoubtIsEarned, Broken, TypeOK
  <2>5. CASE UploadSucceeds(c) \/ UploadFails(c)
    BY <1>0, <2>5 DEF UploadSucceeds, UploadFails, DoubtIsEarned, Broken, TypeOK
  <2> QED
    BY <1>2, <2>1, <2>2, <2>3, <2>4, <2>5 DEF Progress
<1>3. ASSUME NEW c \in Clients, Fault(c) PROVE DoubtIsEarned'
  <2>1. CASE ReadFails(c)
    BY <1>0, <2>1 DEF ReadFails, DoubtIsEarned, Broken, TypeOK
  <2>2. CASE FeedError(c)
    BY <1>0, <2>2 DEF FeedError, Feeding, DoubtIsEarned, Broken, TypeOK
  <2>3. CASE ConnectionLost(c)
    <3>1. sh[c] = "cat" => feed[c] = "open"
      BY DEF CacheInv, ClientShape
    <3> QED
      BY <1>0, <2>3, <3>1 DEF ConnectionLost, DoubtIsEarned, Broken, TypeOK
  <2>4. CASE ScriptFails(c) \/ ShellSignalled(c) \/ ShellKilled(c)
    BY <1>0, <2>4 DEF ScriptFails, ShellSignalled, ShellKilled, DoubtIsEarned, Broken
  <2> QED
    BY <1>3, <2>1, <2>2, <2>3, <2>4 DEF Fault
<1>4. CASE UNCHANGED vars
  BY <1>0, <1>4 DEF DoubtIsEarned, Broken
<1> QED
  BY <1>1, <1>2, <1>3, <1>4 DEF Next

\* TempsAccountedFor: only the shell that owns a temporary creates or writes it,
\* and a shell that ends by mv or by its trap takes it along.
LEMMA TempsStep ==
    ASSUME TypeOK, CacheInv, [Next]_vars
    PROVE  TempsAccountedFor'
<1> DEFINE Owner(c, h, p) == /\ addr[c] = h
                             /\ pid[c] = p
                             /\ Live(c) \/ sh[c] \in {"failed", "killed"}
<1> SUFFICES ASSUME NEW h \in Contents, NEW p \in Pids, tmp'[<<h, p>>] # None
             PROVE  \E c \in Clients : Owner(c, h, p)'
  BY DEF TempsAccountedFor, TempPath
<1> USE DEF vars, localVars, clientVars, remoteVars
<1>0. <<h, p>> \in TempKeys
  BY DEF TempKeys
<1>1. tmp[<<h, p>>] # None => \E c \in Clients : Owner(c, h, p)
  BY DEF CacheInv, TempsAccountedFor, TempPath
<1>2. CASE Build
  BY <1>1, <1>2 DEF Build, BuildStart, BuildWrite, BuildEnd, Live
<1>3. ASSUME NEW c \in Clients, Progress(c) PROVE \E d \in Clients : Owner(d, h, p)'
  <2>1. CASE Hash(c)
    BY <1>1, <2>1 DEF Hash, TypeOK, CacheInv, ClientShape, Live
  <2>2. CASE ProbeHit(c) \/ ProbeMiss(c) \/ Execute(c) \/ UploadSucceeds(c) \/ UploadFails(c)
    BY <1>1, <2>2 DEF ProbeHit, ProbeMiss, Execute, UploadSucceeds, UploadFails, Live
  <2>3. CASE StartUpload(c)
    <3>1. PICK q \in Pids :
             /\ pid' = [pid EXCEPT ![c] = q]
             /\ tmp' = [tmp EXCEPT ![<<addr[c], q>>] = <<>>]
      BY <2>3 DEF StartUpload, TempPath
    <3>2. sh[c] = "none" /\ sh' = [sh EXCEPT ![c] = "cat"] /\ addr' = addr
      BY <2>3 DEF StartUpload, CacheInv, ClientShape
    <3>3. CASE h = addr[c] /\ p = q
      BY <3>1, <3>2, <3>3 DEF TypeOK, Live
    <3>4. CASE ~(h = addr[c] /\ p = q)
      <4>1. PICK d \in Clients : Owner(d, h, p)
        BY <1>0, <1>1, <3>1, <3>4 DEF TypeOK
      <4>2. d # c
        BY <3>2, <4>1 DEF Live
      <4> QED
        BY <3>1, <3>2, <4>1, <4>2 DEF TypeOK, Live
    <3> QED
      BY <3>3, <3>4
  <2>4. CASE SendChunk(c)
    <3>1. Live(c) /\ Temp(c) \in TempKeys
      BY <2>4, LiveContents DEF SendChunk, Feeding
    <3>2. UNCHANGED <<addr, pid, sh>>
      BY <2>4 DEF SendChunk
    <3>3. CASE Temp(c) = <<h, p>>
      BY <3>1, <3>2, <3>3 DEF Temp, TempPath, Live
    <3>4. CASE Temp(c) # <<h, p>>
      BY <1>0, <1>1, <2>4, <3>2, <3>4 DEF SendChunk, TypeOK, Live
    <3> QED
      BY <3>3, <3>4
  <2>5. CASE SendEof(c) \/ Chmod(c)
    BY <1>1, <2>5 DEF SendEof, Chmod, Feeding, TypeOK, Live
  <2>6. CASE Move(c)
    <3>1. Temp(c) # <<h, p>> /\ tmp[<<h, p>>] # None
      BY <1>0, <2>6 DEF Move, TypeOK
    <3>2. PICK d \in Clients : Owner(d, h, p)
      BY <1>1, <3>1
    <3>3. d # c
      BY <3>1, <3>2 DEF Temp, TempPath
    <3> QED
      BY <2>6, <3>2, <3>3 DEF Move, TypeOK, Live
  <2> QED
    BY <1>3, <2>1, <2>2, <2>3, <2>4, <2>5, <2>6 DEF Progress
<1>4. ASSUME NEW c \in Clients, Fault(c) PROVE \E d \in Clients : Owner(d, h, p)'
  <2>1. CASE ReadFails(c)
    BY <1>1, <2>1 DEF ReadFails, Live
  <2>2. CASE FeedError(c) \/ ConnectionLost(c)
    BY <1>1, <2>2 DEF FeedError, ConnectionLost, Feeding, TypeOK, Live
  <2>3. CASE ScriptFails(c) \/ ShellKilled(c)
    BY <1>1, <2>3 DEF ScriptFails, ShellKilled, TypeOK, Live
  <2>4. CASE ShellSignalled(c)
    <3>1. Temp(c) # <<h, p>> /\ tmp[<<h, p>>] # None
      BY <1>0, <2>4 DEF ShellSignalled, TypeOK
    <3>2. PICK d \in Clients : Owner(d, h, p)
      BY <1>1, <3>1
    <3>3. d # c
      BY <3>1, <3>2 DEF Temp, TempPath
    <3> QED
      BY <2>4, <3>2, <3>3 DEF ShellSignalled, TypeOK, Live
  <2> QED
    BY <1>4, <2>1, <2>2, <2>3, <2>4 DEF Fault
<1>5. CASE UNCHANGED vars
  BY <1>1, <1>5 DEF Live
<1> QED
  BY <1>2, <1>3, <1>4, <1>5 DEF Next

----------------------------------------------------------------------------
(* The theorems.                                                           *)

\* Types and the inductive invariant hold in every reachable state: whatever the
\* interleaving of invocations, shells, builds and faults.
THEOREM CacheInvariance == Spec => [](TypeOK /\ CacheInv)
<1>1. Init => TypeOK /\ CacheInv
  <2> SUFFICES ASSUME Init PROVE TypeOK /\ CacheInv
    OBVIOUS
  <2>1. TypeOK
    BY EmptyAndWhole, CacheAssumption DEF Init, TypeOK, Phases, Feeds, Shells
  <2>2. \A c \in Clients : ClientShape(c) /\ ShellShape(c)
    BY DEF Init, ClientShape, ShellShape, Live
  <2>3. \A c \in Clients : UploadIsFaithful(c) /\ UploadInstalls(c)
    BY DEF Init, UploadIsFaithful, UploadInstalls
  <2>4. /\ CommittedIsWhole /\ ReadyToRun /\ RanWhatWasHashed /\ TempsAccountedFor
        /\ DoubtIsEarned
    BY DEF Init, DoubtIsEarned, Broken, CommittedIsWhole, ReadyToRun, RanWhatWasHashed, TempsAccountedFor, TempPath, TempKeys
  <2> QED
    BY <2>1, <2>2, <2>3, <2>4 DEF CacheInv
<1>2. TypeOK /\ CacheInv /\ [Next]_vars => (TypeOK /\ CacheInv)'
  <2> SUFFICES ASSUME TypeOK, CacheInv, [Next]_vars
               PROVE  TypeOK' /\ CacheInv'
    OBVIOUS
  <2>1. TypeOK'
    BY TypeStep
  <2>2. \A d \in Clients : ClientShape(d)' /\ ShellShape(d)'
    BY ClientShapeStep, ShellShapeStep
  <2>3. \A d \in Clients : UploadIsFaithful(d)' /\ UploadInstalls(d)'
    BY FaithfulStep, InstallsStep
  <2>4. /\ DoubtIsEarned'
        /\ CommittedIsWhole' /\ ReadyToRun' /\ RanWhatWasHashed' /\ TempsAccountedFor'
    BY DoubtStep, CommittedStep, ReadyStep, RanStep, TempsStep
  <2> QED
    BY <2>1, <2>2, <2>3, <2>4 DEF CacheInv
<1> QED
  BY <1>1, <1>2, PTL DEF Spec

\* Every variable keeps its type.
THEOREM TypeCorrect == Spec => []TypeOK
BY CacheInvariance, PTL

\* An address that no upload left suspect holds the content it names.
THEOREM CommittedFilesAreWhole == Spec => []CommittedIsWhole
<1>1. TypeOK /\ CacheInv => CommittedIsWhole
  BY DEF CacheInv
<1> QED
  BY <1>1, CacheInvariance, PTL

\* A mismatch between a file and its address traces back to a rebuild or to a
\* client whose feed broke and who does not report success.
THEOREM CorruptionIsNeverSilent == Spec => []NoSilentCorruption
<1>1. TypeOK /\ CacheInv => NoSilentCorruption
  BY DEF CacheInv, CommittedIsWhole, DoubtIsEarned, NoSilentCorruption
<1> QED
  BY <1>1, CacheInvariance, PTL

\* The tool is there for every client that was told so.
THEOREM ToolIsThere == Spec => []ReadyToRun
<1>1. TypeOK /\ CacheInv => ReadyToRun
  BY DEF CacheInv
<1> QED
  BY <1>1, CacheInvariance, PTL

\* A client runs the content it hashed unless the address became suspect.
THEOREM ClientsRunWhatTheyHashed == Spec => []RanWhatWasHashed
<1>1. TypeOK /\ CacheInv => RanWhatWasHashed
  BY DEF CacheInv
<1> QED
  BY <1>1, CacheInvariance, PTL

\* Every temporary has a live owner, or an owner that died without its trap.
THEOREM TemporariesHaveOwners == Spec => []TempsAccountedFor
<1>1. TypeOK /\ CacheInv => TempsAccountedFor
  BY DEF CacheInv
<1> QED
  BY <1>1, CacheInvariance, PTL
----------------------------------------------------------------------------
(* RemoteCache implements ContentStore.                                    *)

\* The store's variables, as the refinement reads them, change only with these.
LEMMA StoreUnchanged ==
    ASSUME UNCHANGED <<phase, addr, ran, cache, suspect>>
    PROVE  UNCHANGED Store!storeVars
BY DEF Store!storeVars, Answer

\* A build makes suspect only addresses that clients asked for.
LEMMA BuildRefines ==
    ASSUME TypeOK, CacheInv, Build
    PROVE  [Store!StoreNext]_Store!storeVars
<1> USE DEF localVars, clientVars, remoteVars
<1>1. CASE BuildEnd
  BY <1>1, StoreUnchanged DEF BuildEnd
<1>2. CASE BuildWrite \/ \E v \in Versions : BuildStart(v)
  <2> DEFINE H == {addr[c] : c \in Reading}
  <2>1. H \in SUBSET Contents /\ \A h \in H : \E c \in Clients : addr[c] = h
    BY DEF Reading, CacheInv, ClientShape
  <2>2. suspect' = suspect \cup H /\ UNCHANGED <<phase, addr, ran, cache>>
    BY <1>2 DEF BuildWrite, BuildStart
  <2>3. [c \in Clients |-> Answer(c)]' = [c \in Clients |-> Answer(c)]
    BY <2>2 DEF Answer
  <2>4. Store!Doubt(H)
    BY <2>1, <2>2, <2>3 DEF Store!Doubt
  <2> QED
    BY <2>1, <2>4 DEF Store!StoreNext
<1> QED
  BY <1>1, <1>2 DEF Build

\* Hash is Ask, Move is Fill, an answer is Done or Fail; the rest is invisible,
\* except that an upload from a rebuilt file makes its address suspect.
LEMMA ProgressRefines ==
    ASSUME TypeOK, CacheInv, NEW c \in Clients, Progress(c)
    PROVE  [Store!StoreNext]_Store!storeVars
<1> USE DEF localVars, clientVars, remoteVars
<1>1. CASE Hash(c)
  <2>1. addr[c] = None /\ Answer(c) = "waiting" /\ local \in Contents
    BY <1>1 DEF Hash, CacheInv, ClientShape, Answer, TypeOK
  <2>2. [d \in Clients |-> Answer(d)]' = [d \in Clients |-> Answer(d)]
    BY <1>1, <2>1 DEF Hash, TypeOK, Answer
  <2>3. Store!Ask(c, local)
    BY <1>1, <2>1, <2>2 DEF Hash, Store!Ask
  <2> QED
    BY <2>1, <2>3 DEF Store!StoreNext
<1>2. CASE ProbeMiss(c)
  <2>1. [d \in Clients |-> Answer(d)]' = [d \in Clients |-> Answer(d)]
    BY <1>2 DEF ProbeMiss, TypeOK, Answer
  <2> QED
    BY <1>2, <2>1 DEF ProbeMiss, Store!storeVars
<1>3. CASE ProbeHit(c) \/ UploadSucceeds(c)
  <2>1. /\ Answer(c) = "waiting"
        /\ addr[c] \in Contents
        /\ cache[addr[c]] # None
        /\ UNCHANGED <<addr, ran, cache, suspect>>
        /\ phase' = [phase EXCEPT ![c] = IF Mode[c] = "warm" THEN "done" ELSE "execute"]
    BY <1>3 DEF ProbeHit, UploadSucceeds, CacheInv, ClientShape, UploadInstalls, Answer
  <2>2. addr[c] # None
    BY <2>1, CacheAssumption
  <2>3. CASE Mode[c] = "warm"
    <3>1. [d \in Clients |-> Answer(d)]' = [[d \in Clients |-> Answer(d)] EXCEPT ![c] = "done"]
      BY <2>1, <2>3 DEF TypeOK, Answer
    <3>2. Store!Done(c)
      BY <2>1, <2>2, <3>1 DEF Store!Done
    <3> QED
      BY <3>2 DEF Store!StoreNext
  <2>4. CASE Mode[c] # "warm"
    <3>1. [d \in Clients |-> Answer(d)]' = [d \in Clients |-> Answer(d)]
      BY <2>1, <2>4 DEF TypeOK, Answer
    <3> QED
      BY <2>1, <3>1 DEF Store!storeVars
  <2> QED
    BY <2>3, <2>4
<1>4. CASE Execute(c)
  <2>1. Answer(c) = "waiting" /\ addr[c] \in Contents /\ addr[c] # None
    BY <1>4, CacheAssumption DEF Execute, CacheInv, ClientShape, Answer
  <2>2. [d \in Clients |-> Answer(d)]' = [[d \in Clients |-> Answer(d)] EXCEPT ![c] = "done"]
    BY <1>4 DEF Execute, TypeOK, Answer
  <2>3. Store!Done(c)
    BY <1>4, <2>1, <2>2 DEF Execute, Store!Done
  <2> QED
    BY <2>3 DEF Store!StoreNext
<1>5. CASE StartUpload(c)
  <2>1. addr[c] \in Contents
    BY <1>5 DEF StartUpload, CacheInv, ClientShape
  <2>2. /\ [d \in Clients |-> Answer(d)]' = [d \in Clients |-> Answer(d)]
        /\ UNCHANGED <<addr, ran, cache>>
        /\ suspect' = suspect \/ suspect' = suspect \cup {addr[c]}
    BY <1>5 DEF StartUpload, TypeOK, Answer
  <2>3. CASE suspect' = suspect
    BY <2>2, <2>3 DEF Store!storeVars
  <2>4. CASE suspect' = suspect \cup {addr[c]}
    <3>1. Store!Doubt({addr[c]})
      BY <2>2, <2>4 DEF Store!Doubt
    <3>2. {addr[c]} \in SUBSET Contents
      BY <2>1
    <3> QED
      BY <3>1, <3>2 DEF Store!StoreNext
  <2> QED
    BY <2>2, <2>3, <2>4
<1>6. CASE SendChunk(c) \/ SendEof(c) \/ Chmod(c)
  BY <1>6, StoreUnchanged DEF SendChunk, SendEof, Chmod
<1>7. CASE Move(c)
  <2>1. addr[c] \in Contents /\ tmp[Temp(c)] \in Contents
    BY <1>7, LiveContents DEF Move, Live, CacheInv, ShellShape
  <2>2. tmp[Temp(c)] = addr[c] \/ addr[c] \in suspect
    BY <1>7 DEF Move, CacheInv, UploadIsFaithful
  <2>3. [d \in Clients |-> Answer(d)]' = [d \in Clients |-> Answer(d)]
    BY <1>7 DEF Move, Answer
  <2>4. Store!Fill(addr[c], tmp[Temp(c)])
    BY <1>7, <2>2, <2>3 DEF Move, Store!Fill
  <2> QED
    BY <2>1, <2>4 DEF Store!StoreNext
<1>8. CASE UploadFails(c)
  <2>1. [d \in Clients |-> Answer(d)]' = [[d \in Clients |-> Answer(d)] EXCEPT ![c] = "failed"]
    BY <1>8 DEF UploadFails, TypeOK, Answer
  <2>2. Store!Fail(c)
    BY <1>8, <2>1 DEF UploadFails, Store!Fail, Answer
  <2> QED
    BY <2>2 DEF Store!StoreNext
<1> QED
  BY <1>1, <1>2, <1>3, <1>4, <1>5, <1>6, <1>7, <1>8 DEF Progress

\* A fault is Fail, a doubt about an address, or invisible.
LEMMA FaultRefines ==
    ASSUME TypeOK, CacheInv, NEW c \in Clients, Fault(c)
    PROVE  [Store!StoreNext]_Store!storeVars
<1> USE DEF localVars, clientVars, remoteVars
<1>1. CASE ReadFails(c) \/ ConnectionLost(c)
  <2>1. /\ Answer(c) = "waiting"
        /\ phase' = [phase EXCEPT ![c] = "failed"]
        /\ UNCHANGED <<addr, ran, cache>>
        /\ suspect' = suspect \/ suspect' = suspect \cup {addr[c]}
    BY <1>1 DEF ReadFails, ConnectionLost, Answer
  <2>2. [d \in Clients |-> Answer(d)]' = [[d \in Clients |-> Answer(d)] EXCEPT ![c] = "failed"]
    BY <2>1 DEF TypeOK, Answer
  <2>3. Store!Fail(c)
    BY <2>1, <2>2 DEF Store!Fail
  <2> QED
    BY <2>3 DEF Store!StoreNext
<1>2. CASE FeedError(c)
  <2>1. addr[c] \in Contents
    BY <1>2 DEF FeedError, Feeding, CacheInv, ClientShape
  <2>2. /\ UNCHANGED <<phase, addr, ran, cache>>
        /\ suspect' = suspect \cup {addr[c]}
    BY <1>2 DEF FeedError
  <2>3. [d \in Clients |-> Answer(d)]' = [d \in Clients |-> Answer(d)]
    BY <2>2 DEF Answer
  <2>4. Store!Doubt({addr[c]}) /\ {addr[c]} \in SUBSET Contents
    BY <2>1, <2>2, <2>3 DEF Store!Doubt
  <2> QED
    BY <2>4 DEF Store!StoreNext
<1>3. CASE ScriptFails(c) \/ ShellSignalled(c) \/ ShellKilled(c)
  BY <1>3, StoreUnchanged DEF ScriptFails, ShellSignalled, ShellKilled
<1> QED
  BY <1>1, <1>2, <1>3 DEF Fault

\* Whatever the instance, the upload protocol keeps the promise of the
\* content-addressed store, step by step.
THEOREM CacheImplementsStore == Spec => ImplementsStore
<1>1. Init => Store!StoreInit
  BY DEF Init, Store!StoreInit, Answer
<1>2. TypeOK /\ CacheInv /\ [Next]_vars => [Store!StoreNext]_Store!storeVars
  <2> SUFFICES ASSUME TypeOK, CacheInv, [Next]_vars
               PROVE  [Store!StoreNext]_Store!storeVars
    OBVIOUS
  <2>1. CASE UNCHANGED vars
    BY <2>1, StoreUnchanged DEF vars, localVars, clientVars, remoteVars
  <2> QED
    BY <2>1, BuildRefines, ProgressRefines, FaultRefines DEF Next
<1> QED
  BY <1>1, <1>2, CacheInvariance, PTL DEF Spec, ImplementsStore, Store!StoreSpec
=============================================================================
