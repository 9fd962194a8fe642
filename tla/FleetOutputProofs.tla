------------------------- MODULE FleetOutputProofs -------------------------
(***************************************************************************)
(* Machine-checked proofs about FleetOutput, for every number of hosts,    *)
(* every text, every capacity and every cut of the texts into messages.    *)
(***************************************************************************)
EXTENDS FleetOutput, WellFoundedInduction, SequenceTheorems, TLAPS

\* A chunk is in a queue, and the chunks of a stream are in a queue in the order of
\* the text.
In(q, c) == \E i \in 1 .. Len(q) : q[i] = c

InOrder(q) ==
    \A i, j \in 1 .. Len(q) : i < j /\ q[i].of = q[j].of => q[i].to <= q[j].from

\* Where a chunk is between the network and the printer.
InChan(c) == In(chan[c.of], c)
InRaw(c) == In(raw[c.of[1]], c)
InOutput(c) == In(output, c)
Flying(c) == InOutput(c) \/ InRaw(c) \/ InChan(c)

\* How much of stderr the protocol line has taken, and how much of a stream has
\* come as far as the printer.
Taken(s) == IF s[2] = "err" THEN protocol[s[1]] ELSE 0

At(s) == Taken(s) + Len(printed[s]) + Len(buffers[s])

\* Every queue holds the chunks of its own stream or host.
Belongs ==
    /\ \A s \in Streams, c \in Chunks : In(chan[s], c) => c.of = s
    /\ \A h \in Hosts, c \in Chunks : In(raw[h], c) => c.of[1] = h

Typed == TypeOK /\ Belongs /\ \A s \in Streams : pos[s] <= Len(Text[s])

\* The printer is nowhere ahead of the network, and the chunks are from the part of their
\* stream that has arrived and has not been printed.
PlaceInv ==
    /\ \A s \in Streams : At(s) <= pos[s]
    /\ \A c \in Chunks : Flying(c) => At(c.of) <= c.from /\ c.to <= pos[c.of]

\* The chunks of a stream are in the order of the text, within each queue and from each
\* queue to the next.
OrderInv ==
    /\ InOrder(output)
    /\ \A h \in Hosts : InOrder(raw[h])
    /\ \A s \in Streams : InOrder(chan[s])
    /\ \A c, d \in Chunks : c.of = d.of =>
           /\ InOutput(c) /\ (InRaw(d) \/ InChan(d)) => c.to <= d.from
           /\ InRaw(c) /\ InChan(d) => c.to <= d.from

\* And nothing is missing between them, or between the last and the network.
Follows(s, p) == p = At(s) \/ \E d \in Chunks : Flying(d) /\ d.of = s /\ d.to = p

GapInv ==
    /\ \A c \in Chunks : Flying(c) => Follows(c.of, c.from)
    /\ \A s \in Streams : task[s[1]] # "failed" => Follows(s, pos[s])

\* What has been printed and what the printer keeps is the text so far.
TextInv ==
    \A s \in Streams :
        /\ printed[s] \o buffers[s] = SubSeq(Text[s], Taken(s) + 1, At(s))
        /\ NoNewline(buffers[s], 0, Len(buffers[s]))
        /\ printed[s] = <<>> \/ printed[s][Len(printed[s])] = "nl"

\* Before the protocol line is complete nothing of stderr has gone further.
ProtocolInv ==
    \A h \in Hosts :
        LET s == <<h, "err">> IN
        /\ h \in stripped => protocol[h] = ProtocolEnd(s)
        /\ h \notin stripped =>
            /\ h \in Probed
            /\ NoNewline(Text[s], 0, protocol[h])
            /\ \A c \in Chunks : c.of = s => ~InOutput(c)
            /\ printed[s] = <<>> /\ buffers[s] = <<>>

\* A task that returns has seen the end and left nothing behind.
TaskInv ==
    \A h \in Hosts :
        /\ task[h] \in {"draining", "returned"} => RemoteEnded(h)
        /\ task[h] \in {"returned", "failed"} => Drained(h) /\ raw[h] = <<>>

Flow == PlaceInv /\ OrderInv /\ GapInv /\ TextInv /\ ProtocolInv /\ TaskInv

\* What is printed for a stream: the first n tokens of the tool's text, as lines.
Shows(s, n) == printed[s] = Closed(SubSeq(ToolText(s), 1, n))

Over ==
    /\ Senders = {} /\ output = <<>>
    /\ \A s \in Streams :
        /\ \E n \in 0 .. Len(ToolText(s)) : Shows(s, n)
        /\ task[s[1]] = "returned" => printed[s] = Closed(ToolText(s))

OutputInv ==
    /\ printer = "open" => Flow
    /\ printer = "closed" => Over
    /\ summary => printer = "closed"

-----------------------------------------------------------------------------
(* Queues.                                                                 *)

\* p is q with c at its end, or q with c taken from its head.
Pushed(q, p, c) ==
    /\ Len(q) \in Nat /\ Len(p) = Len(q) + 1
    /\ p[Len(q) + 1] = c
    /\ \A i \in 1 .. Len(q) : p[i] = q[i]

Popped(q, p, c) ==
    /\ Len(q) \in Nat /\ Len(q) >= 1 /\ Len(p) = Len(q) - 1
    /\ q[1] = c
    /\ \A i \in 1 .. Len(p) : p[i] = q[i + 1]

LEMMA AppendPushes ==
    ASSUME NEW q \in Seq(Chunks), NEW c \in Chunks
    PROVE  Append(q, c) \in Seq(Chunks) /\ Pushed(q, Append(q, c), c)
  BY AppendProperties, LenProperties DEF Pushed

LEMMA TailPops ==
    ASSUME NEW q \in Seq(Chunks), q # <<>>
    PROVE  Tail(q) \in Seq(Chunks) /\ Head(q) \in Chunks /\ Popped(q, Tail(q), Head(q))
  BY HeadTailProperties, EmptySeq, LenProperties DEF Popped

\* What becomes of the members and of their order.
LEMMA PushedIn ==
    ASSUME NEW q, NEW p, NEW c, Pushed(q, p, c), NEW d
    PROVE  In(p, d) <=> In(q, d) \/ d = c
<1>1. ASSUME In(p, d) PROVE In(q, d) \/ d = c
  <2>1. PICK i \in 1 .. Len(p) : p[i] = d
    BY <1>1 DEF In
  <2>2. i \in 1 .. Len(q) \/ i = Len(q) + 1
    BY DEF Pushed
  <2> QED
    BY <2>1, <2>2 DEF In, Pushed
<1>2. ASSUME In(q, d) PROVE In(p, d)
  <2>1. PICK i \in 1 .. Len(q) : q[i] = d
    BY <1>2 DEF In
  <2> QED
    BY <2>1 DEF In, Pushed
<1>3. In(p, c)
  BY DEF In, Pushed
<1> QED
  BY <1>1, <1>2, <1>3

LEMMA PoppedIn ==
    ASSUME NEW q, NEW p, NEW c, Popped(q, p, c), NEW d
    PROVE  In(q, d) <=> In(p, d) \/ d = c
<1>1. ASSUME In(q, d) PROVE In(p, d) \/ d = c
  <2>1. PICK i \in 1 .. Len(q) : q[i] = d
    BY <1>1 DEF In
  <2>2. i = 1 \/ (i - 1 \in 1 .. Len(p) /\ i = (i - 1) + 1)
    BY DEF Popped
  <2> QED
    BY <2>1, <2>2 DEF In, Popped
<1>2. ASSUME In(p, d) PROVE In(q, d)
  <2>1. PICK i \in 1 .. Len(p) : p[i] = d
    BY <1>2 DEF In
  <2>2. i + 1 \in 1 .. Len(q)
    BY DEF Popped
  <2> QED
    BY <2>1, <2>2 DEF In, Popped
<1>3. In(q, c)
  BY DEF In, Popped
<1> QED
  BY <1>1, <1>2, <1>3

LEMMA PushedInOrder ==
    ASSUME NEW q \in Seq(Chunks), NEW p, NEW c, Pushed(q, p, c), InOrder(q),
           \A d \in Chunks : In(q, d) /\ d.of = c.of => d.to <= c.from
    PROVE  InOrder(p)
<1> SUFFICES ASSUME NEW i \in 1 .. Len(p), NEW j \in 1 .. Len(p), i < j, p[i].of = p[j].of
             PROVE  p[i].to <= p[j].from
  BY DEF InOrder
<1>1. i \in 1 .. Len(q) /\ p[i] = q[i] /\ Len(q) \in Nat
  BY DEF Pushed
<1>2. CASE j \in 1 .. Len(q)
  BY <1>1, <1>2 DEF Pushed, InOrder
<1>3. CASE j = Len(q) + 1
  <2>1. In(q, q[i]) /\ q[i] \in Chunks /\ p[j] = c
    BY <1>1, <1>3 DEF In, Pushed
  <2> QED
    BY <1>1, <2>1
<1> QED
  BY <1>1, <1>2, <1>3 DEF Pushed

LEMMA PoppedInOrder ==
    ASSUME NEW q, NEW p, NEW c, Popped(q, p, c), InOrder(q)
    PROVE  /\ InOrder(p)
           /\ \A d : In(p, d) /\ d.of = c.of => c.to <= d.from
<1>1. ASSUME NEW i \in 1 .. Len(p) PROVE i + 1 \in 1 .. Len(q) /\ 1 \in 1 .. Len(q) /\ p[i] = q[i + 1] /\ i > 0
  BY DEF Popped
<1>2. InOrder(p)
  <2> SUFFICES ASSUME NEW i \in 1 .. Len(p), NEW j \in 1 .. Len(p), i < j, p[i].of = p[j].of
               PROVE  p[i].to <= p[j].from
    BY DEF InOrder
  <2>1. i + 1 < j + 1
    OBVIOUS
  <2> QED
    BY <1>1, <2>1 DEF InOrder
<1>3. ASSUME NEW d, In(p, d), d.of = c.of PROVE c.to <= d.from
  <2>1. PICK i \in 1 .. Len(p) : p[i] = d
    BY <1>3 DEF In
  <2>2. 1 < i + 1 /\ q[1] = c
    BY DEF Popped
  <2> QED
    BY <1>1, <1>3, <2>1, <2>2 DEF InOrder
<1> QED
  BY <1>2, <1>3

LEMMA EmptyIn == (\A c : ~In(<<>>, c)) /\ InOrder(<<>>)
  BY EmptySeq DEF In, InOrder
-----------------------------------------------------------------------------
(* What the actions of a host's task do to the queues.                     *)

LEMMA StreamParts ==
    \A s \in Streams : s[1] \in Hosts /\ s[2] \in Fds /\ s = <<s[1], s[2]>>
  BY DEF Streams

LEMMA HostStreams ==
    \A h \in Hosts, fd \in Fds : <<h, fd>> \in Streams /\ <<h, fd>>[1] = h /\ <<h, fd>>[2] = fd
  BY DEF Streams

LEMMA ChunkParts ==
    \A c \in Chunks : c.of \in Streams /\ c.from \in Nat /\ c.to \in Nat /\ c.from < c.to
  BY DEF Chunks

\* Receive: a chunk comes into a bounded channel.
Arrives(s, c) ==
    /\ c.of = s /\ c.from = pos[s] /\ c.to <= Len(Text[s])
    /\ pos' \in [Streams -> Nat] /\ pos'[s] = c.to /\ \A t \in Streams \ {s} : pos'[t] = pos[t]
    /\ chan' \in [Streams -> Seq(Chunks)] /\ Pushed(chan[s], chan'[s], c)
    /\ \A t \in Streams \ {s} : chan'[t] = chan[t]

LEMMA Received ==
    ASSUME TypeOK, NEW h \in Hosts, NEW fd \in Fds, NEW n \in 1 .. MaxMessage, Receive(h, fd, n)
    PROVE  \E s \in Streams, c \in Chunks : s[1] = h /\ Arrives(s, c)
<1>1. PICK s \in Streams : s = <<h, fd>> /\ s[1] = h
  BY HostStreams
<1>2. pos \in [Streams -> Nat] /\ chan \in [Streams -> Seq(Chunks)] /\ n \in Nat /\ n > 0
  BY OutputAssumption DEF TypeOK
<1>0. PICK c : c = [of |-> s, from |-> pos[s], to |-> pos[s] + n]
  OBVIOUS
<1>3. c \in Chunks /\ c.of = s /\ c.from = pos[s] /\ c.to = pos[s] + n
  BY <1>0, <1>2 DEF Chunks
<1>4. /\ pos[s] + n <= Len(Text[s]) /\ pos' = [pos EXCEPT ![s] = pos[s] + n]
      /\ chan' = [chan EXCEPT ![s] = Append(chan[s], c)]
  BY <1>0, <1>1, <1>2 DEF Receive
<1>5. Append(chan[s], c) \in Seq(Chunks) /\ Pushed(chan[s], Append(chan[s], c), c)
  BY <1>2, <1>3, AppendPushes
<1>6. /\ pos' \in [Streams -> Nat] /\ pos'[s] = c.to /\ \A t \in Streams \ {s} : pos'[t] = pos[t]
  BY <1>2, <1>3, <1>4
<1>7. chan' \in [Streams -> Seq(Chunks)] /\ chan'[s] = Append(chan[s], c) /\ \A t \in Streams \ {s} : chan'[t] = chan[t]
  BY <1>2, <1>4, <1>5
<1>8. Pushed(chan[s], chan'[s], c)
  BY <1>5, <1>7
<1>9. c.to <= Len(Text[s])
  BY <1>3, <1>4
<1>10. Arrives(s, c)
  BY <1>3, <1>6, <1>7, <1>8, <1>9 DEF Arrives
<1> QED
  BY <1>1, <1>3, <1>10

\* Forward: the head of a channel goes to the end of its host's queue.
Passes(s, c) ==
    /\ c.of = s
    /\ chan' \in [Streams -> Seq(Chunks)] /\ Popped(chan[s], chan'[s], c)
    /\ \A t \in Streams \ {s} : chan'[t] = chan[t]
    /\ raw' \in [Hosts -> Seq(Chunks)] /\ Pushed(raw[s[1]], raw'[s[1]], c)
    /\ \A g \in Hosts \ {s[1]} : raw'[g] = raw[g]

LEMMA Forwarded ==
    ASSUME TypeOK, Belongs, NEW h \in Hosts, NEW fd \in Fds, Forward(h, fd)
    PROVE  \E s \in Streams, c \in Chunks : s[1] = h /\ Passes(s, c)
<1>1. PICK s \in Streams : s = <<h, fd>> /\ s[1] = h
  BY HostStreams
<1>2. /\ chan \in [Streams -> Seq(Chunks)] /\ raw \in [Hosts -> Seq(Chunks)]
      /\ chan[s] \in Seq(Chunks) /\ raw[h] \in Seq(Chunks)
  BY DEF TypeOK
<1>3. PICK c : c = Head(chan[s])
  OBVIOUS
<1>4. /\ chan[s] # <<>> /\ chan' = [chan EXCEPT ![s] = Tail(chan[s])]
      /\ raw' = [raw EXCEPT ![h] = Append(raw[h], c)]
  BY <1>1, <1>2, <1>3 DEF Forward
<1>5. c \in Chunks /\ Tail(chan[s]) \in Seq(Chunks) /\ Popped(chan[s], Tail(chan[s]), c)
  BY <1>2, <1>3, <1>4, TailPops
<1>6. Append(raw[h], c) \in Seq(Chunks) /\ Pushed(raw[h], Append(raw[h], c), c)
  BY <1>2, <1>5, AppendPushes
<1>7. c.of = s
  BY <1>5, PoppedIn DEF Belongs
<1>8. chan' \in [Streams -> Seq(Chunks)] /\ chan'[s] = Tail(chan[s]) /\ \A t \in Streams \ {s} : chan'[t] = chan[t]
  BY <1>2, <1>4, <1>5
<1>9. raw' \in [Hosts -> Seq(Chunks)] /\ raw'[h] = Append(raw[h], c) /\ \A g \in Hosts \ {h} : raw'[g] = raw[g]
  BY <1>2, <1>4, <1>6
<1> QED
  BY <1>1, <1>5, <1>6, <1>7, <1>8, <1>9 DEF Passes

\* Relay: the head of a host's queue is consumed in one of three ways.
Taking(h, c) ==
    /\ c.of[1] = h
    /\ raw' \in [Hosts -> Seq(Chunks)] /\ Popped(raw[h], raw'[h], c)
    /\ \A g \in Hosts \ {h} : raw'[g] = raw[g]

Passed(h, c) ==
    /\ c.of[2] = "out" \/ h \in stripped
    /\ output' \in Seq(Chunks) /\ Pushed(output, output', c)
    /\ protocol' = protocol /\ stripped' = stripped

Swallowed(h, c) ==
    /\ c.of[2] = "err" /\ h \notin stripped
    /\ NoNewline(Text[c.of], c.from, c.to)
    /\ protocol' = [protocol EXCEPT ![h] = @ + (c.to - c.from)]
    /\ output' = output /\ stripped' = stripped

\* The rest k of the chunk, after the newline at cut.
Rest(c, cut) == [c EXCEPT !.from = cut]

Divided(h, c, cut) ==
    /\ c.of[2] = "err" /\ h \notin stripped
    /\ Text[c.of][cut] = "nl" /\ NoNewline(Text[c.of], c.from, cut - 1)
    /\ protocol' = [protocol EXCEPT ![h] = @ + (cut - c.from)]
    /\ stripped' = stripped \cup {h}
    /\ output' \in Seq(Chunks)
    /\ cut = c.to => output' = output
    /\ cut # c.to => Pushed(output, output', Rest(c, cut))

LEMMA Rests ==
    ASSUME NEW c \in Chunks, NEW cut \in c.from + 1 .. c.to, cut # c.to
    PROVE  LET k == Rest(c, cut) IN
           k \in Chunks /\ k.of = c.of /\ k.from = cut /\ k.to = c.to
  BY DEF Chunks, Rest

LEMMA Relayed ==
    ASSUME TypeOK, Belongs, NEW h \in Hosts, Relay(h)
    PROVE  \E c \in Chunks :
               /\ Taking(h, c)
               /\ \/ Passed(h, c) \/ Swallowed(h, c)
                  \/ \E cut \in c.from + 1 .. c.to : Divided(h, c, cut)
<1>1. raw \in [Hosts -> Seq(Chunks)] /\ output \in Seq(Chunks) /\ raw[h] \in Seq(Chunks)
  BY DEF TypeOK
<1>2. PICK c : c = Head(raw[h])
  OBVIOUS
<1>3. raw[h] # <<>> /\ raw' = [raw EXCEPT ![h] = Tail(raw[h])] /\ Consume(h, c)
  BY <1>1, <1>2 DEF Relay
<1>4. c \in Chunks /\ Tail(raw[h]) \in Seq(Chunks) /\ Popped(raw[h], Tail(raw[h]), c)
  BY <1>1, <1>2, <1>3, TailPops
<1>5. c.of[1] = h
  BY <1>4, PoppedIn DEF Belongs
<1>6. raw' \in [Hosts -> Seq(Chunks)] /\ raw'[h] = Tail(raw[h]) /\ \A g \in Hosts \ {h} : raw'[g] = raw[g]
  BY <1>1, <1>3, <1>4
<1>7. Taking(h, c)
  BY <1>4, <1>5, <1>6 DEF Taking
<1>8. Append(output, c) \in Seq(Chunks) /\ Pushed(output, Append(output, c), c)
  BY <1>1, <1>4, AppendPushes
<1>9. ASSUME NEW cut \in c.from + 1 .. c.to, cut # c.to
      PROVE  Append(output, Rest(c, cut)) \in Seq(Chunks) /\ Pushed(output, Append(output, Rest(c, cut)), Rest(c, cut))
  BY <1>1, <1>4, <1>9, Rests, AppendPushes
<1>10. Passed(h, c) \/ Swallowed(h, c) \/ \E cut \in c.from + 1 .. c.to : Divided(h, c, cut)
  <2>1. CASE c.of[2] = "out" \/ h \in stripped
    BY <1>3, <1>8, <2>1 DEF Consume, Passed
  <2>2. CASE c.of[2] = "err" /\ h \notin stripped
    <3>1. CASE /\ NoNewline(Text[c.of], c.from, c.to)
               /\ protocol' = [protocol EXCEPT ![h] = @ + (c.to - c.from)]
               /\ UNCHANGED <<stripped, output>>
      BY <2>2, <3>1 DEF Swallowed
    <3>2. ASSUME NEW cut \in c.from + 1 .. c.to,
                 /\ Text[c.of][cut] = "nl"
                 /\ NoNewline(Text[c.of], c.from, cut - 1)
                 /\ protocol' = [protocol EXCEPT ![h] = @ + (cut - c.from)]
                 /\ output' = IF cut = c.to THEN output ELSE Append(output, [c EXCEPT !.from = cut]),
                 stripped' = stripped \cup {h}
          PROVE  Divided(h, c, cut)
      <4>1. CASE cut = c.to
        BY <1>1, <2>2, <3>2, <4>1 DEF Divided
      <4>2. CASE cut # c.to
        BY <1>9, <2>2, <3>2, <4>2 DEF Divided, Rest
      <4> QED
        BY <4>1, <4>2
    <3> QED
      BY <1>3, <2>2, <3>1, <3>2 DEF Consume
  <2> QED
    BY <1>4, <2>1, <2>2, ChunkParts, StreamParts DEF Fds
<1> QED
  BY <1>4, <1>7, <1>10

\* What that makes of the places of chunks.
LEMMA Arrived ==
    ASSUME NEW s \in Streams, NEW c \in Chunks, Arrives(s, c), raw' = raw, output' = output, NEW d \in Chunks
    PROVE  /\ InOutput(d)' <=> InOutput(d)
           /\ InRaw(d)' <=> InRaw(d)
           /\ InChan(d)' <=> InChan(d) \/ d = c
<1>1. CASE d.of = s
  BY <1>1, PushedIn DEF Arrives, InOutput, InRaw, InChan
<1>2. CASE d.of # s
  BY <1>2, ChunkParts DEF Arrives, InOutput, InRaw, InChan
<1> QED
  BY <1>1, <1>2

LEMMA Moved ==
    ASSUME NEW s \in Streams, NEW c \in Chunks, Passes(s, c), output' = output, NEW d \in Chunks
    PROVE  /\ InOutput(d)' <=> InOutput(d)
           /\ InRaw(d)' <=> InRaw(d) \/ d = c
           /\ InChan(d) <=> InChan(d)' \/ d = c
<1>0. d.of \in Streams /\ d.of[1] \in Hosts /\ s[1] \in Hosts
  BY ChunkParts, StreamParts
<1>1. InRaw(d)' <=> InRaw(d) \/ d = c
  <2>1. CASE d.of[1] = s[1]
    BY <2>1, PushedIn DEF Passes, InRaw
  <2>2. CASE d.of[1] # s[1]
    BY <1>0, <2>2 DEF Passes, InRaw
  <2> QED
    BY <2>1, <2>2
<1>2. InChan(d) <=> InChan(d)' \/ d = c
  <2>1. CASE d.of = s
    BY <2>1, PoppedIn DEF Passes, InChan
  <2>2. CASE d.of # s
    BY <1>0, <2>2 DEF Passes, InChan
  <2> QED
    BY <2>1, <2>2
<1> QED
  BY <1>1, <1>2 DEF InOutput

LEMMA Took ==
    ASSUME NEW h \in Hosts, NEW c \in Chunks, Taking(h, c), chan' = chan, NEW d \in Chunks
    PROVE  /\ InRaw(d) <=> InRaw(d)' \/ d = c
           /\ InChan(d)' <=> InChan(d)
<1>0. d.of \in Streams /\ d.of[1] \in Hosts
  BY ChunkParts, StreamParts
<1>1. CASE d.of[1] = h
  BY <1>1, PoppedIn DEF Taking, InRaw, InChan
<1>2. CASE d.of[1] # h
  BY <1>0, <1>2 DEF Taking, InRaw, InChan
<1> QED
  BY <1>1, <1>2
-----------------------------------------------------------------------------
(* Types.                                                                  *)

LEMMA TypedInit == Init => Typed
<1> SUFFICES ASSUME Init PROVE Typed
  OBVIOUS
<1>1. \A s \in Streams : Text[s] \in Seq(Tokens) /\ Len(Text[s]) \in Nat
  BY OutputAssumption
<1>2. TypeOK
  <2>1. chan \in [Streams -> Seq(Chunks)] /\ raw \in [Hosts -> Seq(Chunks)] /\ output \in Seq(Chunks)
    BY DEF Init
  <2>2. buffers \in [Streams -> Seq(Tokens)] /\ printed \in [Streams -> Seq(Tokens)]
    BY DEF Init
  <2>3. \A s \in Streams : Len(chan[s]) <= Cap
    BY OutputAssumption DEF Init
  <2> QED
    BY <2>1, <2>2, <2>3, OutputAssumption DEF Init, TypeOK
<1>3. Belongs
  <2>1. (\A s \in Streams : chan[s] = <<>>) /\ \A h \in Hosts : raw[h] = <<>>
    BY DEF Init
  <2> QED
    BY <2>1, EmptyIn DEF Belongs
<1>4. \A s \in Streams : pos[s] = 0
  BY DEF Init
<1> QED
  BY <1>1, <1>2, <1>3, <1>4 DEF Typed

LEMMA TypedReceive ==
    ASSUME Typed, NEW h \in Hosts, NEW fd \in Fds, NEW n \in 1 .. MaxMessage, Receive(h, fd, n)
    PROVE  Typed'
<1>1. PICK s \in Streams, c \in Chunks : Arrives(s, c)
  BY Received DEF Typed
<1>2. \A t \in Streams : pos'[t] <= Len(Text[t])
  BY <1>1 DEF Arrives, Typed
<1>3. Belongs'
  <2>1. ASSUME NEW t \in Streams, NEW d \in Chunks, In(chan'[t], d) PROVE d.of = t
    <3>1. In(chan[t], d) \/ (t = s /\ d = c)
      BY <1>1, <2>1, PushedIn DEF Arrives
    <3> QED
      BY <1>1, <3>1 DEF Typed, Belongs, Arrives
  <2> QED
    BY <2>1 DEF Belongs, Receive, Typed
<1>4. \A t \in Streams : Len(chan'[t]) <= Cap
  <2>1. Len(chan[s]) <= Cap
    BY DEF Typed, TypeOK
  <2> QED
    BY <1>1, <2>1, OutputAssumption DEF Typed, TypeOK, Arrives, Pushed, Receive
<1>5. pos' \in [Streams -> Nat] /\ chan' \in [Streams -> Seq(Chunks)]
  BY <1>1 DEF Arrives
<1> QED
  BY <1>2, <1>3, <1>4, <1>5 DEF Receive, Typed, TypeOK, printerVars

LEMMA TypedForward ==
    ASSUME Typed, NEW h \in Hosts, NEW fd \in Fds, Forward(h, fd)
    PROVE  Typed'
<1>1. PICK s \in Streams, c \in Chunks : Passes(s, c)
  BY Forwarded DEF Typed
<1>2. Belongs'
  <2>1. ASSUME NEW t \in Streams, NEW d \in Chunks, In(chan'[t], d) PROVE d.of = t
    <3>1. In(chan[t], d)
      BY <1>1, <2>1, PoppedIn DEF Passes
    <3> QED
      BY <3>1 DEF Typed, Belongs
  <2>2. ASSUME NEW g \in Hosts, NEW d \in Chunks, In(raw'[g], d) PROVE d.of[1] = g
    <3>1. In(raw[g], d) \/ (g = s[1] /\ d = c)
      BY <1>1, <2>2, PushedIn DEF Passes
    <3> QED
      BY <1>1, <3>1 DEF Typed, Belongs, Passes
  <2> QED
    BY <2>1, <2>2 DEF Belongs
<1>3. \A t \in Streams : Len(chan'[t]) <= Cap
  <2>2. Cap \in Nat /\ \A t \in Streams : Len(chan[t]) <= Cap
    BY OutputAssumption DEF Typed, TypeOK
  <2>3. Len(chan[s]) \in Nat /\ Len(chan'[s]) = Len(chan[s]) - 1 /\ \A t \in Streams \ {s} : chan'[t] = chan[t]
    BY <1>1 DEF Passes, Popped
  <2> QED
    BY <2>2, <2>3
<1>4. raw' \in [Hosts -> Seq(Chunks)] /\ chan' \in [Streams -> Seq(Chunks)]
  BY <1>1 DEF Passes
<1> QED
  BY <1>2, <1>3, <1>4 DEF Forward, Typed, TypeOK, printerVars

LEMMA TypedRelay ==
    ASSUME Typed, NEW h \in Hosts, Relay(h)
    PROVE  Typed'
<1>1. PICK c \in Chunks :
          /\ Taking(h, c)
          /\ \/ Passed(h, c) \/ Swallowed(h, c)
             \/ \E cut \in c.from + 1 .. c.to : Divided(h, c, cut)
  BY Relayed DEF Typed
<1>2. c.from \in Nat /\ c.to \in Nat /\ c.from < c.to
  BY ChunkParts
<1>3. output' \in Seq(Chunks) /\ stripped' \subseteq Hosts
  BY <1>1 DEF Typed, TypeOK, Passed, Swallowed, Divided
<1>4. protocol' \in [Hosts -> Nat]
  <2>1. protocol \in [Hosts -> Nat]
    BY DEF Typed, TypeOK
  <2>2. c.to - c.from \in Nat /\ \A cut \in c.from + 1 .. c.to : cut - c.from \in Nat
    BY <1>2
  <2>3. protocol' = protocol \/ \E n \in Nat : protocol' = [protocol EXCEPT ![h] = @ + n]
    BY <1>1, <2>2 DEF Passed, Swallowed, Divided
  <2> QED
    BY <2>1, <2>3
<1>5. raw' \in [Hosts -> Seq(Chunks)]
  BY <1>1 DEF Taking
<1>6. Belongs'
  <2>1. ASSUME NEW g \in Hosts, NEW d \in Chunks, In(raw'[g], d) PROVE d.of[1] = g
    <3>1. In(raw[g], d)
      BY <1>1, <2>1, PoppedIn DEF Taking
    <3> QED
      BY <3>1 DEF Typed, Belongs
  <2> QED
    BY <2>1 DEF Belongs, Relay, Typed
<1> QED
  BY <1>3, <1>4, <1>5, <1>6 DEF Relay, Typed, TypeOK, printerVars

LEMMA LeavesBehind ==
    ASSUME TypeOK, NEW h \in Hosts, Leaves(h)
    PROVE  /\ chan' \in [Streams -> Seq(Chunks)] /\ raw' \in [Hosts -> Seq(Chunks)]
           /\ \A s \in Streams : IF s[1] = h THEN chan'[s] = <<>> ELSE chan'[s] = chan[s]
           /\ \A g \in Hosts : IF g = h THEN raw'[g] = <<>> ELSE raw'[g] = raw[g]
  BY EmptySeq DEF TypeOK, Leaves

LEMMA TypedLeaves ==
    ASSUME Typed, NEW h \in Hosts, Returns(h) \/ Fails(h)
    PROVE  Typed'
<1>1. Leaves(h) /\ task' \in [Hosts -> {"streaming", "draining", "returned", "failed"}]
  BY DEF Returns, Fails, Typed, TypeOK
<1>2. Belongs'
  <2>1. ASSUME NEW t \in Streams, NEW d \in Chunks, In(chan'[t], d) PROVE d.of = t
    <3>1. chan'[t] = <<>> \/ chan'[t] = chan[t]
      BY <1>1, LeavesBehind DEF Typed
    <3> QED
      BY <2>1, <3>1, EmptyIn DEF Typed, Belongs
  <2>2. ASSUME NEW g \in Hosts, NEW d \in Chunks, In(raw'[g], d) PROVE d.of[1] = g
    <3>1. raw'[g] = <<>> \/ raw'[g] = raw[g]
      BY <1>1, LeavesBehind DEF Typed
    <3> QED
      BY <2>2, <3>1, EmptyIn DEF Typed, Belongs
  <2> QED
    BY <2>1, <2>2 DEF Belongs
<1>3. \A s \in Streams : Len(chan'[s]) <= Cap
  BY <1>1, LeavesBehind, EmptySeq, OutputAssumption DEF Typed, TypeOK
<1> QED
  BY <1>1, <1>2, <1>3, LeavesBehind DEF Typed, TypeOK, Leaves, printerVars

\* What the printer does with a chunk.
Text1(c) == buffers[c.of] \o SubSeq(Text[c.of], c.from + 1, c.to)

Prints(c, cut) ==
    /\ Popped(output, output', c) /\ output' \in Seq(Chunks)
    /\ cut # 0 => Text1(c)[cut] = "nl"
    /\ NoNewline(Text1(c), cut, Len(Text1(c)))
    /\ printed' = [printed EXCEPT ![c.of] = @ \o SubSeq(Text1(c), 1, cut)]
    /\ buffers' = [buffers EXCEPT ![c.of] = SubSeq(Text1(c), cut + 1, Len(Text1(c)))]

LEMMA Printed ==
    ASSUME Typed, PrintChunk
    PROVE  \E c \in Chunks : \E cut \in 0 .. Len(Text1(c)) : Prints(c, cut)
<1>1. output \in Seq(Chunks) /\ output # <<>>
  BY DEF Typed, TypeOK, PrintChunk
<1>2. PICK c : c = Head(output)
  OBVIOUS
<1>3. c \in Chunks /\ output' \in Seq(Chunks) /\ Popped(output, output', c)
  BY <1>1, <1>2, TailPops DEF PrintChunk
<1> QED
  BY <1>2, <1>3 DEF PrintChunk, Prints, Text1, Buffer

\* The two parts of what the printer has in hand.
LEMMA Halves ==
    ASSUME NEW t \in Seq(Tokens), NEW cut \in 0 .. Len(t)
    PROVE  /\ SubSeq(t, 1, cut) \in Seq(Tokens) /\ Len(SubSeq(t, 1, cut)) = cut
           /\ SubSeq(t, cut + 1, Len(t)) \in Seq(Tokens) /\ Len(SubSeq(t, cut + 1, Len(t))) = Len(t) - cut
           /\ SubSeq(t, 1, cut) \o SubSeq(t, cut + 1, Len(t)) = t
<1>1. Len(t) \in Nat /\ cut \in Nat /\ cut <= Len(t) /\ \A i \in 1 .. Len(t) : t[i] \in Tokens
  BY LenProperties, ElementOfSeq
<1>2. SubSeq(t, 1, cut) \in Seq(Tokens) /\ Len(SubSeq(t, 1, cut)) = cut
  BY <1>1, SubSeqProperties
<1>3. SubSeq(t, cut + 1, Len(t)) \in Seq(Tokens) /\ Len(SubSeq(t, cut + 1, Len(t))) = Len(t) - cut
  <2>1. \A i \in cut + 1 .. Len(t) : t[i] \in Tokens
    BY <1>1
  <2> QED
    BY <1>1, <2>1, SubSeqProperties
<1>4. SubSeq(t, 1, cut) \o SubSeq(t, cut + 1, Len(t)) = SubSeq(t, 1, Len(t))
  <2>1. 1 \in 1 .. Len(t) + 1 /\ cut \in 1 - 1 .. Len(t) /\ Len(t) \in cut .. Len(t)
    BY <1>1
  <2> QED
    BY <2>1, ConcatAdjacentSubSeq
<1> QED
  BY <1>2, <1>3, <1>4, SubSeqFull

\* What is in a chunk, at its place.
LEMMA Data ==
    ASSUME NEW s \in Streams, NEW from \in Nat, NEW to \in Nat, from <= to, to <= Len(Text[s])
    PROVE  LET data == SubSeq(Text[s], from + 1, to) IN
           /\ data \in Seq(Tokens) /\ Len(data) = to - from
           /\ \A i \in 1 .. to - from : data[i] = Text[s][from + i]
<1>1. Text[s] \in Seq(Tokens) /\ Len(Text[s]) \in Nat
  BY OutputAssumption, LenProperties
<1>2. \A i \in from + 1 .. to : Text[s][i] \in Tokens
  BY <1>1, ElementOfSeq
<1> QED
  BY <1>2, SubSeqProperties

\* A chunk in flight has its tokens, once the places are known.
LEMMA TextInHand ==
    ASSUME Typed, NEW c \in Chunks, c.to <= Len(Text[c.of])
    PROVE  LET data == SubSeq(Text[c.of], c.from + 1, c.to) IN
           /\ data \in Seq(Tokens) /\ Len(data) = c.to - c.from
           /\ buffers[c.of] \in Seq(Tokens) /\ Text1(c) \in Seq(Tokens)
           /\ Len(Text1(c)) = Len(buffers[c.of]) + (c.to - c.from)
           /\ \A i \in 1 .. Len(Text1(c)) :
                  Text1(c)[i] = IF i <= Len(buffers[c.of]) THEN buffers[c.of][i]
                                ELSE data[i - Len(buffers[c.of])]
<1> DEFINE data == SubSeq(Text[c.of], c.from + 1, c.to)
<1>0. c.of \in Streams /\ c.from \in Nat /\ c.to \in Nat /\ c.from <= c.to
  BY ChunkParts
<1>1. data \in Seq(Tokens) /\ Len(data) = c.to - c.from
  BY <1>0, Data
<1>2. buffers[c.of] \in Seq(Tokens)
  BY ChunkParts DEF Typed, TypeOK
<1>3. Len(data) \in Nat /\ Len(buffers[c.of]) \in Nat
  BY <1>1, <1>2, LenProperties
<1>4. Text1(c) = buffers[c.of] \o data
  BY DEF Text1
<1> HIDE DEF data
<1>5. /\ Text1(c) \in Seq(Tokens) /\ Len(Text1(c)) = Len(buffers[c.of]) + Len(data)
      /\ \A i \in 1 .. Len(buffers[c.of]) + Len(data) :
             Text1(c)[i] = IF i <= Len(buffers[c.of]) THEN buffers[c.of][i] ELSE data[i - Len(buffers[c.of])]
  BY <1>1, <1>2, <1>4, ConcatProperties
<1> QED
  BY <1>1, <1>2, <1>5 DEF data

\* What the printer writes and keeps.
LEMMA PrintedWhere ==
    ASSUME Typed, NEW c \in Chunks, c.to <= Len(Text[c.of]), NEW cut \in 0 .. Len(Text1(c)), Prints(c, cut)
    PROVE  LET s == c.of
               t == Text1(c) IN
           /\ printed' \in [Streams -> Seq(Tokens)] /\ buffers' \in [Streams -> Seq(Tokens)]
           /\ printed'[s] = printed[s] \o SubSeq(t, 1, cut) /\ buffers'[s] = SubSeq(t, cut + 1, Len(t))
           /\ \A r \in Streams \ {s} : printed'[r] = printed[r] /\ buffers'[r] = buffers[r]
           /\ Len(printed'[s]) = Len(printed[s]) + cut /\ Len(buffers'[s]) = Len(t) - cut
<1> DEFINE s == c.of
           t == Text1(c)
<1>1. s \in Streams /\ printed \in [Streams -> Seq(Tokens)] /\ buffers \in [Streams -> Seq(Tokens)]
      /\ printed[s] \in Seq(Tokens) /\ t \in Seq(Tokens)
  BY ChunkParts, TextInHand DEF Typed, TypeOK
<1>2. /\ SubSeq(t, 1, cut) \in Seq(Tokens) /\ Len(SubSeq(t, 1, cut)) = cut
      /\ SubSeq(t, cut + 1, Len(t)) \in Seq(Tokens) /\ Len(SubSeq(t, cut + 1, Len(t))) = Len(t) - cut
  BY <1>1, Halves
<1>3. /\ printed[s] \o SubSeq(t, 1, cut) \in Seq(Tokens)
      /\ Len(printed[s] \o SubSeq(t, 1, cut)) = Len(printed[s]) + cut
  <2> DEFINE a == SubSeq(t, 1, cut)
  <2>1. printed[s] \in Seq(Tokens) /\ a \in Seq(Tokens) /\ Len(a) = cut
    BY <1>1, <1>2
  <2> HIDE DEF a
  <2>2. printed[s] \o a \in Seq(Tokens) /\ Len(printed[s] \o a) = Len(printed[s]) + Len(a)
    BY <2>1, ConcatProperties
  <2> QED
    BY <2>1, <2>2 DEF a
<1>4. /\ printed' = [printed EXCEPT ![s] = printed[s] \o SubSeq(t, 1, cut)]
      /\ buffers' = [buffers EXCEPT ![s] = SubSeq(t, cut + 1, Len(t))]
  BY <1>1 DEF Prints
<1> HIDE DEF t, s
<1> QED
  BY <1>1, <1>2, <1>3, <1>4 DEF s, t

LEMMA TypedPrint ==
    ASSUME Typed, PrintChunk, \A c \in Chunks : InOutput(c) => c.to <= pos[c.of]
    PROVE  Typed'
<1>1. PICK c \in Chunks : \E cut \in 0 .. Len(Text1(c)) : Prints(c, cut)
  BY Printed
<1>2. PICK cut \in 0 .. Len(Text1(c)) : Prints(c, cut)
  BY <1>1
<1>3. c.to <= Len(Text[c.of])
  <2>1. InOutput(c)
    BY <1>2, PoppedIn DEF Prints, InOutput
  <2>2. Text[c.of] \in Seq(Tokens) /\ Len(Text[c.of]) \in Nat /\ pos[c.of] \in Nat /\ c.to \in Nat /\ pos[c.of] <= Len(Text[c.of])
    BY ChunkParts, OutputAssumption, LenProperties DEF Typed, TypeOK
  <2> QED
    BY <2>1, <2>2
<1>4. printed' \in [Streams -> Seq(Tokens)] /\ buffers' \in [Streams -> Seq(Tokens)] /\ output' \in Seq(Chunks)
  BY <1>2, <1>3, PrintedWhere DEF Prints
<1> QED
  BY <1>4 DEF PrintChunk, Typed, TypeOK, Belongs, hostVars

LEMMA ClosedType ==
    ASSUME NEW t \in Seq(Tokens)
    PROVE  Closed(t) \in Seq(Tokens)
  BY AppendProperties, OutputAssumption DEF Closed

LEMMA TypedRest ==
    ASSUME Typed
    PROVE  /\ \A h \in Hosts : Ends(h) => Typed'
           /\ PrinterEnds => Typed'
           /\ Summarize => Typed'
           /\ UNCHANGED vars => Typed'
<1>1. ASSUME NEW h \in Hosts, Ends(h) PROVE Typed'
  BY <1>1 DEF Ends, Typed, TypeOK, Belongs, printerVars
<1>2. ASSUME PrinterEnds PROVE Typed'
  <2>1. \A s \in Streams : printed[s] \o Closed(buffers[s]) \in Seq(Tokens)
    BY ClosedType, ConcatProperties DEF Typed, TypeOK
  <2>2. printed' \in [Streams -> Seq(Tokens)] /\ buffers' \in [Streams -> Seq(Tokens)]
    BY <1>2, <2>1, EmptySeq DEF PrinterEnds
  <2> QED
    BY <1>2, <2>2 DEF PrinterEnds, Typed, TypeOK, Belongs, hostVars
<1>3. ASSUME Summarize PROVE Typed'
  BY <1>3 DEF Summarize, Typed, TypeOK, Belongs, hostVars, printerVars
<1>4. ASSUME UNCHANGED vars PROVE Typed'
  BY <1>4 DEF vars, Typed, TypeOK, Belongs, hostVars, printerVars
<1> QED
  BY <1>1, <1>2, <1>3, <1>4

-----------------------------------------------------------------------------
(* The chunks on their way.                                                *)

\* How far a stream has come, as numbers.
LEMMA Numbers ==
    ASSUME Typed, NEW s \in Streams
    PROVE  /\ Taken(s) \in Nat /\ Len(printed[s]) \in Nat /\ Len(buffers[s]) \in Nat
           /\ At(s) \in Nat /\ pos[s] \in Nat /\ Len(Text[s]) \in Nat /\ pos[s] <= Len(Text[s])
           /\ Text[s] \in Seq(Tokens) /\ printed[s] \in Seq(Tokens) /\ buffers[s] \in Seq(Tokens)
<1>1. printed[s] \in Seq(Tokens) /\ buffers[s] \in Seq(Tokens) /\ Text[s] \in Seq(Tokens)
  BY OutputAssumption DEF Typed, TypeOK
<1>2. Taken(s) \in Nat
  BY StreamParts DEF Typed, TypeOK, Taken
<1> QED
  BY <1>1, <1>2, LenProperties DEF At, Typed, TypeOK

\* The first chunk in the printer's queue is the one that comes next in its stream, and
\* nothing else of the stream is before its end.
LEMMA HeadIsNext ==
    ASSUME Typed, Flow, NEW c \in Chunks, NEW p, Popped(output, p, c)
    PROVE  /\ c.from = At(c.of)
           /\ \A d \in Chunks : d.of = c.of /\ (In(p, d) \/ InRaw(d) \/ InChan(d)) => c.to <= d.from
<1>1. \A d \in Chunks : d.of = c.of /\ (In(p, d) \/ InRaw(d) \/ InChan(d)) => c.to <= d.from
  BY PoppedIn, PoppedInOrder DEF Flow, OrderInv, InOutput
<1>2. Follows(c.of, c.from)
  BY PoppedIn DEF Flow, GapInv, Flying, InOutput
<1>3. ASSUME NEW d \in Chunks, Flying(d), d.of = c.of PROVE d.to # c.from
  <2>1. d = c \/ c.to <= d.from
    BY <1>1, <1>3, PoppedIn DEF Flying, InOutput
  <2> QED
    BY <2>1, ChunkParts
<1> QED
  BY <1>1, <1>2, <1>3 DEF Follows

\* The same for the queue of a host whose protocol line is not complete.
LEMMA RawHeadIsNext ==
    ASSUME Typed, Flow, NEW h \in Hosts, NEW c \in Chunks, NEW p, Popped(raw[h], p, c),
           c.of[1] = h, c.of[2] = "err", h \notin stripped
    PROVE  /\ c.of = <<h, "err">> /\ c.from = At(c.of)
           /\ \A d \in Chunks : d.of = c.of /\ (In(p, d) \/ InChan(d)) => c.to <= d.from
<1>1. c.of = <<h, "err">>
  BY ChunkParts, StreamParts
<1>2. \A d \in Chunks : d.of = c.of /\ (In(p, d) \/ InChan(d)) => c.to <= d.from
  BY PoppedIn, PoppedInOrder DEF Flow, OrderInv, InRaw
<1>3. Follows(c.of, c.from)
  BY PoppedIn DEF Flow, GapInv, Flying, InRaw
<1>4. ASSUME NEW d \in Chunks, Flying(d), d.of = c.of PROVE d.to # c.from
  <2>1. ~InOutput(d)
    BY <1>1, <1>4 DEF Flow, ProtocolInv
  <2>2. d = c \/ c.to <= d.from
    BY <1>2, <1>4, <2>1, PoppedIn DEF Flying, InRaw
  <2> QED
    BY <2>2, ChunkParts
<1> QED
  BY <1>1, <1>2, <1>3, <1>4 DEF Follows

LEMMA FlowInit == ASSUME Init PROVE Flow
<1>1. /\ \A s \in Streams : chan[s] = <<>> /\ pos[s] = 0 /\ printed[s] = <<>> /\ buffers[s] = <<>>
      /\ \A h \in Hosts : raw[h] = <<>> /\ protocol[h] = 0 /\ task[h] = "streaming"
      /\ output = <<>> /\ stripped = Hosts \ Probed
  BY DEF Init
<1>2. \A c \in Chunks : ~InOutput(c) /\ ~InRaw(c) /\ ~InChan(c)
  BY <1>1, EmptyIn, ChunkParts, StreamParts DEF InOutput, InRaw, InChan
<1>3. \A s \in Streams : Taken(s) = 0 /\ At(s) = 0
  BY <1>1, StreamParts, EmptySeq DEF Taken, At
<1>4. PlaceInv /\ OrderInv /\ GapInv
  BY <1>1, <1>2, <1>3, EmptyIn DEF PlaceInv, OrderInv, GapInv, Flying, Follows
<1>5. TextInv
  <2> SUFFICES ASSUME NEW s \in Streams
               PROVE  /\ printed[s] \o buffers[s] = SubSeq(Text[s], Taken(s) + 1, At(s))
                      /\ NoNewline(buffers[s], 0, Len(buffers[s]))
                      /\ printed[s] = <<>> \/ printed[s][Len(printed[s])] = "nl"
    BY DEF TextInv
  <2>1. SubSeq(Text[s], Taken(s) + 1, At(s)) = <<>>
    BY <1>3, SubSeqEmpty
  <2>2. <<>> \o <<>> = <<>> /\ Len(<<>>) = 0
    BY ConcatEmptySeq, EmptySeq
  <2> QED
    <3>1. printed[s] \o buffers[s] = SubSeq(Text[s], Taken(s) + 1, At(s))
      BY <1>1, <1>3, <2>1, <2>2
    <3>2. NoNewline(buffers[s], 0, Len(buffers[s]))
      <4>1. Len(buffers[s]) = 0
        BY <1>1, <2>2
      <4> QED
        BY <4>1 DEF NoNewline
    <3> QED
      BY <1>1, <3>1, <3>2
<1>6. ProtocolInv
  <2> SUFFICES ASSUME NEW h \in Hosts
               PROVE  LET s == <<h, "err">> IN
                      /\ h \in stripped => protocol[h] = ProtocolEnd(s)
                      /\ h \notin stripped =>
                          /\ h \in Probed
                          /\ NoNewline(Text[s], 0, protocol[h])
                          /\ \A c \in Chunks : c.of = s => ~InOutput(c)
                          /\ printed[s] = <<>> /\ buffers[s] = <<>>
    BY DEF ProtocolInv
  <2>1. <<h, "err">> \in Streams /\ <<h, "err">>[1] = h
    BY HostStreams DEF Fds
  <2>2. h \in stripped => ProtocolEnd(<<h, "err">>) = 0
    BY <1>1, <2>1 DEF ProtocolEnd
  <2>3. NoNewline(Text[<<h, "err">>], 0, protocol[h])
    BY <1>1 DEF NoNewline
  <2> QED
    BY <1>1, <1>2, <2>1, <2>2, <2>3
<1>7. TaskInv
  BY <1>1 DEF TaskInv
<1> QED
  BY <1>4, <1>5, <1>6, <1>7 DEF Flow

\* A step of the network or of a forwarding task changes nothing for the printer.
Unprinted == UNCHANGED <<printed, buffers, protocol>>

LEMMA SameAt ==
    ASSUME Unprinted
    PROVE  /\ \A s : At(s)' = At(s) /\ Taken(s)' = Taken(s)
           /\ TextInv => TextInv'
  BY DEF Unprinted, At, Taken, TextInv

LEMMA FlowReceive ==
    ASSUME Typed, Flow, NEW h \in Hosts, NEW fd \in Fds, NEW n \in 1 .. MaxMessage, Receive(h, fd, n)
    PROVE  Flow'
<1>1. PICK s \in Streams, c \in Chunks : s[1] = h /\ Arrives(s, c)
  BY Received DEF Typed
<1>2. /\ task[h] = "streaming" /\ task' = task /\ raw' = raw /\ output' = output /\ stripped' = stripped
      /\ Unprinted
  BY DEF Receive, Unprinted, printerVars
<1>3. \A d \in Chunks : /\ InOutput(d)' <=> InOutput(d)
                        /\ InRaw(d)' <=> InRaw(d)
                        /\ InChan(d)' <=> InChan(d) \/ d = c
  BY <1>1, <1>2, Arrived
<1>4. c.of = s /\ c.from = pos[s] /\ c.to = pos'[s] /\ \A t \in Streams \ {s} : pos'[t] = pos[t]
  BY <1>1 DEF Arrives
<1>5. \A t \in Streams : At(t) \in Nat /\ pos[t] \in Nat /\ pos'[t] \in Nat /\ pos[t] <= pos'[t]
  BY <1>1, <1>4, Numbers, ChunkParts DEF Arrives
<1>6. \A t : At(t)' = At(t)
  BY <1>2, SameAt
<1>7. At(s) <= pos[s]
  BY DEF Flow, PlaceInv
<1>8. PlaceInv'
  <2> SUFFICES ASSUME NEW d \in Chunks, Flying(d)' PROVE At(d.of) <= d.from /\ d.to <= pos'[d.of]
    BY <1>5, <1>6 DEF Flow, PlaceInv
  <2>1. CASE d = c
    BY <1>4, <1>5, <1>7, <2>1
  <2>2. CASE Flying(d)
    BY <1>5, <2>2, ChunkParts DEF Flow, PlaceInv
  <2> QED
    BY <1>3, <2>1, <2>2 DEF Flying
<1>9. \A d \in Chunks : Flying(d) /\ d.of = s => d.to <= c.from
  BY <1>4 DEF Flow, PlaceInv
<1>10. OrderInv'
  <2>1. chan[s] \in Seq(Chunks) /\ InOrder(chan[s])
    BY DEF Typed, TypeOK, Flow, OrderInv
  <2>2. \A d \in Chunks : In(chan[s], d) /\ d.of = c.of => d.to <= c.from
    BY <1>4, <1>9 DEF Flying, InChan
  <2>3. InOrder(chan'[s])
    BY <1>1, <2>1, <2>2, PushedInOrder DEF Arrives
  <2>4. \A t \in Streams : InOrder(chan'[t])
    BY <1>1, <2>3 DEF Arrives, Flow, OrderInv
  <2>5. ASSUME NEW d \in Chunks, NEW e \in Chunks, d.of = e.of
        PROVE  /\ InOutput(d)' /\ (InRaw(e)' \/ InChan(e)') => d.to <= e.from
               /\ InRaw(d)' /\ InChan(e)' => d.to <= e.from
    BY <1>3, <1>4, <1>9, <2>5 DEF Flow, OrderInv, Flying
  <2> QED
    BY <1>2, <2>4, <2>5 DEF Flow, OrderInv
<1>11. GapInv'
  <2>1. \A t, p : Follows(t, p) => Follows(t, p)'
    BY <1>3, <1>6 DEF Follows, Flying
  <2>2. Flying(c)'
    BY <1>3 DEF Flying
  <2>3. Follows(s, pos[s])'
    BY <1>4, <2>2 DEF Follows
  <2>4. Follows(c.of, c.from)'
    BY <1>1, <1>2, <1>4, <2>1 DEF Flow, GapInv
  <2>5. ASSUME NEW d \in Chunks, Flying(d)' PROVE Follows(d.of, d.from)'
    BY <1>3, <2>1, <2>4, <2>5 DEF Flow, GapInv, Flying
  <2>6. ASSUME NEW t \in Streams, task[t[1]] # "failed" PROVE Follows(t, pos[t])'
    BY <1>4, <2>1, <2>3, <2>6 DEF Flow, GapInv
  <2> QED
    BY <1>2, <2>5, <2>6 DEF GapInv
<1>12. ProtocolInv'
  BY <1>2, <1>3 DEF Flow, ProtocolInv, Unprinted
<1>13. TaskInv'
  <2> SUFFICES ASSUME NEW g \in Hosts, g # h
               PROVE  /\ task[g] \in {"draining", "returned"} => RemoteEnded(g)'
                      /\ task[g] \in {"returned", "failed"} => Drained(g)' /\ raw[g] = <<>>
    BY <1>2 DEF TaskInv
  <2>1. \A f \in Fds : <<g, f>> \in Streams \ {s}
    BY <1>1, HostStreams
  <2>2. \A f \in Fds : pos'[<<g, f>>] = pos[<<g, f>>] /\ chan'[<<g, f>>] = chan[<<g, f>>]
    BY <1>1, <2>1 DEF Arrives
  <2> QED
    BY <2>2 DEF Flow, TaskInv, RemoteEnded, Drained
<1> QED
  BY <1>2, <1>8, <1>10, <1>11, <1>12, <1>13, SameAt DEF Flow

LEMMA FlowForward ==
    ASSUME Typed, Flow, NEW h \in Hosts, NEW fd \in Fds, Forward(h, fd)
    PROVE  Flow'
<1>1. PICK s \in Streams, c \in Chunks : s[1] = h /\ Passes(s, c)
  BY Forwarded DEF Typed
<1>2. /\ task[h] \in {"streaming", "draining"} /\ task' = task /\ pos' = pos /\ output' = output
      /\ stripped' = stripped /\ Unprinted
  BY DEF Forward, Unprinted, printerVars
<1>3. \A d \in Chunks : /\ InOutput(d)' <=> InOutput(d)
                        /\ InRaw(d)' <=> InRaw(d) \/ d = c
                        /\ InChan(d) <=> InChan(d)' \/ d = c
  BY <1>1, <1>2, Moved
<1>4. \A d \in Chunks : Flying(d)' <=> Flying(d)
  BY <1>3 DEF Flying
<1>5. \A t : At(t)' = At(t)
  BY <1>2, SameAt
<1>6. PlaceInv' /\ GapInv'
  BY <1>2, <1>4, <1>5 DEF Flow, PlaceInv, GapInv, Follows
<1>7. OrderInv'
  <2>1. raw[h] \in Seq(Chunks) /\ InOrder(raw[h]) /\ InOrder(chan[s])
    BY DEF Typed, TypeOK, Flow, OrderInv
  <2>2. ASSUME NEW d \in Chunks, In(raw[h], d), d.of = c.of PROVE d.to <= c.from
    <3>1. InRaw(d) /\ InChan(c)
      BY <1>1, <1>3, <2>2 DEF InRaw, Passes
    <3> QED
      BY <2>2, <3>1 DEF Flow, OrderInv
  <2>3. InOrder(raw'[h])
    BY <1>1, <2>1, <2>2, PushedInOrder DEF Passes
  <2>4. InOrder(chan'[s]) /\ \A d : In(chan'[s], d) /\ d.of = c.of => c.to <= d.from
    BY <1>1, <2>1, PoppedInOrder DEF Passes
  <2>5. (\A t \in Streams : InOrder(chan'[t])) /\ \A g \in Hosts : InOrder(raw'[g])
    BY <1>1, <2>3, <2>4 DEF Passes, Flow, OrderInv
  <2>6. ASSUME NEW d \in Chunks, NEW e \in Chunks, d.of = e.of
        PROVE  /\ InOutput(d)' /\ (InRaw(e)' \/ InChan(e)') => d.to <= e.from
               /\ InRaw(d)' /\ InChan(e)' => d.to <= e.from
    <3>1. InOutput(d)' /\ (InRaw(e)' \/ InChan(e)') => d.to <= e.from
      BY <1>3, <2>6 DEF Flow, OrderInv
    <3>2. ASSUME InRaw(d)', InChan(e)' PROVE d.to <= e.from
      <4>1. CASE InRaw(d)
        BY <1>3, <2>6, <3>2, <4>1 DEF Flow, OrderInv
      <4>2. CASE d = c
        BY <1>1, <2>4, <2>6, <3>2, <4>2 DEF InChan, Passes
      <4> QED
        BY <1>3, <3>2, <4>1, <4>2
    <3> QED
      BY <3>1, <3>2
  <2> QED
    BY <1>2, <2>5, <2>6 DEF Flow, OrderInv
<1>8. ProtocolInv'
  BY <1>2, <1>3 DEF Flow, ProtocolInv, Unprinted
<1>9. TaskInv'
  <2> SUFFICES ASSUME NEW g \in Hosts
               PROVE  /\ task[g] \in {"draining", "returned"} => RemoteEnded(g)'
                      /\ task[g] \in {"returned", "failed"} => Drained(g)' /\ raw'[g] = <<>>
    BY <1>2 DEF TaskInv
  <2>1. task[g] \in {"draining", "returned"} => RemoteEnded(g)'
    BY <1>2 DEF Flow, TaskInv, RemoteEnded
  <2>2. ASSUME task[g] \in {"returned", "failed"} PROVE Drained(g)' /\ raw'[g] = <<>>
    <3>1. g # h
      BY <1>2, <2>2
    <3>2. \A f \in Fds : <<g, f>> \in Streams \ {s}
      BY <1>1, <3>1, HostStreams
    <3>3. \A f \in Fds : chan'[<<g, f>>] = chan[<<g, f>>]
      BY <1>1, <3>2 DEF Passes
    <3> QED
      BY <1>1, <2>2, <3>1, <3>3 DEF Flow, TaskInv, Drained, Passes
  <2> QED
    BY <2>1, <2>2
<1> QED
  BY <1>2, <1>6, <1>7, <1>8, <1>9, SameAt DEF Flow

\* The part of a stream up to m, the first that was in flight, has come further: the
\* chunk c that began with it is gone, or its rest k took its place.
LEMMA Advance ==
    ASSUME Typed, Flow, NEW c \in Chunks, NEW k \in Chunks, NEW m \in c.from + 1 .. c.to,
           Flying(c), c.from = At(c.of),
           k.of = c.of, m # c.to => k.from = m /\ k.to = c.to,
           At(c.of)' = m, \A s \in Streams \ {c.of} : At(s)' = At(s),
           pos' = pos, task' = task,
           \A d \in Chunks : Flying(d)' =>
               \/ m # c.to /\ d = k
               \/ Flying(d) /\ (d.of = c.of => c.to <= d.from),
           \A d \in Chunks : Flying(d) /\ d # c => Flying(d)',
           m # c.to => Flying(k)'
    PROVE  PlaceInv' /\ GapInv'
<1>1. c.of \in Streams /\ c.from \in Nat /\ c.to \in Nat /\ m \in Nat /\ c.from < m /\ m <= c.to
  BY ChunkParts
<1>2. c.to <= pos[c.of] /\ \A s \in Streams : pos[s] \in Nat /\ At(s) \in Nat
  BY Numbers DEF Flow, PlaceInv
<1>3. PlaceInv'
  <2>01. \A s \in Streams : At(s)' <= pos[s]
    BY <1>1, <1>2 DEF Flow, PlaceInv
  <2> SUFFICES ASSUME NEW d \in Chunks, Flying(d)' PROVE At(d.of)' <= d.from /\ d.to <= pos[d.of]
    BY <2>01 DEF PlaceInv
  <2>0. d.of \in Streams /\ d.from \in Nat /\ d.to \in Nat
    BY ChunkParts
  <2>1. CASE m # c.to /\ d = k
    BY <1>1, <1>2, <2>1
  <2>2. CASE Flying(d) /\ d.of = c.of /\ c.to <= d.from
    BY <1>1, <2>0, <2>2 DEF Flow, PlaceInv
  <2>3. CASE Flying(d) /\ d.of # c.of
    BY <2>0, <2>3 DEF Flow, PlaceInv
  <2> QED
    BY <2>1, <2>2, <2>3
<1>4. ASSUME NEW s \in Streams, s # c.of, NEW p, Follows(s, p) PROVE Follows(s, p)'
  BY <1>4 DEF Follows
<1>5. ASSUME NEW p \in Nat, c.from < p, Follows(c.of, p) PROVE Follows(c.of, p)'
  <2>1. PICK e \in Chunks : Flying(e) /\ e.of = c.of /\ e.to = p
    BY <1>1, <1>5 DEF Follows
  <2>2. CASE e # c
    BY <2>1, <2>2 DEF Follows
  <2>3. CASE e = c /\ m = c.to
    BY <1>1, <2>1, <2>3 DEF Follows
  <2>4. CASE e = c /\ m # c.to
    BY <2>1, <2>4 DEF Follows
  <2> QED
    BY <2>2, <2>3, <2>4
<1>6. ASSUME NEW d \in Chunks, Flying(d)' PROVE Follows(d.of, d.from)'
  <2>0. d.of \in Streams /\ d.from \in Nat /\ d.to \in Nat
    BY ChunkParts
  <2>1. CASE m # c.to /\ d = k
    BY <2>1 DEF Follows
  <2>2. CASE Flying(d) /\ d.of = c.of /\ c.to <= d.from
    <3>1. Follows(c.of, d.from) /\ c.from < d.from
      BY <1>1, <2>0, <2>2 DEF Flow, GapInv
    <3> QED
      BY <1>5, <2>0, <2>2, <3>1
  <2>3. CASE Flying(d) /\ d.of # c.of
    BY <1>4, <2>0, <2>3 DEF Flow, GapInv
  <2> QED
    BY <1>6, <2>1, <2>2, <2>3
<1>7. ASSUME NEW s \in Streams, task[s[1]] # "failed" PROVE Follows(s, pos[s])'
  <2>1. Follows(s, pos[s])
    BY <1>7 DEF Flow, GapInv
  <2>2. CASE s # c.of
    <3>1. \A p : Follows(s, p) => Follows(s, p)'
      BY <1>4, <2>2
    <3> QED
      BY <2>1, <3>1 DEF Follows
  <2>3. CASE s = c.of
    <3>1. pos[s] \in Nat /\ c.from < pos[s]
      BY <1>1, <1>2, <2>3
    <3>2. \A p : p = pos[s] => Follows(s, p)'
      BY <1>5, <2>1, <2>3, <3>1
    <3> QED
      BY <3>2 DEF Follows
  <2> QED
    BY <2>2, <2>3
<1> QED
  BY <1>3, <1>6, <1>7 DEF GapInv

\* The order after the first chunk of a host's queue was consumed, when the printer's queue
\* is in order and gets at most k, which is no further than that chunk.
LEMMA RelayOrder ==
    ASSUME Typed, Flow, NEW h \in Hosts, NEW c \in Chunks, Taking(h, c), chan' = chan,
           NEW k \in Chunks, k.of = c.of, k.to = c.to,
           InOrder(output'),
           \A d \in Chunks : InOutput(d)' => InOutput(d) \/ d = k
    PROVE  OrderInv'
<1>1. \A d \in Chunks : /\ InRaw(d) <=> InRaw(d)' \/ d = c
                        /\ InChan(d)' <=> InChan(d)
  BY Took
<1>2. InOrder(raw'[h]) /\ \A d : In(raw'[h], d) /\ d.of = c.of => c.to <= d.from
  BY PoppedInOrder DEF Taking, Flow, OrderInv
<1>3. \A g \in Hosts : InOrder(raw'[g])
  BY <1>2 DEF Taking, Flow, OrderInv
<1>4. ASSUME NEW d \in Chunks, NEW e \in Chunks, d.of = e.of, InOutput(d)', InRaw(e)' \/ InChan(e)'
      PROVE  d.to <= e.from
  <2>1. CASE InOutput(d)
    BY <1>1, <1>4, <2>1 DEF Flow, OrderInv
  <2>2. CASE d = k
    <3>1. InRaw(c)
      BY <1>1
    <3>2. CASE InChan(e)
      BY <1>4, <2>2, <3>1, <3>2 DEF Flow, OrderInv
    <3>3. CASE InRaw(e)'
      BY <1>2, <1>4, <2>2, <3>3 DEF InRaw, Taking
    <3> QED
      BY <1>1, <1>4, <3>2, <3>3
  <2> QED
    BY <1>4, <2>1, <2>2
<1>5. ASSUME NEW d \in Chunks, NEW e \in Chunks, d.of = e.of, InRaw(d)', InChan(e)'
      PROVE  d.to <= e.from
  BY <1>1, <1>5 DEF Flow, OrderInv
<1> QED
  BY <1>3, <1>4, <1>5 DEF Flow, OrderInv

LEMMA RelayTask ==
    ASSUME Typed, Flow, NEW h \in Hosts, Relay(h)
    PROVE  TaskInv'
<1>1. /\ task[h] \in {"streaming", "draining"} /\ task' = task /\ pos' = pos /\ chan' = chan
      /\ \A g \in Hosts \ {h} : raw'[g] = raw[g]
  BY DEF Relay, Typed, TypeOK
<1> SUFFICES ASSUME NEW g \in Hosts
             PROVE  /\ task[g] \in {"draining", "returned"} => RemoteEnded(g)'
                    /\ task[g] \in {"returned", "failed"} => Drained(g)' /\ raw'[g] = <<>>
  BY <1>1 DEF TaskInv
<1> QED
  BY <1>1 DEF Flow, TaskInv, RemoteEnded, Drained

LEMMA FlowPassed ==
    ASSUME Typed, Flow, NEW h \in Hosts, Relay(h), NEW c \in Chunks, Taking(h, c), Passed(h, c)
    PROVE  Flow'
<1>1. /\ task' = task /\ pos' = pos /\ chan' = chan /\ stripped' = stripped /\ Unprinted
  BY DEF Relay, Passed, Unprinted, printerVars
<1>2. \A d \in Chunks : /\ InRaw(d) <=> InRaw(d)' \/ d = c
                        /\ InChan(d)' <=> InChan(d)
                        /\ InOutput(d)' <=> InOutput(d) \/ d = c
  BY <1>1, Took, PushedIn DEF Passed, InOutput
<1>3. \A d \in Chunks : Flying(d)' <=> Flying(d)
  BY <1>2 DEF Flying
<1>4. \A t : At(t)' = At(t)
  BY <1>1, SameAt
<1>5. PlaceInv' /\ GapInv'
  BY <1>1, <1>3, <1>4 DEF Flow, PlaceInv, GapInv, Follows
<1>6. OrderInv'
  <2>1. output \in Seq(Chunks) /\ InOrder(output)
    BY DEF Typed, TypeOK, Flow, OrderInv
  <2>2. \A d \in Chunks : In(output, d) /\ d.of = c.of => d.to <= c.from
    BY <1>2 DEF Flow, OrderInv, InOutput
  <2>3. InOrder(output')
    BY <2>1, <2>2, PushedInOrder DEF Passed
  <2> QED
    BY <1>1, <1>2, <2>3, RelayOrder
<1>7. ProtocolInv'
  <2>1. \A g \in Hosts : g \notin stripped => c.of # <<g, "err">>
    BY HostStreams DEF Passed, Taking, Fds
  <2> QED
    BY <1>1, <1>2, <2>1 DEF Flow, ProtocolInv, Unprinted
<1> QED
  BY <1>1, <1>5, <1>6, <1>7, RelayTask, SameAt DEF Flow

\* Where the protocol line ends is where its first newline is.
LEMMA EndIsFirst ==
    ASSUME NEW h \in Probed, NEW cut \in 1 .. Len(Text[<<h, "err">>]),
           Text[<<h, "err">>][cut] = "nl", NoNewline(Text[<<h, "err">>], 0, cut - 1)
    PROVE  ProtocolEnd(<<h, "err">>) = cut
<1>1. PICK s : s = <<h, "err">> /\ s[1] = h /\ s[2] = "err"
  OBVIOUS
<1>2. PICK t : t = Text[s] /\ Len(t) \in Nat /\ cut \in 1 .. Len(t)
  BY <1>1, HostStreams, OutputAssumption, LenProperties DEF Fds
<1>3. t[cut] = "nl" /\ NoNewline(t, 0, cut - 1)
  BY <1>1, <1>2
<1>4. ~NoNewline(t, 0, Len(t))
  BY <1>2, <1>3 DEF NoNewline
<1>5. ASSUME NEW i \in 1 .. Len(t), t[i] = "nl", NoNewline(t, 0, i - 1) PROVE i = cut
  BY <1>2, <1>3, <1>5 DEF NoNewline
<1>6. (CHOOSE i \in 1 .. Len(t) : t[i] = "nl" /\ NoNewline(t, 0, i - 1)) = cut
  BY <1>2, <1>3, <1>5
<1>7. ProtocolEnd(s) = CHOOSE i \in 1 .. Len(t) : t[i] = "nl" /\ NoNewline(t, 0, i - 1)
  BY <1>1, <1>2, <1>4 DEF ProtocolEnd
<1> QED
  BY <1>1, <1>6, <1>7

\* The two ways in which the protocol line takes tokens: all of a chunk, or up to cut.
LEMMA FlowProtocol ==
    ASSUME Typed, Flow, NEW h \in Hosts, Relay(h), NEW c \in Chunks, Taking(h, c),
           NEW m \in c.from + 1 .. c.to,
           \/ Swallowed(h, c) /\ m = c.to
           \/ Divided(h, c, m)
    PROVE  Flow'
<1> DEFINE s == <<h, "err">>
<1>1. /\ task' = task /\ pos' = pos /\ chan' = chan /\ printed' = printed /\ buffers' = buffers
      /\ c.of[2] = "err" /\ h \notin stripped /\ c.of[1] = h
  BY DEF Relay, Swallowed, Divided, Taking, printerVars
<1>2. /\ s \in Streams /\ s[1] = h /\ s[2] = "err" /\ c.of = s
      /\ c.from \in Nat /\ c.to \in Nat /\ m \in Nat /\ c.from < m /\ m <= c.to
  BY <1>1, ChunkParts, StreamParts, HostStreams DEF Fds
<1>3. /\ c.from = At(s)
      /\ \A d \in Chunks : d.of = s /\ (In(raw'[h], d) \/ InChan(d)) => c.to <= d.from
  BY <1>1, <1>2, RawHeadIsNext DEF Taking
<1>4. /\ h \in Probed /\ NoNewline(Text[s], 0, protocol[h])
      /\ \A d \in Chunks : d.of = s => ~InOutput(d)
      /\ printed[s] = <<>> /\ buffers[s] = <<>>
  BY <1>1 DEF Flow, ProtocolInv
<1>5. Taken(s) = c.from /\ protocol[h] = c.from
  <2>1. Len(<<>>) = 0
    BY EmptySeq
  <2> QED
    BY <1>2, <1>3, <1>4, <2>1, Numbers DEF At, Taken
<1>6. protocol'[h] = m /\ \A g \in Hosts \ {h} : protocol'[g] = protocol[g]
  <2>1. protocol \in [Hosts -> Nat]
    BY DEF Typed, TypeOK
  <2>2. protocol' = [protocol EXCEPT ![h] = @ + (m - c.from)]
    BY DEF Swallowed, Divided
  <2> QED
    BY <1>2, <1>5, <2>1, <2>2
<1>7. /\ Taken(s)' = m /\ At(s)' = m
      /\ \A t \in Streams \ {s} : Taken(t)' = Taken(t) /\ At(t)' = At(t)
  <2>1. ASSUME NEW t \in Streams \ {s} PROVE Taken(t)' = Taken(t)
    BY <1>2, <1>6, StreamParts DEF Taken
  <2>2. Len(<<>>) = 0
    BY EmptySeq
  <2>3. Taken(s)' = m
    BY <1>2, <1>6 DEF Taken
  <2>4. At(s)' = m
    BY <1>1, <1>2, <1>4, <2>2, <2>3 DEF At
  <2> QED
    BY <1>1, <2>1, <2>3, <2>4 DEF At
<1>8. PICK k \in Chunks : /\ k.of = s /\ k.to = c.to
                          /\ m # c.to => k.from = m /\ Pushed(output, output', k)
                          /\ m = c.to => output' = output
  <2>1. CASE m = c.to
    BY <1>2, <2>1 DEF Swallowed, Divided
  <2>2. CASE m # c.to
    BY <1>2, <2>2, Rests DEF Swallowed, Divided
  <2> QED
    BY <2>1, <2>2
<1>9. \A d \in Chunks : /\ InRaw(d) <=> InRaw(d)' \/ d = c
                        /\ InChan(d)' <=> InChan(d)
                        /\ InOutput(d)' <=> InOutput(d) \/ (m # c.to /\ d = k)
  <2>1. \A d \in Chunks : InOutput(d)' <=> InOutput(d) \/ (m # c.to /\ d = k)
    <3>1. CASE m = c.to
      BY <1>8, <3>1 DEF InOutput
    <3>2. CASE m # c.to
      BY <1>8, <3>2, PushedIn DEF InOutput
    <3> QED
      BY <3>1, <3>2
  <2> QED
    BY <1>1, <2>1, Took
<1>10. PlaceInv' /\ GapInv'
  <2>1. Flying(c) /\ (m # c.to => Flying(k)')
    BY <1>9 DEF Flying
  <2>2. \A d \in Chunks : Flying(d) /\ d # c => Flying(d)'
    BY <1>9 DEF Flying
  <2>3. ASSUME NEW d \in Chunks, Flying(d)'
        PROVE  \/ m # c.to /\ d = k
               \/ Flying(d) /\ (d.of = c.of => c.to <= d.from)
    <3>1. CASE m # c.to /\ d = k
      BY <3>1
    <3>2. CASE InRaw(d)' \/ InChan(d)' \/ InOutput(d)
      <4>1. Flying(d)
        BY <1>9, <3>2 DEF Flying
      <4>2. ASSUME d.of = s PROVE c.to <= d.from
        BY <1>2, <1>3, <1>4, <1>9, <3>2, <4>2 DEF InRaw
      <4> QED
        BY <1>2, <4>1, <4>2
    <3> QED
      BY <1>9, <2>3, <3>1, <3>2 DEF Flying
  <2> QED
    BY <1>1, <1>2, <1>3, <1>7, <1>8, <2>1, <2>2, <2>3, Advance
<1>11. OrderInv'
  <2>1. InOrder(output')
    <3>1. output \in Seq(Chunks) /\ InOrder(output)
      BY DEF Typed, TypeOK, Flow, OrderInv
    <3>2. CASE m = c.to
      BY <1>8, <3>1, <3>2
    <3>3. CASE m # c.to
      <4>1. \A d \in Chunks : In(output, d) /\ d.of = k.of => d.to <= k.from
        BY <1>4, <1>8 DEF InOutput
      <4> QED
        BY <1>8, <3>1, <3>3, <4>1, PushedInOrder
    <3> QED
      BY <3>2, <3>3
  <2> QED
    BY <1>1, <1>2, <1>8, <1>9, <2>1, RelayOrder
<1>12. TextInv'
  <2> SUFFICES ASSUME NEW t \in Streams
               PROVE  /\ printed[t] \o buffers[t] = SubSeq(Text[t], Taken(t)' + 1, At(t)')
                      /\ NoNewline(buffers[t], 0, Len(buffers[t]))
                      /\ printed[t] = <<>> \/ printed[t][Len(printed[t])] = "nl"
    BY <1>1 DEF TextInv
  <2>1. CASE t # s
    BY <1>7, <2>1 DEF Flow, TextInv
  <2>2. CASE t = s
    <3>1. SubSeq(Text[s], m + 1, m) = <<>>
      BY <1>2, SubSeqEmpty
    <3>2. <<>> \o <<>> = <<>>
      BY ConcatEmptySeq, EmptySeq
    <3>3. printed[t] \o buffers[t] = SubSeq(Text[t], Taken(t)' + 1, At(t)')
      BY <1>4, <1>7, <2>2, <3>1, <3>2
    <3> QED
      BY <3>3 DEF Flow, TextInv
  <2> QED
    BY <2>1, <2>2
<1>13. NoNewline(Text[s], 0, m - 1) /\ (Swallowed(h, c) => NoNewline(Text[s], 0, m))
  BY <1>2, <1>4, <1>5 DEF NoNewline, Swallowed, Divided
<1>14. ProtocolInv'
  <2> SUFFICES ASSUME NEW g \in Hosts
               PROVE  LET r == <<g, "err">> IN
                      /\ g \in stripped' => protocol'[g] = ProtocolEnd(r)
                      /\ g \notin stripped' =>
                          /\ g \in Probed
                          /\ NoNewline(Text[r], 0, protocol'[g])
                          /\ \A d \in Chunks : d.of = r => ~InOutput(d)'
                          /\ printed[r] = <<>> /\ buffers[r] = <<>>
    BY <1>1 DEF ProtocolInv
  <2>1. CASE g # h
    <3>1. (g \in stripped' <=> g \in stripped) /\ protocol'[g] = protocol[g]
      BY <1>6, <2>1 DEF Swallowed, Divided
    <3>2. k.of # <<g, "err">>
      BY <1>8, <2>1
    <3> QED
      BY <1>9, <3>1, <3>2 DEF Flow, ProtocolInv
  <2>2. CASE g = h /\ Swallowed(h, c) /\ m = c.to
    BY <1>1, <1>4, <1>6, <1>8, <1>13, <2>2 DEF Swallowed, InOutput
  <2>3. CASE g = h /\ Divided(h, c, m)
    <3>1. c.to <= Len(Text[s])
      <4>1. Flying(c)
        BY <1>9 DEF Flying
      <4>2. c.to <= pos[s]
        BY <1>2, <4>1 DEF Flow, PlaceInv
      <4>3. pos[s] \in Nat /\ Len(Text[s]) \in Nat /\ pos[s] <= Len(Text[s])
        BY <1>2, Numbers
      <4> QED
        BY <1>2, <4>2, <4>3
    <3>2. m \in 1 .. Len(Text[s]) /\ Text[s][m] = "nl"
      BY <1>2, <2>3, <3>1, Numbers DEF Divided
    <3>3. ProtocolEnd(s) = m
      BY <1>4, <1>13, <3>2, EndIsFirst
    <3> QED
      BY <1>6, <2>3, <3>3 DEF Divided
  <2> QED
    BY <2>1, <2>2, <2>3
<1> QED
  BY <1>10, <1>11, <1>12, <1>14, RelayTask DEF Flow

LEMMA FlowRelay ==
    ASSUME Typed, Flow, NEW h \in Hosts, Relay(h)
    PROVE  Flow'
<1>1. PICK c \in Chunks :
          /\ Taking(h, c)
          /\ \/ Passed(h, c) \/ Swallowed(h, c)
             \/ \E cut \in c.from + 1 .. c.to : Divided(h, c, cut)
  BY Relayed DEF Typed
<1>2. CASE Passed(h, c)
  BY <1>1, <1>2, FlowPassed
<1>3. CASE Swallowed(h, c)
  <2>1. c.to \in c.from + 1 .. c.to
    BY ChunkParts
  <2> QED
    BY <1>1, <1>3, <2>1, FlowProtocol
<1>4. ASSUME NEW cut \in c.from + 1 .. c.to, Divided(h, c, cut) PROVE Flow'
  BY <1>1, <1>4, FlowProtocol
<1> QED
  BY <1>1, <1>2, <1>3, <1>4

LEMMA FlowEnds ==
    ASSUME Typed, Flow, NEW h \in Hosts, Ends(h)
    PROVE  Flow'
<1>1. /\ task[h] = "streaming" /\ RemoteEnded(h) /\ task' = [task EXCEPT ![h] = "draining"]
      /\ pos' = pos /\ chan' = chan /\ raw' = raw /\ output' = output /\ stripped' = stripped /\ Unprinted
      /\ task \in [Hosts -> {"streaming", "draining", "returned", "failed"}]
  BY DEF Ends, Unprinted, printerVars, Typed, TypeOK
<1>2. \A d \in Chunks : /\ InOutput(d)' <=> InOutput(d)
                        /\ InRaw(d)' <=> InRaw(d)
                        /\ InChan(d)' <=> InChan(d)
  BY <1>1 DEF InOutput, InRaw, InChan
<1>3. \A t : At(t)' = At(t)
  BY <1>1, SameAt
<1>4. PlaceInv' /\ OrderInv'
  BY <1>1, <1>2, <1>3 DEF Flow, PlaceInv, OrderInv, Flying
<1>5. GapInv'
  <2>1. \A g \in Hosts : task'[g] # "failed" => task[g] # "failed"
    BY <1>1
  <2>2. \A s \in Streams : task'[s[1]] # "failed" => task[s[1]] # "failed"
    BY <2>1, StreamParts
  <2> QED
    BY <1>1, <1>2, <1>3, <2>2 DEF Flow, GapInv, Flying, Follows
<1>6. ProtocolInv'
  BY <1>1, <1>2 DEF Flow, ProtocolInv, Unprinted
<1>7. TaskInv'
  <2> SUFFICES ASSUME NEW g \in Hosts
               PROVE  /\ task'[g] \in {"draining", "returned"} => RemoteEnded(g)
                      /\ task'[g] \in {"returned", "failed"} => Drained(g) /\ raw[g] = <<>>
    BY <1>1 DEF TaskInv, RemoteEnded, Drained
  <2> QED
    BY <1>1 DEF Flow, TaskInv
<1> QED
  BY <1>1, <1>4, <1>5, <1>6, <1>7, SameAt DEF Flow

\* Who returns has nothing left; who fails loses the last chunks of its own streams.
LEMMA FlowLeaves ==
    ASSUME Typed, Flow, NEW h \in Hosts, Returns(h) \/ Fails(h)
    PROVE  Flow'
<1>1. /\ Leaves(h) /\ pos' = pos /\ output' = output /\ stripped' = stripped /\ Unprinted
      /\ \A g \in Hosts \ {h} : task'[g] = task[g]
      /\ \/ task[h] = "draining" /\ task'[h] = "returned" /\ Drained(h) /\ raw[h] = <<>>
         \/ task'[h] = "failed"
  BY DEF Returns, Fails, Leaves, Unprinted, printerVars, Typed, TypeOK
<1>2. /\ \A s \in Streams : IF s[1] = h THEN chan'[s] = <<>> ELSE chan'[s] = chan[s]
      /\ \A g \in Hosts : IF g = h THEN raw'[g] = <<>> ELSE raw'[g] = raw[g]
  BY <1>1, LeavesBehind DEF Typed
<1>3. \A d \in Chunks : /\ InOutput(d)' <=> InOutput(d)
                        /\ InRaw(d)' <=> InRaw(d) /\ d.of[1] # h
                        /\ InChan(d)' <=> InChan(d) /\ d.of[1] # h
  BY <1>1, <1>2, EmptyIn, ChunkParts, StreamParts DEF InOutput, InRaw, InChan
<1>4. \A t : At(t)' = At(t)
  BY <1>1, SameAt
<1>5. PlaceInv'
  BY <1>1, <1>3, <1>4 DEF Flow, PlaceInv, Flying
<1>6. OrderInv'
  <2>1. (\A s \in Streams : InOrder(chan'[s])) /\ \A g \in Hosts : InOrder(raw'[g])
    BY <1>2, EmptyIn DEF Flow, OrderInv
  <2> QED
    BY <1>1, <1>3, <2>1 DEF Flow, OrderInv
<1>7. ASSUME NEW d \in Chunks, Flying(d), ~Flying(d)'
      PROVE  d.of[1] = h /\ task'[h] = "failed" /\ ~InOutput(d)
  <2>1. d.of[1] = h /\ ~InOutput(d)
    BY <1>3, <1>7 DEF Flying
  <2>2. ASSUME Drained(h), raw[h] = <<>> PROVE ~Flying(d)
    <3>1. \A fd \in Fds : chan[<<h, fd>>] = <<>>
      BY <2>2 DEF Drained
    <3>2. chan[d.of] = <<>>
      BY <2>1, <3>1, ChunkParts, StreamParts
    <3> QED
      BY <2>1, <2>2, <3>2, EmptyIn DEF Flying, InRaw, InChan
  <2> QED
    BY <1>1, <1>7, <2>1, <2>2
<1>8. GapInv'
  <2>1. ASSUME NEW c \in Chunks, Flying(c)' PROVE Follows(c.of, c.from)'
    <3>1. Flying(c) /\ Follows(c.of, c.from)
      BY <1>3, <2>1 DEF Flying, Flow, GapInv
    <3>2. CASE c.from = At(c.of)
      BY <1>4, <3>2 DEF Follows
    <3>3. ASSUME NEW d \in Chunks, Flying(d), d.of = c.of, d.to = c.from PROVE Flying(d)'
      <4>1. SUFFICES ASSUME ~Flying(d)' PROVE FALSE
        OBVIOUS
      <4>2. d.of[1] = h /\ ~InOutput(d)
        BY <1>7, <3>3, <4>1
      <4>3. InOutput(c) /\ (InRaw(d) \/ InChan(d))
        BY <1>3, <2>1, <3>3, <4>2 DEF Flying
      <4>4. c.to <= d.from
        BY <3>3, <4>3 DEF Flow, OrderInv
      <4> QED
        BY <3>3, <4>4, ChunkParts
    <3> QED
      BY <3>1, <3>2, <3>3 DEF Follows
  <2>2. ASSUME NEW s \in Streams, task'[s[1]] # "failed" PROVE Follows(s, pos[s])'
    <3>1. task[s[1]] # "failed"
      BY <1>1, <2>2, StreamParts
    <3>2. \A d \in Chunks : Flying(d) /\ d.of = s => Flying(d)'
      BY <1>7, <2>2
    <3> QED
      BY <1>1, <1>4, <3>1, <3>2 DEF Flow, GapInv, Follows
  <2> QED
    BY <2>1, <2>2 DEF GapInv
<1>9. ProtocolInv'
  BY <1>1, <1>3 DEF Flow, ProtocolInv, Unprinted
<1>10. TaskInv'
  <2> SUFFICES ASSUME NEW g \in Hosts
               PROVE  /\ task'[g] \in {"draining", "returned"} => RemoteEnded(g)'
                      /\ task'[g] \in {"returned", "failed"} => Drained(g)' /\ raw'[g] = <<>>
    BY DEF TaskInv
  <2>1. RemoteEnded(g)' <=> RemoteEnded(g)
    BY <1>1 DEF RemoteEnded
  <2>2. CASE g = h
    <3>1. Drained(g)' /\ raw'[g] = <<>>
      BY <1>2, <2>2, HostStreams DEF Drained
    <3> QED
      BY <1>1, <2>1, <2>2, <3>1 DEF Flow, TaskInv
  <2>3. CASE g # h
    <3>1. Drained(g)' <=> Drained(g)
      BY <1>2, <2>3, HostStreams DEF Drained
    <3> QED
      BY <1>1, <1>2, <2>1, <2>3, <3>1 DEF Flow, TaskInv
  <2> QED
    BY <2>2, <2>3
<1> QED
  BY <1>1, <1>5, <1>6, <1>8, <1>9, <1>10, SameAt DEF Flow

LEMMA Associates ==
    ASSUME NEW p \in Seq(Tokens), NEW q \in Seq(Tokens), NEW r \in Seq(Tokens)
    PROVE  (p \o q) \o r = p \o (q \o r)
  BY ConcatAssociative, SMTT(30)

\* A step of the printer: what it has in hand is the next part of the text of the chunk's
\* stream, of which it prints all up to the last newline.
LEMMA FlowPrint ==
    ASSUME Typed, Flow, PrintChunk
    PROVE  Flow'
<1>1. PICK c \in Chunks : \E cut \in 0 .. Len(Text1(c)) : Prints(c, cut)
  BY Printed
<1>2. PICK cut \in 0 .. Len(Text1(c)) : Prints(c, cut)
  BY <1>1
<1> DEFINE s == c.of
<1>3. pos' = pos /\ chan' = chan /\ raw' = raw /\ task' = task /\ protocol' = protocol /\ stripped' = stripped
  BY DEF PrintChunk, hostVars
<1>4. \A d \in Chunks : /\ InOutput(d) <=> InOutput(d)' \/ d = c
                        /\ InRaw(d)' <=> InRaw(d)
                        /\ InChan(d)' <=> InChan(d)
  BY <1>2, <1>3, PoppedIn DEF Prints, InOutput, InRaw, InChan
<1>5. /\ c.from = At(s)
      /\ \A d \in Chunks : d.of = s /\ (In(output', d) \/ InRaw(d) \/ InChan(d)) => c.to <= d.from
  BY <1>2, HeadIsNext DEF Prints
<1>6. /\ s \in Streams /\ c.from \in Nat /\ c.to \in Nat /\ c.from < c.to
      /\ InOutput(c) /\ Flying(c) /\ c.to <= Len(Text[s])
  <2>1. InOutput(c) /\ Flying(c)
    BY <1>4 DEF Flying
  <2>2. s \in Streams /\ c.from \in Nat /\ c.to \in Nat /\ c.from < c.to
    BY ChunkParts
  <2>3. c.to <= pos[s]
    BY <2>1 DEF Flow, PlaceInv
  <2> QED
    BY <2>1, <2>2, <2>3, Numbers
<1> DEFINE t == Text1(c)
           data == SubSeq(Text[s], c.from + 1, c.to)
<1>7. /\ data \in Seq(Tokens) /\ Len(data) = c.to - c.from
      /\ t \in Seq(Tokens) /\ Len(t) = Len(buffers[s]) + (c.to - c.from) /\ Len(t) \in Nat
      /\ t = buffers[s] \o data
  BY <1>6, TextInHand, LenProperties DEF Text1
<1> DEFINE a == SubSeq(t, 1, cut)
           b == SubSeq(t, cut + 1, Len(t))
<1>8. /\ printed'[s] = printed[s] \o a /\ buffers'[s] = b
      /\ \A r \in Streams \ {s} : printed'[r] = printed[r] /\ buffers'[r] = buffers[r]
      /\ Len(printed'[s]) = Len(printed[s]) + cut /\ Len(buffers'[s]) = Len(t) - cut
  BY <1>2, <1>6, PrintedWhere
<1>9. /\ a \in Seq(Tokens) /\ Len(a) = cut /\ b \in Seq(Tokens) /\ Len(b) = Len(t) - cut /\ a \o b = t
  BY <1>7, Halves
<1>10. /\ Taken(s) \in Nat /\ Len(printed[s]) \in Nat /\ Len(buffers[s]) \in Nat /\ Len(Text[s]) \in Nat
       /\ Text[s] \in Seq(Tokens) /\ printed[s] \in Seq(Tokens) /\ buffers[s] \in Seq(Tokens)
  BY <1>6, Numbers
<1> HIDE DEF a, b, t, data
<1>11. cut \in Nat /\ cut <= Len(t)
  BY <1>7 DEF t
<1>12. \A r : Taken(r)' = Taken(r)
  BY <1>3 DEF Taken
<1>13. At(s)' = c.to /\ \A r \in Streams \ {s} : At(r)' = At(r)
  <2>1. At(s)' = Taken(s) + (Len(printed[s]) + cut) + (Len(t) - cut)
    BY <1>8, <1>12 DEF At
  <2>2. At(s)' = c.to
    <3>1. c.from = Taken(s) + Len(printed[s]) + Len(buffers[s])
      BY <1>5 DEF At
    <3>2. Taken(s) + (Len(printed[s]) + cut) + (Len(t) - cut) = c.to
      <4>1. /\ Taken(s) \in Nat /\ Len(printed[s]) \in Nat /\ Len(buffers[s]) \in Nat
            /\ Len(t) = Len(buffers[s]) + (c.to - c.from)
        BY <1>7, <1>10
      <4>2. c.from \in Nat /\ c.to \in Nat /\ cut \in Nat /\ Len(t) \in Nat
        BY <1>6, <1>7, <1>11
      <4> DEFINE taken == Taken(s)
                 x == Len(printed[s])
                 y == Len(buffers[s])
                 z == Len(t)
      <4>3. c.from = taken + x + y
        BY <3>1
      <4>4. z = y + (c.to - c.from) /\ taken \in Nat /\ x \in Nat /\ y \in Nat /\ z \in Nat
        BY <4>1, <4>2
      <4> HIDE DEF taken, x, y, z
      <4>5. taken + (x + cut) + (z - cut) = c.to
        BY <4>2, <4>3, <4>4
      <4> QED
        BY <4>5 DEF taken, x, y, z
    <3> QED
      BY <2>1, <3>2
  <2> QED
    BY <1>8, <1>12, <2>2 DEF At
<1>14. PlaceInv' /\ GapInv'
  <2>1. c.to \in c.from + 1 .. c.to
    BY <1>6
  <2>2. \A d \in Chunks : Flying(d)' => Flying(d) /\ (d.of = c.of => c.to <= d.from)
    BY <1>4, <1>5 DEF Flying, InOutput
  <2>3. \A d \in Chunks : Flying(d) /\ d # c => Flying(d)'
    BY <1>4 DEF Flying
  <2> QED
    BY <1>3, <1>5, <1>6, <1>13, <2>1, <2>2, <2>3, Advance
<1>15. OrderInv'
  <2>1. InOrder(output')
    BY <1>2, PoppedInOrder DEF Prints, Flow, OrderInv
  <2> QED
    BY <1>3, <1>4, <2>1 DEF Flow, OrderInv
<1>16. printed'[s] \o buffers'[s] = SubSeq(Text[s], Taken(s) + 1, c.to)
  <2>1. printed'[s] \o buffers'[s] = (printed[s] \o buffers[s]) \o data
    <3>1. (printed[s] \o a) \o b = (printed[s] \o buffers[s]) \o data
      <4>1. a \o b = buffers[s] \o data
        BY <1>7, <1>9
      <4> QED
        <5> DEFINE p == printed[s]
                   q == buffers[s]
        <5>1. /\ p \in Seq(Tokens) /\ q \in Seq(Tokens) /\ data \in Seq(Tokens)
              /\ a \in Seq(Tokens) /\ b \in Seq(Tokens) /\ a \o b = q \o data
          BY <1>7, <1>9, <1>10, <4>1
        <5> HIDE DEF p, q
        <5>2. (p \o a) \o b = p \o (a \o b)
          BY <5>1, Associates
        <5>3. (p \o q) \o data = p \o (q \o data)
          BY <5>1, Associates
        <5>4. (p \o a) \o b = (p \o q) \o data
          BY <5>1, <5>2, <5>3
        <5> QED
          BY <5>4 DEF p, q
    <3> QED
      BY <1>8, <3>1
  <2>2. printed[s] \o buffers[s] = SubSeq(Text[s], Taken(s) + 1, c.from)
    BY <1>5, <1>6 DEF Flow, TextInv
  <2>3. Taken(s) <= c.from
    BY <1>5, <1>10 DEF At
  <2>4. SubSeq(Text[s], Taken(s) + 1, c.from) \o data = SubSeq(Text[s], Taken(s) + 1, c.to)
    <3>1. /\ Taken(s) + 1 \in 1 .. Len(Text[s]) + 1
          /\ c.from \in (Taken(s) + 1) - 1 .. Len(Text[s])
          /\ c.to \in c.from .. Len(Text[s])
      BY <1>6, <1>10, <2>3
    <3> QED
      BY <1>10, <3>1, ConcatAdjacentSubSeq DEF data
  <2> QED
    BY <2>1, <2>2, <2>4
<1>17. NoNewline(buffers'[s], 0, Len(buffers'[s]))
  <2>1. NoNewline(t, cut, Len(t))
    BY <1>2 DEF Prints, t
  <2>2. ASSUME NEW i \in 1 .. Len(b) PROVE b[i] = t[cut + i]
    <3>1. \A j \in cut + 1 .. Len(t) : t[j] \in Tokens
      BY <1>7, <1>11, ElementOfSeq
    <3>2. \A j \in 1 .. Len(t) - (cut + 1) + 1 : SubSeq(t, cut + 1, Len(t))[j] = t[cut + 1 + j - 1]
      <4>1. cut + 1 \in Int /\ Len(t) \in Int
        BY <1>7, <1>11
      <4> QED
        BY <3>1, <4>1, SubSeqProperties
    <3>3. i \in 1 .. Len(t) - (cut + 1) + 1 /\ cut + 1 + i - 1 = cut + i
      BY <1>7, <1>9, <1>11
    <3> QED
      BY <3>2, <3>3 DEF b
  <2>3. ASSUME NEW i \in 1 .. Len(b) PROVE b[i] # "nl"
    <3>1. cut + i \in cut + 1 .. Len(t)
      BY <1>7, <1>9, <1>11
    <3> QED
      BY <2>1, <2>2, <3>1 DEF NoNewline
  <2> QED
    BY <1>8, <2>3 DEF NoNewline
<1>18. printed'[s] = <<>> \/ printed'[s][Len(printed'[s])] = "nl"
  <2>1. CASE cut = 0
    <3>1. a = <<>>
      BY <1>9, <2>1, EmptySeq
    <3>2. printed'[s] = printed[s]
      BY <1>8, <1>10, <3>1, ConcatEmptySeq
    <3> QED
      BY <1>6, <3>2 DEF Flow, TextInv
  <2>2. CASE cut # 0
    <3>1. t[cut] = "nl"
      BY <1>2, <2>2 DEF Prints, t
    <3>2. a[cut] = t[cut]
      <4>1. \A i \in 1 .. cut : t[i] \in Tokens
        BY <1>7, <1>11, ElementOfSeq
      <4>2. \A i \in 1 .. cut - 1 + 1 : SubSeq(t, 1, cut)[i] = t[1 + i - 1]
        BY <1>11, <4>1, SubSeqProperties
      <4> QED
        BY <1>11, <2>2, <4>2 DEF a
    <3>3. (printed[s] \o a)[Len(printed[s]) + cut] = a[cut]
      <4>1. \A i \in 1 .. Len(printed[s]) + Len(a) : (printed[s] \o a)[i] =
                IF i <= Len(printed[s]) THEN printed[s][i] ELSE a[i - Len(printed[s])]
        BY <1>9, <1>10, ConcatProperties
      <4> QED
        BY <1>9, <1>10, <1>11, <2>2, <4>1
    <3> QED
      BY <1>8, <3>1, <3>2, <3>3
  <2> QED
    BY <2>1, <2>2
<1>19. TextInv'
  <2> SUFFICES ASSUME NEW r \in Streams
               PROVE  /\ printed'[r] \o buffers'[r] = SubSeq(Text[r], Taken(r)' + 1, At(r)')
                      /\ NoNewline(buffers'[r], 0, Len(buffers'[r]))
                      /\ printed'[r] = <<>> \/ printed'[r][Len(printed'[r])] = "nl"
    BY DEF TextInv
  <2>1. CASE r = s
    BY <1>12, <1>13, <1>16, <1>17, <1>18, <2>1
  <2>2. CASE r # s
    BY <1>8, <1>12, <1>13, <2>2 DEF Flow, TextInv
  <2> QED
    BY <2>1, <2>2
<1>20. ProtocolInv'
  <2>1. ASSUME NEW h \in Hosts, h \notin stripped
        PROVE  /\ \A d \in Chunks : d.of = <<h, "err">> => ~InOutput(d)'
               /\ printed'[<<h, "err">>] = <<>> /\ buffers'[<<h, "err">>] = <<>>
    <3>1. s # <<h, "err">>
      BY <1>6, <2>1 DEF Flow, ProtocolInv
    <3>2. <<h, "err">> \in Streams
      BY HostStreams DEF Fds
    <3> QED
      BY <1>4, <1>8, <2>1, <3>1, <3>2 DEF Flow, ProtocolInv
  <2> QED
    BY <1>3, <2>1 DEF Flow, ProtocolInv
<1>21. TaskInv'
  BY <1>3 DEF Flow, TaskInv, RemoteEnded, Drained
<1> QED
  BY <1>14, <1>15, <1>19, <1>20, <1>21 DEF Flow

-----------------------------------------------------------------------------
(* What the tool wrote, and how much of it the printer has.                *)

\* A set of naturals has a least member.
LEMMA LeastOf ==
    ASSUME NEW T, T \subseteq Nat, T # {}
    PROVE  \E m \in T : \A k \in T : ~(k < m)
<1>1. IsWellFoundedOn({pair \in Nat \X Nat : pair[1] < pair[2]}, Nat)
  BY NatLessThanWellFounded DEF OpToRel
<1>2. \E m \in T : \A k \in T : <<k, m>> \notin {pair \in Nat \X Nat : pair[1] < pair[2]}
  BY <1>1, WFMin
<1> QED
  BY <1>2

LEMMA EndIsInText ==
    ASSUME NEW s \in Streams
    PROVE  ProtocolEnd(s) \in 0 .. Len(Text[s])
<1>1. PICK t : t = Text[s] /\ Len(t) \in Nat
  BY OutputAssumption, LenProperties
<1>2. CASE s[1] \notin Probed \/ s[2] = "out"
  BY <1>1, <1>2 DEF ProtocolEnd
<1>3. CASE ~(s[1] \notin Probed \/ s[2] = "out") /\ NoNewline(t, 0, Len(t))
  BY <1>1, <1>3 DEF ProtocolEnd
<1>4. CASE ~(s[1] \notin Probed \/ s[2] = "out") /\ ~NoNewline(t, 0, Len(t))
  <2> DEFINE T == {i \in 1 .. Len(t) : t[i] = "nl"}
  <2>1. T \subseteq Nat /\ T # {}
    BY <1>1, <1>4 DEF NoNewline
  <2>2. PICK m \in T : \A k \in T : ~(k < m)
    BY <2>1, LeastOf
  <2>3. NoNewline(t, 0, m - 1)
    BY <1>1, <2>2 DEF NoNewline
  <2>4. (CHOOSE i \in 1 .. Len(t) : t[i] = "nl" /\ NoNewline(t, 0, i - 1)) \in 1 .. Len(t)
    BY <2>2, <2>3
  <2>5. ProtocolEnd(s) = CHOOSE i \in 1 .. Len(t) : t[i] = "nl" /\ NoNewline(t, 0, i - 1)
    BY <1>1, <1>4 DEF ProtocolEnd
  <2> QED
    BY <1>1, <2>4, <2>5
<1> QED
  BY <1>2, <1>3, <1>4

LEMMA ToolTextIs ==
    ASSUME NEW s \in Streams
    PROVE  /\ ToolText(s) \in Seq(Tokens)
           /\ Len(ToolText(s)) = Len(Text[s]) - ProtocolEnd(s)
           /\ \A i \in 1 .. Len(Text[s]) - ProtocolEnd(s) : ToolText(s)[i] = Text[s][ProtocolEnd(s) + i]
           /\ Len(Text[s]) \in Nat /\ ProtocolEnd(s) \in Nat /\ ProtocolEnd(s) <= Len(Text[s])
<1>1. Len(Text[s]) \in Nat /\ ProtocolEnd(s) \in Nat /\ ProtocolEnd(s) <= Len(Text[s])
  BY EndIsInText, OutputAssumption, LenProperties
<1>2. Len(Text[s]) <= Len(Text[s])
  BY <1>1
<1> QED
  BY <1>1, <1>2, Data DEF ToolText

\* The text of a stream after the protocol line begins as the tool's text does.
LEMMA PartOfTool ==
    ASSUME NEW s \in Streams, NEW at \in ProtocolEnd(s) .. Len(Text[s])
    PROVE  /\ at - ProtocolEnd(s) \in 0 .. Len(ToolText(s))
           /\ SubSeq(Text[s], ProtocolEnd(s) + 1, at) = SubSeq(ToolText(s), 1, at - ProtocolEnd(s))
<1> DEFINE e == ProtocolEnd(s)
           n == at - e
           x == SubSeq(Text[s], e + 1, at)
           y == SubSeq(ToolText(s), 1, n)
<1>1. /\ ToolText(s) \in Seq(Tokens) /\ Len(ToolText(s)) = Len(Text[s]) - e
      /\ \A i \in 1 .. Len(Text[s]) - e : ToolText(s)[i] = Text[s][e + i]
      /\ Len(Text[s]) \in Nat /\ e \in Nat
  BY ToolTextIs
<1>2. at \in Nat /\ e <= at /\ at <= Len(Text[s]) /\ n \in Nat /\ n <= Len(ToolText(s)) /\ n \in 0 .. Len(ToolText(s))
  BY <1>1
<1>3. x \in Seq(Tokens) /\ Len(x) = n /\ \A i \in 1 .. n : x[i] = Text[s][e + i]
  BY <1>1, <1>2, Data
<1>4. y \in Seq(Tokens) /\ Len(y) = n /\ \A i \in 1 .. n : y[i] = ToolText(s)[i]
  <2>1. \A i \in 1 .. n : ToolText(s)[i] \in Tokens
    BY <1>1, <1>2, ElementOfSeq
  <2>2. y \in Seq(Tokens) /\ Len(y) = (IF 1 <= n THEN n - 1 + 1 ELSE 0)
        /\ \A i \in 1 .. n - 1 + 1 : y[i] = ToolText(s)[1 + i - 1]
    BY <1>2, <2>1, SubSeqProperties
  <2> QED
    BY <1>2, <2>2
<1>5. \A i \in 1 .. n : ToolText(s)[i] = Text[s][e + i]
  BY <1>1, <1>2
<1> HIDE DEF x, y
<1>6. x = y
  BY <1>3, <1>4, <1>5, SeqEqual
<1> QED
  BY <1>2, <1>6 DEF x, y

\* What the printer has of a stream is the beginning of the tool's text; and all of it
\* when the host's task has returned and nothing is on its way any more.
LEMMA InHand ==
    ASSUME Typed, Flow, NEW s \in Streams
    PROVE  \E n \in 0 .. Len(ToolText(s)) :
               /\ printed[s] \o buffers[s] = SubSeq(ToolText(s), 1, n)
               /\ task[s[1]] = "returned" /\ (\A c \in Chunks : ~Flying(c)) => n = Len(ToolText(s))
<1>1. /\ Taken(s) \in Nat /\ Len(printed[s]) \in Nat /\ Len(buffers[s]) \in Nat
      /\ At(s) \in Nat /\ pos[s] \in Nat /\ Len(Text[s]) \in Nat /\ pos[s] <= Len(Text[s])
  BY Numbers
<1>2. /\ ToolText(s) \in Seq(Tokens) /\ Len(ToolText(s)) = Len(Text[s]) - ProtocolEnd(s)
      /\ ProtocolEnd(s) \in Nat /\ ProtocolEnd(s) <= Len(Text[s])
  BY ToolTextIs
<1>3. At(s) <= pos[s] /\ Taken(s) <= At(s)
  BY <1>1 DEF Flow, PlaceInv, At
<1>4. ASSUME task[s[1]] = "returned", \A c \in Chunks : ~Flying(c)
      PROVE  At(s) = Len(Text[s])
  <2>1. Follows(s, pos[s])
    BY <1>4 DEF Flow, GapInv
  <2>2. pos[s] = Len(Text[s])
    BY <1>4, StreamParts DEF Flow, TaskInv, RemoteEnded
  <2> QED
    BY <1>4, <2>1, <2>2 DEF Follows
<1>5. CASE s[2] = "out" \/ s[1] \in stripped
  <2>1. Taken(s) = ProtocolEnd(s)
    <3>1. CASE s[2] = "out"
      BY <3>1 DEF Taken, ProtocolEnd
    <3>2. CASE s[2] # "out" /\ s[1] \in stripped
      <4>1. s[2] = "err" /\ s[1] \in Hosts /\ s = <<s[1], "err">>
        BY <3>2, StreamParts DEF Fds
      <4>2. protocol[s[1]] = ProtocolEnd(<<s[1], "err">>)
        BY <3>2, <4>1 DEF Flow, ProtocolInv
      <4> QED
        BY <4>1, <4>2 DEF Taken
    <3> QED
      BY <1>5, <3>1, <3>2
  <2>2. At(s) \in ProtocolEnd(s) .. Len(Text[s])
    BY <1>1, <1>3, <2>1
  <2>3. printed[s] \o buffers[s] = SubSeq(Text[s], ProtocolEnd(s) + 1, At(s))
    BY <2>1 DEF Flow, TextInv
  <2>4. PICK n : n = At(s) - ProtocolEnd(s)
    OBVIOUS
  <2>5. n \in 0 .. Len(ToolText(s)) /\ printed[s] \o buffers[s] = SubSeq(ToolText(s), 1, n)
    BY <2>2, <2>3, <2>4, PartOfTool
  <2> QED
    BY <1>2, <1>4, <2>4, <2>5
<1>6. CASE s[2] # "out" /\ s[1] \notin stripped
  <2>1. s[2] = "err" /\ s[1] \in Hosts /\ s = <<s[1], "err">>
    BY <1>6, StreamParts DEF Fds
  <2>2. s[1] \in Probed /\ NoNewline(Text[s], 0, protocol[s[1]]) /\ printed[s] = <<>> /\ buffers[s] = <<>>
    BY <1>6, <2>1 DEF Flow, ProtocolInv
  <2>3. Len(<<>>) = 0 /\ <<>> \o <<>> = <<>>
    BY EmptySeq, ConcatEmptySeq
  <2>4. SubSeq(ToolText(s), 1, 0) = <<>>
    BY SubSeqEmpty
  <2>5. At(s) = protocol[s[1]]
    BY <1>1, <2>1, <2>2, <2>3 DEF At, Taken
  <2>6. ASSUME task[s[1]] = "returned", \A c \in Chunks : ~Flying(c)
        PROVE  Len(ToolText(s)) = 0
    <3>1. NoNewline(Text[s], 0, Len(Text[s]))
      BY <1>4, <2>2, <2>5, <2>6
    <3>2. ProtocolEnd(s) = Len(Text[s])
      BY <2>1, <2>2, <3>1 DEF ProtocolEnd
    <3> QED
      BY <1>2, <3>2
  <2>7. 0 \in 0 .. Len(ToolText(s)) /\ printed[s] \o buffers[s] = SubSeq(ToolText(s), 1, 0)
    BY <1>1, <1>2, <2>2, <2>3, <2>4
  <2> QED
    BY <2>6, <2>7
<1> QED
  BY <1>5, <1>6

\* The first part of the beginning of a text is a beginning of it.
LEMMA FirstPart ==
    ASSUME NEW t \in Seq(Tokens), NEW p \in Seq(Tokens), NEW b \in Seq(Tokens),
           NEW n \in 0 .. Len(t), p \o b = SubSeq(t, 1, n)
    PROVE  Len(p) \in 0 .. Len(t) /\ p = SubSeq(t, 1, Len(p))
<1>1. Len(t) \in Nat /\ Len(p) \in Nat /\ Len(b) \in Nat /\ n \in Nat /\ n <= Len(t)
  BY LenProperties
<1>2. /\ Len(p \o b) = Len(p) + Len(b)
      /\ \A i \in 1 .. Len(p) + Len(b) : (p \o b)[i] = IF i <= Len(p) THEN p[i] ELSE b[i - Len(p)]
  BY ConcatProperties
<1>3. \A m \in 0 .. Len(t) : /\ SubSeq(t, 1, m) \in Seq(Tokens) /\ Len(SubSeq(t, 1, m)) = m
                             /\ \A i \in 1 .. m : SubSeq(t, 1, m)[i] = t[i]
  <2> SUFFICES ASSUME NEW m \in 0 .. Len(t)
               PROVE  /\ SubSeq(t, 1, m) \in Seq(Tokens) /\ Len(SubSeq(t, 1, m)) = m
                      /\ \A i \in 1 .. m : SubSeq(t, 1, m)[i] = t[i]
    OBVIOUS
  <2>1. m \in Nat /\ m <= Len(t) /\ \A i \in 1 .. m : t[i] \in Tokens
    BY <1>1, ElementOfSeq
  <2>2. /\ SubSeq(t, 1, m) \in Seq(Tokens) /\ Len(SubSeq(t, 1, m)) = (IF 1 <= m THEN m - 1 + 1 ELSE 0)
        /\ \A i \in 1 .. m - 1 + 1 : SubSeq(t, 1, m)[i] = t[1 + i - 1]
    BY <2>1, SubSeqProperties
  <2> QED
    BY <2>1, <2>2
<1>4. Len(p) + Len(b) = n
  BY <1>2, <1>3
<1>5. Len(p) \in 0 .. Len(t) /\ Len(p) <= n
  BY <1>1, <1>4
<1>6. ASSUME NEW i \in 1 .. Len(p) PROVE p[i] = t[i]
  <2>1. i \in 1 .. n /\ i \in 1 .. Len(p) + Len(b) /\ i <= Len(p)
    BY <1>1, <1>4
  <2>2. (p \o b)[i] = p[i]
    BY <1>2, <2>1
  <2>3. SubSeq(t, 1, n)[i] = t[i]
    BY <1>3, <2>1
  <2> QED
    BY <2>2, <2>3
<1> DEFINE q == SubSeq(t, 1, Len(p))
<1>7. q \in Seq(Tokens) /\ Len(q) = Len(p) /\ \A i \in 1 .. Len(p) : q[i] = t[i]
  BY <1>3, <1>5
<1> HIDE DEF q
<1>8. p = q
  BY <1>6, <1>7, SeqEqual
<1> QED
  BY <1>5, <1>8 DEF q

\* Lines followed by an incomplete one, closed.
LEMMA CloseLast ==
    ASSUME NEW p \in Seq(Tokens), NEW b \in Seq(Tokens),
           p = <<>> \/ p[Len(p)] = "nl", NoNewline(b, 0, Len(b))
    PROVE  p \o Closed(b) = Closed(p \o b)
<1>1. Len(p) \in Nat /\ Len(b) \in Nat /\ "nl" \in Tokens
  BY LenProperties, OutputAssumption
<1>2. CASE b = <<>>
  <2>1. Closed(b) = <<>> /\ p \o <<>> = p
    BY <1>2, ConcatEmptySeq DEF Closed
  <2> QED
    BY <1>2, <2>1 DEF Closed
<1>3. CASE b # <<>>
  <2>1. Len(b) \in Nat \ {0}
    BY <1>3, EmptySeq
  <2>2. b[Len(b)] # "nl"
    BY <2>1 DEF NoNewline
  <2>3. Closed(b) = Append(b, "nl")
    BY <1>3, <2>2 DEF Closed
  <2>4. /\ p \o b \in Seq(Tokens) /\ Len(p \o b) = Len(p) + Len(b)
        /\ \A i \in 1 .. Len(p) + Len(b) : (p \o b)[i] = IF i <= Len(p) THEN p[i] ELSE b[i - Len(p)]
    BY ConcatProperties
  <2>5. (p \o b)[Len(p \o b)] = b[Len(b)]
    <3>1. PICK x : x = Len(p)
      OBVIOUS
    <3>2. PICK y : y = Len(b)
      OBVIOUS
    <3>3. x \in Nat /\ y \in Nat \ {0} /\ x + y \in 1 .. x + y /\ ~(x + y <= x) /\ x + y - x = y
      BY <1>1, <2>1, <3>1, <3>2
    <3> QED
      BY <2>4, <3>1, <3>2, <3>3
  <2>6. p \o b # <<>>
    BY <1>3, ConcatEqualIffEmpty
  <2>7. Closed(p \o b) = Append(p \o b, "nl")
    BY <2>2, <2>5, <2>6 DEF Closed
  <2>8. p \o Append(b, "nl") = Append(p \o b, "nl")
    <3>1. <<"nl">> \in Seq(Tokens)
      BY <1>1
    <3>2. Append(b, "nl") = b \o <<"nl">> /\ Append(p \o b, "nl") = (p \o b) \o <<"nl">>
      BY <1>1, <2>4, AppendIsConcat
    <3>3. (p \o b) \o <<"nl">> = p \o (b \o <<"nl">>)
      BY <3>1, Associates
    <3> QED
      BY <3>2, <3>3
  <2> QED
    BY <2>3, <2>7, <2>8
<1> QED
  BY <1>2, <1>3

LEMMA OpenIsWhole ==
    ASSUME Typed, Flow
    PROVE  LinesAreWhole
<1> SUFFICES ASSUME NEW s \in Streams
             PROVE  \E n \in 0 .. Len(ToolText(s)) :
                        LET part == SubSeq(ToolText(s), 1, n) IN
                        printed[s] = Closed(part) /\ (printed[s] = part \/ printer = "closed")
  BY DEF LinesAreWhole
<1>1. PICK n \in 0 .. Len(ToolText(s)) : printed[s] \o buffers[s] = SubSeq(ToolText(s), 1, n)
  BY InHand
<1>2. printed[s] \in Seq(Tokens) /\ buffers[s] \in Seq(Tokens) /\ ToolText(s) \in Seq(Tokens)
  BY Numbers, ToolTextIs
<1>3. Len(printed[s]) \in 0 .. Len(ToolText(s)) /\ printed[s] = SubSeq(ToolText(s), 1, Len(printed[s]))
  BY <1>1, <1>2, FirstPart
<1>4. printed[s] = Closed(printed[s])
  BY DEF Flow, TextInv, Closed
<1> QED
  BY <1>3, <1>4

\* The printer ends when every chunk has come through or is lost with its task.
LEMMA OverPrinterEnds ==
    ASSUME Typed, Flow, PrinterEnds
    PROVE  Over'
<1>1. /\ Senders = {} /\ output = <<>> /\ task' = task /\ output' = output
      /\ printed' = [s \in Streams |-> printed[s] \o Closed(buffers[s])]
  BY DEF PrinterEnds, hostVars
<1>2. \A h \in Hosts : task[h] \in {"returned", "failed"}
  BY <1>1 DEF Senders, Typed, TypeOK
<1>3. \A c \in Chunks : ~Flying(c)
  <2> SUFFICES ASSUME NEW c \in Chunks PROVE ~Flying(c)
    OBVIOUS
  <2>1. c.of \in Streams /\ c.of[1] \in Hosts /\ c.of[2] \in Fds /\ c.of = <<c.of[1], c.of[2]>>
    BY ChunkParts, StreamParts
  <2>2. Drained(c.of[1]) /\ raw[c.of[1]] = <<>>
    BY <1>2, <2>1 DEF Flow, TaskInv
  <2>3. chan[<<c.of[1], c.of[2]>>] = <<>>
    BY <2>1, <2>2 DEF Drained
  <2>4. chan[c.of] = <<>>
    BY <2>1, <2>3
  <2> QED
    BY <1>1, <2>2, <2>4, EmptyIn DEF Flying, InOutput, InRaw, InChan
<1>4. ASSUME NEW s \in Streams
      PROVE  /\ \E n \in 0 .. Len(ToolText(s)) : printed'[s] = Closed(SubSeq(ToolText(s), 1, n))
             /\ task[s[1]] = "returned" => printed'[s] = Closed(ToolText(s))
  <2>1. PICK n \in 0 .. Len(ToolText(s)) :
            /\ printed[s] \o buffers[s] = SubSeq(ToolText(s), 1, n)
            /\ task[s[1]] = "returned" => n = Len(ToolText(s))
    BY <1>3, InHand
  <2>2. printed[s] \in Seq(Tokens) /\ buffers[s] \in Seq(Tokens) /\ ToolText(s) \in Seq(Tokens)
    BY Numbers, ToolTextIs
  <2>3. /\ printed[s] = <<>> \/ printed[s][Len(printed[s])] = "nl"
        /\ NoNewline(buffers[s], 0, Len(buffers[s]))
    BY DEF Flow, TextInv
  <2>4. printed[s] \o Closed(buffers[s]) = Closed(printed[s] \o buffers[s])
    BY <2>2, <2>3, CloseLast
  <2>5. printed'[s] = Closed(SubSeq(ToolText(s), 1, n))
    BY <1>1, <2>1, <2>4
  <2>6. SubSeq(ToolText(s), 1, Len(ToolText(s))) = ToolText(s)
    BY <2>2, SubSeqFull
  <2> QED
    BY <2>1, <2>5, <2>6
<1>5. Senders' = {}
  BY <1>1 DEF Senders
<1> QED
  BY <1>1, <1>4, <1>5 DEF Over, Shows

-----------------------------------------------------------------------------
(* The theorems.                                                           *)

\* While the printer is open the chunks are on their way; when it has closed, only the
\* summary can still happen.
LEMMA OutputStep ==
    ASSUME Typed, OutputInv, [Next]_vars
    PROVE  Typed' /\ OutputInv'
<1>1. CASE UNCHANGED vars
  <2>1. Typed'
    BY <1>1, TypedRest
  <2>2. OutputInv'
    BY <1>1 DEF vars, hostVars, printerVars, OutputInv, Flow, PlaceInv, OrderInv, GapInv, TextInv,
        ProtocolInv, TaskInv, Follows, Flying, InOutput, InRaw, InChan, At, Taken, RemoteEnded, Drained,
        Over, Senders, Shows
  <2> QED
    BY <2>1, <2>2
<1>2. ASSUME NEW h \in Hosts, Stream(h) \/ Fails(h) PROVE Typed' /\ OutputInv'
  <2>1. task[h] \in {"streaming", "draining"} /\ printer' = printer /\ summary' = summary
    BY <1>2 DEF Stream, Forward, Receive, Ends, Relay, Returns, Fails, Leaves, printerVars
  <2>2. Flow /\ printer = "open" /\ ~summary
    BY <2>1 DEF OutputInv, Over, Senders, Typed, TypeOK
  <2>3. Typed' /\ Flow'
    BY <1>2, <2>2, TypedForward, TypedReceive, TypedRelay, TypedLeaves, TypedRest,
       FlowForward, FlowReceive, FlowEnds, FlowRelay, FlowLeaves DEF Stream
  <2> QED
    BY <2>1, <2>2, <2>3 DEF OutputInv
<1>3. CASE PrintChunk
  <2>1. output # <<>> /\ printer' = printer /\ summary' = summary
    BY <1>3 DEF PrintChunk
  <2>2. Flow /\ printer = "open" /\ ~summary
    BY <2>1 DEF OutputInv, Over, Typed, TypeOK
  <2>3. \A c \in Chunks : InOutput(c) => c.to <= pos[c.of]
    BY <2>2 DEF Flow, PlaceInv, Flying
  <2>4. Typed' /\ Flow'
    BY <1>3, <2>2, <2>3, TypedPrint, FlowPrint
  <2> QED
    BY <2>1, <2>2, <2>4 DEF OutputInv
<1>4. CASE PrinterEnds
  <2>1. Flow /\ ~summary /\ printer' = "closed" /\ summary' = summary
    BY <1>4 DEF PrinterEnds, OutputInv, Typed, TypeOK
  <2> QED
    BY <1>4, <2>1, TypedRest, OverPrinterEnds DEF OutputInv
<1>5. CASE Summarize
  <2>1. printer = "closed" /\ UNCHANGED <<hostVars, output, printerVars>>
    BY <1>5 DEF Summarize
  <2>2. Over'
    BY <2>1 DEF OutputInv, Over, Senders, Shows, hostVars, printerVars
  <2> QED
    BY <1>5, <2>1, <2>2, TypedRest DEF OutputInv, printerVars
<1> QED
  BY <1>1, <1>2, <1>3, <1>4, <1>5 DEF Next

LEMMA OutputInvariant == Spec => [](Typed /\ OutputInv)
<1>1. Init => Typed /\ OutputInv
  BY TypedInit, FlowInit DEF OutputInv, Init
<1>2. (Typed /\ OutputInv) /\ [Next]_vars => (Typed /\ OutputInv)'
  BY OutputStep
<1> QED
  BY <1>1, <1>2, PTL DEF Spec

\* Every variable keeps its type: the bounded channels of execute_stream hold at most Cap
\* chunks, and a chunk is never empty.
THEOREM OutputTypeCorrect == Spec => []TypeOK
<1>1. Typed => TypeOK
  BY DEF Typed
<1> QED
  BY <1>1, OutputInvariant, PTL

\* What print_fleet_stream has printed for a stream is always the beginning of what the
\* tool wrote to it, in complete lines, in the order in which it was written, whatever
\* other hosts print between them.
THEOREM LinesAlwaysWhole == Spec => []LinesAreWhole
<1>1. ASSUME Typed, OutputInv PROVE LinesAreWhole
  <2>1. CASE printer = "open"
    BY <1>1, <2>1, OpenIsWhole DEF OutputInv
  <2>2. CASE printer = "closed"
    BY <1>1, <2>2 DEF OutputInv, Over, Shows, LinesAreWhole
  <2> QED
    BY <1>1, <2>1, <2>2 DEF Typed, TypeOK
<1> QED
  BY <1>1, OutputInvariant, PTL

\* When the summary line is out, everything a host that returned wrote has been printed.
THEOREM NothingEverLost == Spec => []NothingIsLost
<1>1. Typed /\ OutputInv => NothingIsLost
  BY DEF OutputInv, Over, NothingIsLost
<1> QED
  BY <1>1, OutputInvariant, PTL
=============================================================================
