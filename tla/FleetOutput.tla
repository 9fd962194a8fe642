---------------------------- MODULE FleetOutput ----------------------------
(***************************************************************************)
(* The output of a fleet run that is not --json: from the SSH channels of  *)
(* the hosts to the terminal.  Per host, execute_stream takes the data     *)
(* messages of two bounded channels (stdout and stderr) in whatever order  *)
(* select! finds them, the probe's reader strips the protocol line that    *)
(* the bootstrap script puts before the tool's stderr, and one printer     *)
(* task shared by all hosts reassembles lines.  The main task prints the   *)
(* summary when all host tasks are joined and the printer has ended.       *)
(*                                                                         *)
(* A text is a sequence of tokens, "nl" being the newline; how it is cut   *)
(* into SSH messages is up to the network.  A chunk is on its way as the   *)
(* place of its tokens in the text of its stream.  A host that reported    *)
(* `hit` is in Probed; one that reported `miss` is seen from its second    *)
(* execution on, whose stderr starts with no protocol line.                *)
(***************************************************************************)
EXTENDS Integers, Sequences

CONSTANTS
    Hosts,
    Tokens,
    Probed,       \* hosts whose stderr starts with the protocol line
    Text,         \* what each host writes to each of its streams
    Cap,          \* capacity of the channels out of the SSH library (8)
    MaxMessage,   \* bound on the tokens of one SSH message
    MayBeLost     \* hosts whose connection may break

Fds == {"out", "err"}
Streams == Hosts \X Fds

ASSUME OutputAssumption ==
    /\ Probed \subseteq Hosts
    /\ MayBeLost \subseteq Hosts
    /\ "nl" \in Tokens
    /\ Text \in [Streams -> Seq(Tokens)]
    /\ Cap \in Nat \ {0}
    /\ MaxMessage \in Nat \ {0}

VARIABLES
    pos,       \* tokens of each stream received from the network
    chan,      \* the bounded channels: chunks per stream
    raw,       \* per host, the chunks execute_stream has passed on
    task,      \* each host's task: "streaming", "draining", "returned", "failed"
    protocol,  \* per host, how much of stderr was taken for the protocol line
    stripped,  \* hosts whose protocol line is complete
    output,    \* the unbounded channel into the printer
    buffers,   \* the printer's incomplete line of each stream
    printed,   \* what was printed for each stream, the newlines included
    printer,   \* "open" or "closed"
    summary    \* whether the summary line is out

hostVars == <<pos, chan, raw, task, protocol, stripped>>
printerVars == <<buffers, printed, printer>>
vars == <<hostVars, output, printerVars, summary>>

\* The tokens from + 1 .. to of the text of a stream.
Chunks == {c \in [of : Streams, from : Nat, to : Nat] : c.from < c.to}

TypeOK ==
    /\ pos \in [Streams -> Nat]
    /\ chan \in [Streams -> Seq(Chunks)]
    /\ \A s \in Streams : Len(chan[s]) <= Cap
    /\ raw \in [Hosts -> Seq(Chunks)]
    /\ task \in [Hosts -> {"streaming", "draining", "returned", "failed"}]
    /\ protocol \in [Hosts -> Nat]
    /\ stripped \subseteq Hosts
    /\ output \in Seq(Chunks)
    /\ buffers \in [Streams -> Seq(Tokens)]
    /\ printed \in [Streams -> Seq(Tokens)]
    /\ printer \in {"open", "closed"}
    /\ summary \in BOOLEAN

Init ==
    /\ pos = [s \in Streams |-> 0]
    /\ chan = [s \in Streams |-> <<>>]
    /\ raw = [h \in Hosts |-> <<>>]
    /\ task = [h \in Hosts |-> "streaming"]
    /\ protocol = [h \in Hosts |-> 0]
    /\ stripped = Hosts \ Probed
    /\ output = <<>>
    /\ buffers = [s \in Streams |-> <<>>]
    /\ printed = [s \in Streams |-> <<>>]
    /\ printer = "open"
    /\ summary = FALSE

NoNewline(text, from, to) == \A i \in from + 1 .. to : text[i] # "nl"

----------------------------------------------------------------------------
(* A host's task.                                                          *)

\* A data message of n tokens goes into the bounded channel; when it is full
\* the SSH library waits, and the network with it.
Receive(h, fd, n) ==
    LET s == <<h, fd>> IN
    /\ task[h] = "streaming"
    /\ pos[s] + n <= Len(Text[s])
    /\ Len(chan[s]) < Cap
    /\ pos' = [pos EXCEPT ![s] = @ + n]
    /\ chan' = [chan EXCEPT ![s] = Append(@, [of |-> s, from |-> pos[s], to |-> pos[s] + n])]
    /\ UNCHANGED <<raw, task, protocol, stripped, output, printerVars, summary>>

RemoteEnded(h) == \A fd \in Fds : pos[<<h, fd>>] = Len(Text[<<h, fd>>])

\* The execution is over; what is left is drained before its status is returned.
Ends(h) ==
    /\ task[h] = "streaming"
    /\ RemoteEnded(h)
    /\ task' = [task EXCEPT ![h] = "draining"]
    /\ UNCHANGED <<pos, chan, raw, protocol, stripped, output, printerVars, summary>>

\* One arm of the select! of execute_stream, or a turn of one of its two last
\* loops, stdout first.
Forward(h, fd) ==
    LET s == <<h, fd>> IN
    /\ task[h] = "streaming" \/ (task[h] = "draining" /\ (fd = "out" \/ chan[<<h, "out">>] = <<>>))
    /\ chan[s] # <<>>
    /\ raw' = [raw EXCEPT ![h] = Append(@, Head(chan[s]))]
    /\ chan' = [chan EXCEPT ![s] = Tail(@)]
    /\ UNCHANGED <<pos, task, protocol, stripped, output, printerVars, summary>>

\* consume_probe_chunk: stderr up to the first newline is the protocol line; the
\* remainder of that chunk, if any, and all other chunks go to the printer.
Consume(h, chunk) ==
    \/ /\ chunk.of[2] = "out" \/ h \in stripped
       /\ output' = Append(output, chunk)
       /\ UNCHANGED <<protocol, stripped>>
    \/ /\ chunk.of[2] = "err" /\ h \notin stripped
       /\ NoNewline(Text[chunk.of], chunk.from, chunk.to)
       /\ protocol' = [protocol EXCEPT ![h] = @ + (chunk.to - chunk.from)]
       /\ UNCHANGED <<stripped, output>>
    \/ /\ chunk.of[2] = "err" /\ h \notin stripped
       /\ \E cut \in chunk.from + 1 .. chunk.to :
            /\ Text[chunk.of][cut] = "nl"
            /\ NoNewline(Text[chunk.of], chunk.from, cut - 1)
            /\ protocol' = [protocol EXCEPT ![h] = @ + (cut - chunk.from)]
            /\ output' = IF cut = chunk.to THEN output
                         ELSE Append(output, [chunk EXCEPT !.from = cut])
       /\ stripped' = stripped \cup {h}

Drained(h) == \A fd \in Fds : chan[<<h, fd>>] = <<>>

\* One arm of the select! of stream_probe_fresh or stream_plain_fresh, or a turn
\* of its last loop, when execute_stream has returned.
Relay(h) ==
    /\ task[h] = "streaming" \/ (task[h] = "draining" /\ Drained(h))
    /\ raw[h] # <<>>
    /\ Consume(h, Head(raw[h]))
    /\ raw' = [raw EXCEPT ![h] = Tail(@)]
    /\ UNCHANGED <<pos, chan, task, printerVars, summary>>

\* The chunks a task that is over leaves in its channels go with them.
Leaves(h) ==
    /\ raw' = [raw EXCEPT ![h] = <<>>]
    /\ chan' = [s \in Streams |-> IF s[1] = h THEN <<>> ELSE chan[s]]
    /\ UNCHANGED <<pos, protocol, stripped, output, printerVars, summary>>

\* Wrong variant: the exit status is returned without a last look at the channels.
ReturnsWithoutDraining(h) ==
    /\ task[h] = "draining"
    /\ task' = [task EXCEPT ![h] = "returned"]
    /\ Leaves(h)

Returns(h) ==
    /\ task[h] = "draining"
    /\ Drained(h) /\ raw[h] = <<>>
    /\ task' = [task EXCEPT ![h] = "returned"]
    /\ Leaves(h)

\* The connection breaks: the error is returned at once, and what is still in
\* the channels is lost.
Fails(h) ==
    /\ h \in MayBeLost
    /\ task[h] = "streaming"
    /\ task' = [task EXCEPT ![h] = "failed"]
    /\ Leaves(h)

----------------------------------------------------------------------------
(* print_fleet_stream.                                                     *)

\* Wrong variant: one buffer per host.
BufferOfHost(s) == <<s[1], "out">>

\* let key = (chunk.host, chunk.stderr)
Buffer(s) == s

\* Complete lines are printed, what follows the last newline stays in the buffer.
PrintChunk ==
    /\ output # <<>>
    /\ LET chunk == Head(output)
           s == Buffer(chunk.of)
           text == buffers[s] \o SubSeq(Text[chunk.of], chunk.from + 1, chunk.to) IN
       \E cut \in 0 .. Len(text) :
            /\ cut # 0 => text[cut] = "nl"
            /\ NoNewline(text, cut, Len(text))
            /\ printed' = [printed EXCEPT ![chunk.of] = @ \o SubSeq(text, 1, cut)]
            /\ buffers' = [buffers EXCEPT ![s] = SubSeq(text, cut + 1, Len(text))]
    /\ output' = Tail(output)
    /\ UNCHANGED <<hostVars, printer, summary>>

\* Wrong variant: the main task keeps its own sender.
SendersWithMain == Hosts

\* Host tasks that hold a sender; the main task drops its own after spawning.
Senders == {h \in Hosts : task[h] \in {"streaming", "draining"}}

\* A text that is printed as lines ends with a newline.
Closed(text) == IF text = <<>> \/ text[Len(text)] = "nl" THEN text ELSE Append(text, "nl")

\* recv returns None: what is left in the buffers is printed.
PrinterEnds ==
    /\ printer = "open"
    /\ Senders = {}
    /\ output = <<>>
    /\ printed' = [s \in Streams |-> printed[s] \o Closed(buffers[s])]
    /\ buffers' = [s \in Streams |-> <<>>]
    /\ printer' = "closed"
    /\ UNCHANGED <<hostVars, output, summary>>

\* All tasks joined and the printer awaited.
Summarize ==
    /\ ~summary
    /\ \A h \in Hosts : task[h] \in {"returned", "failed"}
    /\ printer = "closed"
    /\ summary' = TRUE
    /\ UNCHANGED <<hostVars, output, printerVars>>

----------------------------------------------------------------------------
Stream(h) ==
    \/ \E fd \in Fds : Forward(h, fd) \/ \E n \in 1..MaxMessage : Receive(h, fd, n)
    \/ Ends(h) \/ Relay(h) \/ Returns(h)

Next ==
    \/ \E h \in Hosts : Stream(h) \/ Fails(h)
    \/ PrintChunk \/ PrinterEnds \/ Summarize

Spec == Init /\ [][Next]_vars

\* Tasks that can run are polled, and hosts that have something to say say it.
FairSpec ==
    /\ Spec
    /\ \A h \in Hosts : WF_vars(Stream(h))
    /\ WF_vars(PrintChunk) /\ WF_vars(PrinterEnds) /\ WF_vars(Summarize)

----------------------------------------------------------------------------
(* Properties.                                                             *)

\* Where the protocol line ends: a stderr without a newline is all protocol.
ProtocolEnd(s) ==
    LET text == Text[s] IN
    IF s[1] \notin Probed \/ s[2] = "out" THEN 0
    ELSE IF NoNewline(text, 0, Len(text)) THEN Len(text)
    ELSE CHOOSE i \in 1 .. Len(text) : text[i] = "nl" /\ NoNewline(text, 0, i - 1)

\* What the tool itself wrote: the text without the protocol line.
ToolText(s) == SubSeq(Text[s], ProtocolEnd(s) + 1, Len(Text[s]))

\* Whatever the sizes of the messages and the interleaving of the hosts, the lines
\* printed for a stream are the first lines the tool wrote to it: none mixes
\* partial lines of two streams, none is cut before the stream is over.
LinesAreWhole ==
    \A s \in Streams : \E n \in 0 .. Len(ToolText(s)) :
        LET part == SubSeq(ToolText(s), 1, n) IN
        printed[s] = Closed(part) /\ (printed[s] = part \/ printer = "closed")

\* When the summary is printed, everything a host wrote has been printed before
\* it, unless its connection broke.
NothingIsLost ==
    summary => \A s \in Streams : task[s[1]] = "returned" => printed[s] = Closed(ToolText(s))

\* The bounded channels and the shared printer never wait for each other.
SummaryIsPrinted == <>summary
=============================================================================
