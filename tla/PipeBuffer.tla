----------------------------- MODULE PipeBuffer -----------------------------
(* JsPipeBuffer and drainBuffer (src/packages/kernel/src/pipe/PipeBuffer.ts) *)
(* on the JavaScript event loop.                                             *)
(*                                                                           *)
(* A call that arrives from a worker, from the terminal or from the kernel   *)
(* starts as a macrotask and runs without interruption until it returns or   *)
(* awaits.  Resolving or rejecting a waiter's promise does not run it: it    *)
(* appends a job to the microtask queue, `jobs`.  The queue is first-in      *)
(* first-out and is run dry before the next macrotask starts, so a macrotask *)
(* is guarded by jobs = << >>.                                               *)
EXTENDS Integers, Sequences, SequencesExt

CONSTANTS
    Writers,      \* callers of write(), each with at most one call in flight
    Guests,       \* processes calling read() through fd_read
    Drainers,     \* drainBuffer loops
    Capacity,     \* capacity of the pipe in bytes
    WriteSizes,   \* lengths a caller passes to write()
    ReadSizes,    \* lengths of the buffer a guest passes to read()
    DrainSize,    \* length of drainBuffer's tmp buffer (4096 in the code)
    MaxCalls      \* bound on the number of write() calls

Readers == Guests \union Drainers

ASSUME PipeAssumption ==
    /\ Capacity \in Nat \ {0}
    /\ WriteSizes \subseteq Nat
    /\ ReadSizes \subseteq Nat
    /\ DrainSize \in Nat \ {0}
    /\ MaxCalls \in Nat
    /\ Guests \intersect Drainers = {}

VARIABLES
    chunks,         \* this.chunks, flattened: the boundaries are invisible to readers
    size,           \* this.size
    closed,         \* this.closed
    readerWaiters,  \* this.readerWaiters
    writerWaiters,  \* this.writerWaiters
    jobs,           \* the microtask queue
    writer,         \* the frame of each writer's write(): busy, call, len, written, result
    reader,         \* the frame of each reader's read(): started, busy, want, eof
    calls,          \* number of write() calls so far; names the calls in order
    accepted,       \* history: every byte write() has put in the pipe
    delivered       \* history: every byte read() has returned

vars == <<chunks, size, closed, readerWaiters, writerWaiters, jobs,
          writer, reader, calls, accepted, delivered>>

\* A byte is named by the call that wrote it and its place in that call.
Byte == Nat \X Nat

Lesser(a, b) == IF a < b THEN a ELSE b

(* The pipe's small steps, each with the variants (slips such code invites)  *)
(* that the checks use to show that the properties notice them.              *)

\* The jobs that resolving (or rejecting) each waiter in turn appends.
WokenFirst(waiters, op) == IF waiters = << >> THEN << >> ELSE << [op |-> op, who |-> Head(waiters)] >>
WokenBackwards(waiters, op) == [i \in 1..Len(waiters) |-> [op |-> op, who |-> Reverse(waiters)[i]]]
Woken(waiters, op) == [i \in 1..Len(waiters) |-> [op |-> op, who |-> waiters[i]]]

\* splice(0): the waiters are taken out of the list.
Sliced(waiters) == waiters
Spliced(waiters) == << >>

\* A write goes on only while the pipe is open.
Open == ~closed

SpaceOffByOne == Capacity - size + 1
Space == Capacity - size

\* The next `take` bytes of a write, bytes.slice(written, written + take).
SliceFromStart(frame, take) == [i \in 1..take |-> <<frame.call, i>>]
Slice(frame, take) == [i \in 1..take |-> <<frame.call, frame.written + i>>]

\* read() returns 0 on an empty closed pipe only.
AtEndEarly == closed
AtEnd == size = 0 /\ closed

\* copyOut takes `take` bytes off the chunks and off the counter.
RemainingSkipsOne(take) == IF Len(chunks) > take THEN SubSeq(chunks, take + 2, Len(chunks)) ELSE << >>
Remaining(take) == SubSeq(chunks, take + 1, Len(chunks))

SizeAfter(want, take) == size - take

Init ==
    /\ chunks = << >>
    /\ size = 0
    /\ closed = FALSE
    /\ readerWaiters = << >>
    /\ writerWaiters = << >>
    /\ jobs = << >>
    /\ writer = [w \in Writers |->
                    [busy |-> FALSE, call |-> 0, len |-> 0, written |-> 0, result |-> "none"]]
    /\ reader = [r \in Readers |->
                    [started |-> FALSE, busy |-> FALSE, want |-> 0, eof |-> FALSE]]
    /\ calls = 0
    /\ accepted = << >>
    /\ delivered = << >>

-----------------------------------------------------------------------------
(* write().  WriteLoop is the while loop from where it stands, run until it  *)
(* throws, returns or awaits; `rest` is the microtask queue while it runs.   *)
(* A loop that does not finish fills the pipe: its second round finds no     *)
(* space.                                                                    *)

WriteThrows(w, frame, rest) ==
    /\ closed
    /\ writer' = [writer EXCEPT ![w] = [frame EXCEPT !.busy = FALSE, !.result = "EPIPE"]]
    /\ jobs' = rest
    /\ UNCHANGED <<chunks, size, readerWaiters, writerWaiters, accepted>>

\* Lines 45-57: take what fits, wake every reader, and wait for more space.
WriteFills(w, frame, rest) ==
    LET take == Lesser(Space, frame.len - frame.written)
        new  == Slice(frame, take)
        done == frame.written + take
    IN  /\ Open
        /\ chunks' = chunks \o new
        /\ accepted' = accepted \o new
        /\ size' = size + take
        /\ jobs' = IF take > 0 THEN rest \o Woken(readerWaiters, "read") ELSE rest
        /\ readerWaiters' = IF take > 0 THEN Spliced(readerWaiters) ELSE readerWaiters
        /\ IF done < frame.len
           THEN /\ writerWaiters' = Append(writerWaiters, w)
                /\ writer' = [writer EXCEPT ![w] = [frame EXCEPT !.written = done]]
           ELSE /\ writer' = [writer EXCEPT ![w] =
                                 [frame EXCEPT !.busy = FALSE, !.written = done, !.result = "ok"]]
                /\ UNCHANGED writerWaiters

WriteLoop(w, frame, rest) ==
    /\ \/ WriteThrows(w, frame, rest)
       \/ WriteFills(w, frame, rest)
    /\ UNCHANGED <<closed, reader, delivered>>

\* An empty write returns 0 before it looks at the pipe, closed or not.
WriteCall(w, n) ==
    /\ jobs = << >>
    /\ ~writer[w].busy
    /\ calls < MaxCalls
    /\ calls' = calls + 1
    /\ IF n = 0
       THEN UNCHANGED <<chunks, size, closed, readerWaiters, writerWaiters, jobs,
                        writer, reader, accepted, delivered>>
       ELSE WriteLoop(w, [busy |-> TRUE, call |-> calls + 1, len |-> n,
                          written |-> 0, result |-> "none"], jobs)

\* The continuation of `await new Promise` in write(): resolved, go round again.
WriteResumes(w) ==
    /\ jobs # << >>
    /\ Head(jobs) = [op |-> "write", who |-> w]
    /\ WriteLoop(w, writer[w], Tail(jobs))
    /\ UNCHANGED calls

\* The same continuation, rejected by closeWrite(): the exception leaves write().
WriteRejected(w) ==
    /\ jobs # << >>
    /\ Head(jobs) = [op |-> "reject", who |-> w]
    /\ jobs' = Tail(jobs)
    /\ writer' = [writer EXCEPT ![w].busy = FALSE, ![w].result = "EPIPE"]
    /\ UNCHANGED <<chunks, size, closed, readerWaiters, writerWaiters,
                   reader, calls, accepted, delivered>>

-----------------------------------------------------------------------------
(* read().  ReadLoop is the body from line 63 on.                            *)

ReadEnds(r, frame, rest) ==
    /\ AtEnd
    /\ reader' = [reader EXCEPT ![r] = [frame EXCEPT !.busy = FALSE, !.eof = TRUE]]
    /\ jobs' = rest
    /\ UNCHANGED <<chunks, size, readerWaiters, writerWaiters, delivered>>

ReadWaits(r, frame, rest) ==
    /\ size = 0
    /\ ~closed
    /\ reader' = [reader EXCEPT ![r] = frame]
    /\ readerWaiters' = Append(readerWaiters, r)
    /\ jobs' = rest
    /\ UNCHANGED <<chunks, size, writerWaiters, delivered>>

\* copyOut, then the return.  drainBuffer's `await buffer.read(tmp)` continues
\* in a job of its own, queued behind the writers that copyOut woke.
CopyOut(r, frame, rest) ==
    LET take == Lesser(frame.want, Len(chunks))
    IN  /\ size # 0
        /\ delivered' = delivered \o SubSeq(chunks, 1, take)
        /\ chunks' = Remaining(take)
        /\ size' = SizeAfter(frame.want, take)
        /\ writerWaiters' = Spliced(writerWaiters)
        /\ jobs' = rest \o Woken(writerWaiters, "write")
                        \o (IF r \in Drainers THEN << [op |-> "drain", who |-> r] >> ELSE << >>)
        /\ reader' = [reader EXCEPT ![r] = [frame EXCEPT !.busy = FALSE]]
        /\ UNCHANGED readerWaiters

ReadLoop(r, frame, rest) ==
    /\ \/ ReadEnds(r, frame, rest)
       \/ ReadWaits(r, frame, rest)
       \/ CopyOut(r, frame, rest)
    /\ UNCHANGED <<closed, writer, calls, accepted>>

Frame(r, n) == [started |-> TRUE, busy |-> TRUE, want |-> n, eof |-> reader[r].eof]

\* A guest's fd_read.  An empty buffer is answered 0 at once (line 62).
ReadCall(r, n) ==
    /\ jobs = << >>
    /\ ~reader[r].busy
    /\ n # 0
    /\ ReadLoop(r, Frame(r, n), jobs)

\* The kernel attaches a drain to a pipe once.
DrainStarts(r) ==
    /\ jobs = << >>
    /\ ~reader[r].started
    /\ ReadLoop(r, Frame(r, DrainSize), jobs)

\* drainBuffer's loop calls read() again, in the job its last read() resolved.
DrainContinues(r) ==
    /\ jobs # << >>
    /\ Head(jobs) = [op |-> "drain", who |-> r]
    /\ ReadLoop(r, Frame(r, DrainSize), Tail(jobs))

\* The continuation of `await new Promise` in read(): back to `while (size === 0)`.
ReadResumes(r) ==
    /\ jobs # << >>
    /\ Head(jobs) = [op |-> "read", who |-> r]
    /\ ReadLoop(r, reader[r], Tail(jobs))

-----------------------------------------------------------------------------
\* closeWrite(): rejects every blocked writer, wakes every blocked reader.
CloseWrite ==
    /\ jobs = << >>
    /\ ~closed
    /\ closed' = TRUE
    /\ jobs' = Woken(writerWaiters, "reject") \o Woken(readerWaiters, "read")
    /\ writerWaiters' = Spliced(writerWaiters)
    /\ readerWaiters' = Spliced(readerWaiters)
    /\ UNCHANGED <<chunks, size, writer, reader, calls, accepted, delivered>>

Job ==
    \/ \E w \in Writers : WriteResumes(w) \/ WriteRejected(w)
    \/ \E r \in Readers : ReadResumes(r)
    \/ \E r \in Drainers : DrainContinues(r)

Next ==
    \/ \E w \in Writers, n \in WriteSizes : WriteCall(w, n)
    \/ \E w \in Writers : WriteResumes(w) \/ WriteRejected(w)
    \/ \E r \in Guests, n \in ReadSizes : ReadCall(r, n)
    \/ \E r \in Drainers : DrainStarts(r) \/ DrainContinues(r)
    \/ \E r \in Readers : ReadResumes(r)
    \/ CloseWrite

Spec == Init /\ [][Next]_vars

\* The event loop runs every queued job, and a drain that is to be attached is.
Fairness ==
    /\ WF_vars(Job)
    /\ \A r \in Drainers : WF_vars(DrainStarts(r))

FairSpec == Spec /\ Fairness

-----------------------------------------------------------------------------
(* Properties.                                                               *)

WriteFrame ==
    [busy : BOOLEAN, call : Nat, len : Nat, written : Nat, result : {"none", "ok", "EPIPE"}]
ReadFrame == [started : BOOLEAN, busy : BOOLEAN, want : Nat, eof : BOOLEAN]

Tasks ==
    [op : {"write", "reject"}, who : Writers] \union
    [op : {"read"}, who : Readers] \union [op : {"drain"}, who : Drainers]

\* The types of the pipe's fields and of the frames in flight.
TypeInvariant ==
    /\ chunks \in Seq(Byte)
    /\ size \in Nat
    /\ closed \in BOOLEAN
    /\ readerWaiters \in Seq(Readers)
    /\ writerWaiters \in Seq(Writers)
    /\ jobs \in Seq(Tasks)
    /\ writer \in [Writers -> WriteFrame]
    /\ reader \in [Readers -> ReadFrame]
    /\ calls \in 0..MaxCalls
    /\ accepted \in Seq(Byte)
    /\ delivered \in Seq(Byte)

\* The counter `size`, which every wait decision reads, agrees with the chunks it
\* summarises, and the pipe never holds more than its capacity.
SizeExact == size = Len(chunks) /\ size <= Capacity

\* No lost wake-up: whoever sleeps on the pipe has a reason to.  A reader sleeps only
\* on an empty open pipe, a writer only on a full open one.
NoLostWakeup ==
    /\ readerWaiters # << >> => size = 0 /\ ~closed
    /\ writerWaiters # << >> => size = Capacity /\ ~closed

\* Everything written is read once, in order, or is still in the pipe
\* (src/ROADMAP.md, Stage 9: "total bytes written = total bytes read + bytes in buffer").
Conservation == accepted = delivered \o chunks

\* End of file is final: the reader that saw it has missed no byte, and none can come.
EofIsFinal == \A r \in Readers : reader[r].eof => closed /\ delivered = accepted

\* The bytes of the stream stand in the order the write() calls were made, each call's
\* bytes together, even when several writers were blocked half-way at the same time.
\* The terminal relies on it: app.ts sends each line without awaiting the one before.
InCallOrder ==
    \A i, j \in 1..Len(accepted) :
        i < j => \/ accepted[i][1] < accepted[j][1]
                 \/ accepted[i][1] = accepted[j][1] /\ accepted[i][2] < accepted[j][2]

\* write() reports success exactly when all its bytes went in; the bytes a failing write
\* had already put in are never taken back.
ResultTellsBytes ==
    \A w \in Writers :
        /\ writer[w].written <= writer[w].len
        /\ \A k \in 1..writer[w].len :
              (<<writer[w].call, k>> \in ToSet(accepted)) <=> k <= writer[w].written
        /\ writer[w].result = "ok" => writer[w].written = writer[w].len
        /\ writer[w].result = "EPIPE" => closed /\ writer[w].written < writer[w].len

\* After closeWrite() the pipe accepts nothing more, and a reader loses nothing that was
\* accepted before: the stream of accepted bytes is frozen.
ClosedIsFrozen == [][closed => closed' /\ accepted' = accepted]_vars

\* A call that waits comes back: the pipe has a drain attached, so each write() completes
\* or is rejected; closeWrite() releases every reader, and every drain comes to its end.
CallsReturn ==
    /\ \A w \in Writers : writer[w].busy ~> ~writer[w].busy
    /\ \A r \in Guests : closed ~> ~reader[r].busy
    /\ \A r \in Drainers : closed ~> reader[r].eof

Stream == INSTANCE ByteStream WITH
              sent <- accepted, rcvd <- delivered,
              ended <- {r \in Readers : reader[r].eof}

\* The event-loop implementation is a bounded FIFO stream.
ImplementsStream == Stream!Spec
=============================================================================
