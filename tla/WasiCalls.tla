----------------------------- MODULE WasiCalls -----------------------------
(* A guest's fd_read on its stdin and fd_write on its stdout, both pipes:    *)
(* the loops over the iovecs (src/packages/kernel/src/worker/wasiCommon.ts), *)
(* one request of SyscallClient per iovec, its service by JSPITransport and  *)
(* SyscallHandler, and the answer's way back.                                *)
(*                                                                           *)
(* The guest's one thread is suspended in the call, so at most one request   *)
(* is pending and its number finds it.  The pipes are the streams of module  *)
(* ByteStream, which PipeBuffer implements: writers that wait for room are   *)
(* served in call order, so that stdin's buffer and the writes queued behind *)
(* it are one sequence, of which the first Capacity bytes can be read.       *)
EXTENDS Integers, Sequences, SequencesExt

CONSTANTS
    Byte,      \* what streams are made of
    Garbage,   \* what a guest's buffer holds where nothing was written
    Capacity   \* capacity of a pipe

ASSUME WasiCallsAssumption ==
    /\ Garbage \notin Byte
    /\ Capacity \in Nat \ {0}

VARIABLES
    inBuf,     \* what was written to stdin and not read
    inClosed,  \* closeWriteEnd on stdin
    outBuf,    \* stdout's buffer
    call       \* the frame of the fd_read or fd_write in progress

callVars == <<inBuf, inClosed, outBuf, call>>

\* op; the iovecs still to do, lengths for a read and bytes for a write; where the
\* request for the first of them stands; the bytes of its answer; what has been laid out
\* in the guest's buffers; and the count `total`.
NoCall == [op |-> "none", iovs |-> << >>, state |-> "none",
           answer |-> << >>, mem |-> << >>, total |-> 0]

CallsInit ==
    /\ inBuf = << >>
    /\ inClosed = FALSE
    /\ outBuf = << >>
    /\ call = NoCall

Lesser(a, b) == IF a < b THEN a ELSE b

FirstOf(s, n) == SubSeq(s, 1, n)
From(s, n)    == SubSeq(s, n, Len(s))

-----------------------------------------------------------------------------
\* The guest calls; empty iovecs are skipped.
NonEmpty(iovs) ==
    LET kept[n \in 0..Len(iovs)] ==
            IF n = 0 THEN << >>
            ELSE IF iovs[n] = << >> THEN kept[n - 1]
            ELSE Append(kept[n - 1], iovs[n])
    IN  kept[Len(iovs)]

Reads(lens) ==
    /\ call = NoCall
    /\ call' = [NoCall EXCEPT !.op = "read", !.iovs = lens, !.state = "asked"]
    /\ UNCHANGED <<inBuf, inClosed, outBuf>>

Writes(slices) ==
    /\ call = NoCall
    /\ call' = [NoCall EXCEPT !.op = "write", !.iovs = NonEmpty(slices), !.state = "asked"]
    /\ UNCHANGED <<inBuf, inClosed, outBuf>>

\* SyscallHandler.fdRead on the pipe: what there is, up to the length asked for, or
\* nothing at the end; until then the request waits.
ReadServed ==
    LET n == Lesser(Head(call.iovs), Lesser(Capacity, Len(inBuf)))
    IN  /\ call.op = "read" /\ call.state = "asked"
        /\ inBuf # << >> \/ inClosed
        /\ call' = [call EXCEPT !.state = "answered", !.answer = FirstOf(inBuf, n)]
        /\ inBuf' = From(inBuf, n + 1)
        /\ UNCHANGED <<inClosed, outBuf>>

\* SyscallHandler.fdWrite: as many bytes as there is room for, and the answer once all of
\* the slice is in.
NoneWritten == 0
Written     == Len(call.answer)

WriteServed ==
    LET slice == Head(call.iovs)
        n     == Lesser(Len(slice) - Written, Capacity - Len(outBuf))
        upTo  == FirstOf(slice, Written + n)
    IN  /\ call.op = "write" /\ call.state = "asked"
        /\ Len(outBuf) < Capacity
        /\ outBuf' = outBuf \o From(upTo, Written + 1)
        /\ call' = [call EXCEPT !.answer = upTo,
                                !.state = IF upTo = slice THEN "answered" ELSE "asked"]
        /\ UNCHANGED <<inBuf, inClosed>>

\* One turn of the loop over the iovecs, in the worker: lay the answer out in this buffer,
\* count it, and go on unless it was short.
IovLen == IF call.op = "read" THEN Head(call.iovs) ELSE Len(Head(call.iovs))

Short == Len(call.answer) < IovLen

LaidOut ==
    IF call.op = "read"
    THEN call.mem \o [i \in 1..IovLen |-> IF i <= Len(call.answer) THEN call.answer[i] ELSE Garbage]
    ELSE << >>

TotalOfLast == Len(call.answer)
TotalAsked  == call.total + IovLen
Total == call.total + Len(call.answer)

LoopTurns ==
    /\ call.state = "answered"
    /\ call' = [op     |-> call.op,
                iovs   |-> Tail(call.iovs),
                state  |-> IF Short \/ Len(call.iovs) = 1 THEN "returned" ELSE "asked",
                answer |-> << >>,
                mem    |-> LaidOut,
                total  |-> Total]
    /\ UNCHANGED <<inBuf, inClosed, outBuf>>

CallsGoOn == ReadServed \/ WriteServed \/ LoopTurns

\* The call is over: the guest finds `total` bytes in its buffers, one after the other.
Returned(op) == call.op = op /\ call.state = "returned"
GotBytes     == FirstOf(call.mem, call.total)

Resumes == call' = NoCall /\ UNCHANGED <<inBuf, inClosed, outBuf>>

-----------------------------------------------------------------------------
\* The types of the pipes and of the frame: an answered read has no more than it asked for.
CallTypes ==
    /\ inBuf \in Seq(Byte)
    /\ inClosed \in BOOLEAN
    /\ outBuf \in Seq(Byte) /\ Len(outBuf) <= Capacity
    /\ call.op \in {"none", "read", "write"}
    /\ call.state \in {"none", "asked", "answered", "returned"}
    /\ call.answer \in Seq(Byte)
    /\ call.mem \in Seq(Byte \union {Garbage})
    /\ call.total \in Nat
    /\ call.op = "read" => call.iovs \in Seq(Nat) /\ call.total <= Len(call.mem)
    /\ call.op = "write" => call.iovs \in Seq(Seq(Byte))
    /\ call.state \in {"asked", "answered"} => call.iovs # << >>

\* Bytes a read has taken from the pipe that the guest has not got yet, and bytes the guest
\* has handed to a write that are not in the pipe yet.
InFlight == IF call.op = "read" THEN GotBytes \o call.answer ELSE << >>
Unsent   == IF call.op = "write" /\ call.iovs # << >>
            THEN From(FlattenSeq(call.iovs), Len(call.answer) + 1) ELSE << >>
=============================================================================
