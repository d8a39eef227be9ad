-------------------------- MODULE PipeBufferProofs --------------------------
(* The pipe's safety, proved for any number of callers and any capacity: its *)
(* counters and waiters, then what a write() reports, then the order of the  *)
(* stream.                                                                   *)
EXTENDS PipeBuffer, SequenceTheorems, TLAPS

\* A write() in flight never has more bytes behind it than it was given.
FramesFit == \A w \in Writers : writer[w].written <= writer[w].len

\* Everything a step can disturb but the counter of calls.
State ==
    /\ chunks \in Seq(Byte)
    /\ size \in Nat
    /\ closed \in BOOLEAN
    /\ readerWaiters \in Seq(Readers)
    /\ writerWaiters \in Seq(Writers)
    /\ jobs \in Seq(Tasks)
    /\ writer \in [Writers -> WriteFrame]
    /\ reader \in [Readers -> ReadFrame]
    /\ accepted \in Seq(Byte)
    /\ delivered \in Seq(Byte)

\* The inductive invariant.  SizeExact needs FramesFit (a frame that overran its length
\* would take a negative number of bytes), and NoLostWakeup needs SizeExact.
Core == State /\ SizeExact /\ NoLostWakeup /\ Conservation /\ EofIsFinal /\ FramesFit
IInv == Core /\ calls \in 0..MaxCalls

\* What resolving a list of waiters appends to the queue is a list of tasks.
LEMMA WokenTasks ==
    /\ \A ws \in Seq(Readers) : Woken(ws, "read") \in Seq(Tasks)
    /\ \A ws \in Seq(Writers) : Woken(ws, "write") \in Seq(Tasks)
    /\ \A ws \in Seq(Writers) : Woken(ws, "reject") \in Seq(Tasks)
BY DEF Woken, Tasks

\* Lesser is the minimum of two naturals.
LEMMA LesserProperties ==
    ASSUME NEW a \in Nat, NEW b \in Nat
    PROVE  /\ Lesser(a, b) \in Nat
           /\ Lesser(a, b) <= a /\ Lesser(a, b) <= b
           /\ Lesser(a, b) = a \/ Lesser(a, b) = b
BY DEF Lesser

\* What copyOut returns followed by what it leaves is what there was.
LEMMA SplitSeq ==
    ASSUME NEW S, NEW s \in Seq(S), NEW k \in 0..Len(s)
    PROVE  SubSeq(s, 1, k) \o SubSeq(s, k + 1, Len(s)) = s
<1> DEFINE front == SubSeq(s, 1, k)
           back  == SubSeq(s, k + 1, Len(s))
<1>1. /\ front \in Seq(S) /\ Len(front) = k
      /\ \A i \in 1..k : front[i] = s[i]
  OBVIOUS
<1>2. /\ back \in Seq(S) /\ Len(back) = Len(s) - k
      /\ \A i \in 1..Len(s) - k : back[i] = s[k + i]
  OBVIOUS
<1> HIDE DEF front, back
<1>3. front \o back \in Seq(S) /\ Len(front \o back) = Len(s)
  <2>1. front \o back \in Seq(S) /\ Len(front \o back) = Len(front) + Len(back)
    BY <1>1, <1>2, ConcatProperties
  <2>2. k + (Len(s) - k) = Len(s)
    BY LenProperties
  <2> QED BY <1>1, <1>2, <2>1, <2>2
<1>4. ASSUME NEW i \in 1..Len(s) PROVE (front \o back)[i] = s[i]
  <2>1. (front \o back)[i] = IF i <= k THEN front[i] ELSE back[i - k]
    BY <1>1, <1>2, ConcatProperties
  <2>2. i > k => i - k \in 1..Len(s) - k /\ k + (i - k) = i
    OBVIOUS
  <2> QED BY <1>1, <1>2, <2>1, <2>2
<1>5. front \o back = s
  BY <1>3, <1>4, SeqEqual
<1> QED BY <1>5 DEF front, back

\* The loop of write() keeps the invariant, whatever frame it runs for.
LEMMA WriteLoopKeepsCore ==
    ASSUME PipeAssumption, Core,
           NEW w \in Writers, NEW frame \in WriteFrame, NEW rest \in Seq(Tasks),
           frame.written <= frame.len, WriteLoop(w, frame, rest)
    PROVE  Core'
<1>1. CASE WriteThrows(w, frame, rest)
  BY <1>1 DEF WriteLoop, WriteThrows, Core, State, SizeExact, NoLostWakeup, Conservation,
              EofIsFinal, FramesFit, WriteFrame
<1>2. CASE WriteFills(w, frame, rest)
  <2> DEFINE take == Lesser(Space, frame.len - frame.written)
             new  == Slice(frame, take)
             done == frame.written + take
  <2>1. Space \in Nat /\ frame.len - frame.written \in Nat
    BY DEF Space, Core, State, SizeExact, PipeAssumption, WriteFrame
  <2> HIDE DEF take, new, done
  <2>2. /\ take \in Nat /\ take <= Space /\ done <= frame.len /\ done \in Nat
        /\ done < frame.len => take = Space
    <3>1. /\ take \in Nat /\ take <= Space /\ take <= frame.len - frame.written
          /\ take = Space \/ take = frame.len - frame.written
      BY <2>1, LesserProperties DEF take
    <3>2. frame.len \in Nat /\ frame.written \in Nat
      BY DEF WriteFrame
    <3> QED BY <2>1, <3>1, <3>2 DEF done
  <2>3. new \in Seq(Byte) /\ Len(new) = take
    BY <2>2 DEF new, Slice, Byte, WriteFrame
  <2>4. /\ chunks' = chunks \o new
        /\ accepted' = accepted \o new
        /\ size' = size + take
        /\ ~closed /\ closed' = closed
        /\ reader' = reader /\ delivered' = delivered
    BY <1>2 DEF take, new, WriteFills, WriteLoop, Open
  <2>5. size' <= Capacity /\ (done < frame.len => size' = Capacity)
    BY <2>2, <2>4 DEF Space, Core, State, SizeExact, PipeAssumption
  <2>6. /\ readerWaiters' \in Seq(Readers)
        /\ readerWaiters' # << >> => take = 0 /\ readerWaiters # << >>
        /\ jobs' \in Seq(Tasks)
    BY <1>2, <2>2, WokenTasks, EmptySeq, ConcatProperties
       DEF take, WriteFills, Spliced, Core, State
  <2>9. chunks' \in Seq(Byte) /\ accepted' \in Seq(Byte) /\ Len(chunks') = Len(chunks) + take
    BY <2>3, <2>4, ConcatProperties DEF Core, State
  <2>10. Conservation' /\ SizeExact'
    <3>1. accepted' = delivered \o (chunks \o new)
      <4>1. (delivered \o chunks) \o new = delivered \o (chunks \o new)
        <5>1. delivered \in Seq(Byte) /\ chunks \in Seq(Byte) /\ new \in Seq(Byte)
          BY <2>3 DEF Core, State
        <5>2. \A t \in Seq(Byte) : (delivered \o chunks) \o t = delivered \o (chunks \o t)
          BY <5>1, ConcatAssociative
        <5> QED BY <5>1, <5>2
      <4> QED BY <2>4, <4>1 DEF Core, Conservation
    <3> QED BY <2>4, <2>5, <2>9, <3>1 DEF Core, Conservation, SizeExact
  <2>11. ASSUME writerWaiters' \in Seq(Writers), writer' \in [Writers -> WriteFrame]
         PROVE  State'
    <3>1. size' \in Nat /\ closed' \in BOOLEAN /\ reader' \in [Readers -> ReadFrame]
          /\ delivered' \in Seq(Byte)
      BY <2>2, <2>4 DEF Core, State
    <3> QED BY <2>6, <2>9, <2>11, <3>1 DEF State
  <2>12. EofIsFinal'
    BY <2>4 DEF Core, EofIsFinal
  <2>7. CASE done < frame.len
    <3>1. /\ writerWaiters' = Append(writerWaiters, w)
          /\ writer' = [writer EXCEPT ![w] = [frame EXCEPT !.written = done]]
      BY <1>2, <2>7 DEF take, done, WriteFills
    <3>2. [frame EXCEPT !.written = done] \in WriteFrame
      BY <2>2 DEF WriteFrame
    <3>3. writerWaiters' \in Seq(Writers)
      BY <3>1, AppendProperties DEF Core, State
    <3>4. writer' \in [Writers -> WriteFrame] /\ FramesFit'
      BY <2>2, <3>1, <3>2 DEF Core, State, FramesFit, WriteFrame
    <3>5. NoLostWakeup'
      BY <2>1, <2>2, <2>4, <2>5, <2>6, <2>7 DEF Core, State, NoLostWakeup, PipeAssumption
    <3> QED BY <2>10, <2>11, <2>12, <3>3, <3>4, <3>5 DEF Core
  <2>8. CASE ~(done < frame.len)
    <3>1. /\ writerWaiters' = writerWaiters
          /\ writer' = [writer EXCEPT ![w] =
                           [frame EXCEPT !.busy = FALSE, !.written = done, !.result = "ok"]]
      BY <1>2, <2>8 DEF take, done, WriteFills
    <3>2. [frame EXCEPT !.busy = FALSE, !.written = done, !.result = "ok"] \in WriteFrame
      BY <2>2 DEF WriteFrame
    <3>3. writer' \in [Writers -> WriteFrame] /\ FramesFit'
      BY <2>2, <3>1, <3>2 DEF Core, State, FramesFit, WriteFrame
    <3>4. writerWaiters # << >> => take = 0
      BY <2>2 DEF Core, State, NoLostWakeup, Space, PipeAssumption
    <3>5. NoLostWakeup'
      BY <2>2, <2>4, <2>6, <3>1, <3>4 DEF Core, State, NoLostWakeup
    <3> QED BY <2>10, <2>11, <2>12, <3>1, <3>3, <3>5 DEF Core, State
  <2> QED BY <2>7, <2>8
<1> QED BY <1>1, <1>2 DEF WriteLoop

\* The body of read() keeps it too.
LEMMA ReadLoopKeepsCore ==
    ASSUME PipeAssumption, Core,
           NEW r \in Readers, NEW frame \in ReadFrame, NEW rest \in Seq(Tasks),
           frame.eof = reader[r].eof, ReadLoop(r, frame, rest)
    PROVE  Core'
<1> USE DEF SizeExact
<1>1. CASE ReadEnds(r, frame, rest)
  <2>1. reader' \in [Readers -> ReadFrame] /\ jobs' \in Seq(Tasks)
    BY <1>1 DEF ReadEnds, Core, State, ReadFrame
  <2>2. chunks = << >> /\ closed /\ closed' = closed
    BY <1>1, EmptySeq DEF ReadEnds, ReadLoop, AtEnd, Core, State
  <2>3. delivered = accepted
    BY <2>2, ConcatEmptySeq DEF Core, State, Conservation
  <2>4. EofIsFinal'
    BY <1>1, <2>2, <2>3 DEF ReadEnds, ReadLoop, EofIsFinal
  <2> QED BY <1>1, <2>1, <2>4
         DEF ReadEnds, ReadLoop, Core, State, NoLostWakeup, Conservation, FramesFit
<1>2. CASE ReadWaits(r, frame, rest)
  <2>1. reader' \in [Readers -> ReadFrame] /\ jobs' \in Seq(Tasks)
    BY <1>2 DEF ReadWaits, Core, State
  <2>2. readerWaiters' \in Seq(Readers)
    BY <1>2, AppendProperties DEF ReadWaits, Core, State
  <2>3. EofIsFinal'
    BY <1>2 DEF ReadWaits, ReadLoop, Core, State, EofIsFinal
  <2>4. NoLostWakeup'
    BY <1>2 DEF ReadWaits, ReadLoop, Core, NoLostWakeup
  <2> QED BY <1>2, <2>1, <2>2, <2>3, <2>4
         DEF ReadWaits, ReadLoop, Core, State, Conservation, FramesFit
<1>3. CASE CopyOut(r, frame, rest)
  <2> DEFINE take == Lesser(frame.want, Len(chunks))
             out  == SubSeq(chunks, 1, take)
             left == SubSeq(chunks, take + 1, Len(chunks))
  <2> HIDE DEF take, out, left
  <2>1. take \in Nat /\ take <= Len(chunks) /\ chunks \in Seq(Byte)
    BY LesserProperties, LenProperties DEF take, Core, State, ReadFrame
  <2>2. out \in Seq(Byte) /\ Len(out) = take
    BY <2>1 DEF out
  <2>3. left \in Seq(Byte) /\ Len(left) = Len(chunks) - take
    BY <2>1 DEF left
  <2>4. out \o left = chunks
    <3>1. take \in 0..Len(chunks)
      BY <2>1, LenProperties
    <3> QED BY <2>1, <3>1, SplitSeq DEF out, left
  <2>5. /\ size # 0
        /\ delivered' = delivered \o out
        /\ chunks' = left
        /\ size' = size - take
        /\ writerWaiters' = << >> /\ readerWaiters' = readerWaiters
        /\ closed' = closed /\ writer' = writer /\ accepted' = accepted
        /\ reader' = [reader EXCEPT ![r] = [frame EXCEPT !.busy = FALSE]]
    BY <1>3 DEF CopyOut, ReadLoop, Remaining, SizeAfter, Spliced, take, out, left
  <2>6. jobs' \in Seq(Tasks)
    <3>1. (IF r \in Drainers THEN << [op |-> "drain", who |-> r] >> ELSE << >>) \in Seq(Tasks)
      <4>1. r \in Drainers => [op |-> "drain", who |-> r] \in Tasks
        BY DEF Tasks
      <4> QED BY <4>1, EmptySeq
    <3>2. Woken(writerWaiters, "write") \in Seq(Tasks)
      BY WokenTasks DEF Core, State
    <3> QED BY <1>3, <3>1, <3>2, ConcatProperties DEF CopyOut
  <2>7. delivered' \in Seq(Byte)
    BY <2>2, <2>5, ConcatProperties DEF Core, State
  <2>8. Conservation'
    <3>1. delivered \in Seq(Byte)
      BY DEF Core, State
    <3>2. \A s \in Seq(Byte) : \A t \in Seq(Byte) : (delivered \o s) \o t = delivered \o (s \o t)
      BY <3>1, ConcatAssociative
    <3>3. (delivered \o out) \o left = delivered \o (out \o left)
      BY <2>2, <2>3, <3>2
    <3> QED BY <2>4, <2>5, <3>3 DEF Core, Conservation
  <2>9. reader' \in [Readers -> ReadFrame]
    BY <2>5 DEF Core, State, ReadFrame
  <2>10. \A q \in Readers : ~reader[q].eof
    <3>1. \A s \in Seq(Byte) : delivered \o s = delivered => s = << >>
      BY ConcatEqualIffEmpty DEF Core, State
    <3>2. chunks # << >>
      BY <2>5 DEF Core
    <3> QED BY <2>1, <3>1, <3>2 DEF Core, Conservation, EofIsFinal
  <2>11. EofIsFinal'
    BY <2>5, <2>9, <2>10 DEF EofIsFinal, Core, State, ReadFrame
  <2>12. NoLostWakeup'
    BY <2>5 DEF Core, NoLostWakeup
  <2>13. SizeExact' /\ size' \in Nat
    BY <2>1, <2>3, <2>5 DEF Core, State, PipeAssumption
  <2>14. State'
    BY <2>1, <2>3, <2>5, <2>6, <2>7, <2>9, <2>13, EmptySeq DEF Core, State
  <2> QED BY <2>5, <2>8, <2>11, <2>12, <2>13, <2>14 DEF Core, FramesFit
<1> QED BY <1>1, <1>2, <1>3 DEF ReadLoop

\* The pipe starts empty and open, with nobody waiting.
LEMMA InitIInv == PipeAssumption /\ Init => IInv
<1> SUFFICES ASSUME PipeAssumption, Init PROVE IInv
  OBVIOUS
<1>1. State
  BY EmptySeq DEF Init, State, WriteFrame, ReadFrame
<1>2. Conservation
  BY ConcatEmptySeq, EmptySeq DEF Init, Conservation
<1>3. SizeExact /\ NoLostWakeup /\ EofIsFinal /\ FramesFit
  BY EmptySeq DEF Init, SizeExact, NoLostWakeup, EofIsFinal, FramesFit, PipeAssumption
<1> QED BY <1>1, <1>2, <1>3 DEF IInv, Core, Init, PipeAssumption

\* The head of a non-empty job queue is a task, and so is the rest of it.
LEMMA QueueTasks ==
    ASSUME jobs \in Seq(Tasks), jobs # << >>
    PROVE  Head(jobs) \in Tasks /\ Tail(jobs) \in Seq(Tasks)
BY HeadTailProperties

\* Every step of the pipe keeps the inductive invariant: one step per action.
LEMMA NextIInv == PipeAssumption /\ IInv /\ [Next]_vars => IInv'
<1> SUFFICES ASSUME PipeAssumption, IInv, [Next]_vars PROVE IInv'
  OBVIOUS
<1> USE DEF IInv
<1>1. ASSUME NEW w \in Writers, NEW n \in WriteSizes, WriteCall(w, n) PROVE IInv'
  <2>1. calls' \in 0..MaxCalls
    BY <1>1 DEF WriteCall, PipeAssumption
  <2>2. CASE n = 0
    BY <1>1, <2>1, <2>2 DEF WriteCall, Core, State, SizeExact, NoLostWakeup, Conservation,
                            EofIsFinal, FramesFit
  <2>3. CASE n # 0
    <3> DEFINE frame == [busy |-> TRUE, call |-> calls + 1, len |-> n, written |-> 0,
                         result |-> "none"]
    <3>1. frame \in WriteFrame /\ frame.written <= frame.len
      BY DEF WriteFrame, PipeAssumption
    <3>2. WriteLoop(w, frame, jobs)
      BY <1>1, <2>3 DEF WriteCall
    <3>3. jobs \in Seq(Tasks)
      BY DEF Core, State
    <3> HIDE DEF frame
    <3>4. Core'
      BY <3>1, <3>2, <3>3, WriteLoopKeepsCore
    <3> QED BY <2>1, <3>4
  <2> QED BY <2>2, <2>3
<1>2. ASSUME NEW w \in Writers, WriteResumes(w) PROVE IInv'
  <2>1. writer[w] \in WriteFrame /\ writer[w].written <= writer[w].len
    BY DEF Core, State, FramesFit
  <2>2. Tail(jobs) \in Seq(Tasks)
    BY <1>2, QueueTasks DEF WriteResumes, Core, State
  <2>3. WriteLoop(w, writer[w], Tail(jobs)) /\ calls' = calls
    BY <1>2 DEF WriteResumes
  <2>4. Core'
    BY <2>1, <2>2, <2>3, WriteLoopKeepsCore
  <2> QED BY <2>3, <2>4
<1>3. ASSUME NEW w \in Writers, WriteRejected(w) PROVE IInv'
  <2>1. writer' \in [Writers -> WriteFrame] /\ FramesFit'
    BY <1>3 DEF WriteRejected, Core, State, WriteFrame, FramesFit
  <2>2. jobs' \in Seq(Tasks)
    BY <1>3, QueueTasks DEF WriteRejected, Core, State
  <2> QED BY <1>3, <2>1, <2>2
         DEF WriteRejected, Core, State, SizeExact, NoLostWakeup, Conservation, EofIsFinal
<1>4. ASSUME NEW r \in Guests, NEW n \in ReadSizes, ReadCall(r, n) PROVE IInv'
  <2>1. r \in Readers /\ Frame(r, n) \in ReadFrame /\ Frame(r, n).eof = reader[r].eof
    BY DEF Frame, ReadFrame, Readers, PipeAssumption, Core, State
  <2>2. ReadLoop(r, Frame(r, n), jobs) /\ calls' = calls /\ jobs \in Seq(Tasks)
    BY <1>4 DEF ReadCall, ReadLoop, Core, State
  <2> QED BY <2>1, <2>2, ReadLoopKeepsCore
<1>5. ASSUME NEW r \in Drainers, DrainStarts(r) \/ DrainContinues(r) PROVE IInv'
  <2>1. r \in Readers /\ Frame(r, DrainSize) \in ReadFrame
        /\ Frame(r, DrainSize).eof = reader[r].eof
    BY DEF Frame, ReadFrame, Readers, PipeAssumption, Core, State
  <2>2. PICK rest \in Seq(Tasks) : ReadLoop(r, Frame(r, DrainSize), rest)
    BY <1>5, QueueTasks DEF DrainStarts, DrainContinues, Core, State
  <2>3. calls' = calls
    BY <2>2 DEF ReadLoop
  <2> QED BY <2>1, <2>2, <2>3, ReadLoopKeepsCore
<1>6. ASSUME NEW r \in Readers, ReadResumes(r) PROVE IInv'
  <2>1. reader[r] \in ReadFrame /\ Tail(jobs) \in Seq(Tasks)
    BY <1>6, QueueTasks DEF ReadResumes, Core, State
  <2>2. ReadLoop(r, reader[r], Tail(jobs)) /\ calls' = calls
    BY <1>6 DEF ReadResumes, ReadLoop
  <2> QED BY <2>1, <2>2, ReadLoopKeepsCore
<1>7. CASE CloseWrite
  <2>1. jobs' \in Seq(Tasks)
    BY <1>7, WokenTasks, ConcatProperties DEF CloseWrite, Core, State
  <2>2. /\ readerWaiters' = << >> /\ writerWaiters' = << >> /\ closed'
        /\ UNCHANGED <<chunks, size, writer, reader, calls, accepted, delivered>>
    BY <1>7 DEF CloseWrite, Spliced
  <2> QED BY <2>1, <2>2, EmptySeq
         DEF Core, State, SizeExact, NoLostWakeup, Conservation, EofIsFinal, FramesFit
<1>8. CASE UNCHANGED vars
  BY <1>8 DEF vars, Core, State, SizeExact, NoLostWakeup, Conservation, EofIsFinal, FramesFit
<1> QED BY <1>1, <1>2, <1>3, <1>4, <1>5, <1>6, <1>7, <1>8 DEF Next

\* The inductive invariant holds throughout.
THEOREM Safety == Spec => []IInv
BY PipeAssumption, InitIInv, NextIInv, PTL DEF Spec

\* The pipe's fields and the frames in flight keep their types.
THEOREM TypesHold == Spec => []TypeInvariant
<1>1. IInv => TypeInvariant
  BY DEF IInv, Core, State, TypeInvariant
<1> QED BY <1>1, Safety, PTL

\* The counter agrees with the chunks and the capacity is never exceeded.
THEOREM SizeIsExact == Spec => []SizeExact
<1>1. IInv => SizeExact
  BY DEF IInv, Core
<1> QED BY <1>1, Safety, PTL

\* No reader sleeps on a pipe with bytes in it, no writer on one with room, and nobody on
\* a closed one.
THEOREM NoWakeupIsLost == Spec => []NoLostWakeup
<1>1. IInv => NoLostWakeup
  BY DEF IInv, Core
<1> QED BY <1>1, Safety, PTL

\* Bytes written are bytes read followed by bytes buffered.
THEOREM NothingIsLost == Spec => []Conservation
<1>1. IInv => Conservation
  BY DEF IInv, Core
<1> QED BY <1>1, Safety, PTL

\* A reader that was told end of file has had every byte there is and will be.
THEOREM EndIsFinal == Spec => []EofIsFinal
<1>1. IInv => EofIsFinal
  BY DEF IInv, Core
<1> QED BY <1>1, Safety, PTL

-----------------------------------------------------------------------------
(* Refinement: every step of the event loop is a step of ByteStream under    *)
(* the mapping of module PipeBuffer, or changes nothing there.               *)

\* A sequence is a prefix of what it is extended to.
LEMMA ConcatIsPrefix ==
    ASSUME NEW S, NEW s \in Seq(S), NEW t \in Seq(S)
    PROVE  IsPrefix(s, s \o t)
<1>1. s \o t \in Seq(S) /\ Len(s) <= Len(s \o t)
  BY ConcatProperties
<1>2. SubSeq(s \o t, 1, Len(s)) = SubSeq(s, 1, Len(s))
  <2>1. CASE s = << >>
    BY <2>1, SubSeqEmpty, EmptySeq
  <2>2. CASE s # << >>
    BY <2>2, SubSeqOfConcat1, EmptySeq
  <2> QED BY <2>1, <2>2
<1> QED BY <1>1, <1>2 DEF IsPrefix

\* What is in flight in the stream is what is buffered in the pipe.
LEMMA InFlightIsSize ==
    ASSUME IInv
    PROVE  Stream!InFlight = size /\ Len(accepted) - Len(delivered) <= Capacity
<1>1. Len(accepted) = Len(delivered) + Len(chunks)
  BY ConcatProperties DEF IInv, Core, State, Conservation
<1> QED BY <1>1, LenProperties DEF IInv, Core, State, SizeExact, Stream!InFlight

\* A round of write() sends some bytes or none, or throws.
LEMMA WriteLoopRefines ==
    ASSUME PipeAssumption, IInv, IInv', NEW w \in Writers, NEW frame \in WriteFrame, NEW rest,
           frame.written <= frame.len, WriteLoop(w, frame, rest)
    PROVE  [Stream!Next]_(Stream!vars)
<1>1. CASE WriteThrows(w, frame, rest)
  BY <1>1 DEF WriteThrows, WriteLoop, Stream!vars
<1>2. CASE WriteFills(w, frame, rest)
  <2> DEFINE take == Lesser(Space, frame.len - frame.written)
             more == Slice(frame, take)
  <2>1. /\ accepted' = accepted \o more /\ ~closed
        /\ UNCHANGED <<delivered, closed, reader>>
    BY <1>2 DEF WriteFills, WriteLoop, Open
  <2>2. more \in Seq(Byte)
    <3>1. take \in Nat
      <4>1. Space \in Nat /\ frame.len - frame.written \in Nat
        <5>1. Core
          BY DEF IInv
        <5> QED BY <5>1 DEF Space, Core, State, SizeExact, PipeAssumption, WriteFrame
      <4> QED BY <4>1, LesserProperties
    <3> HIDE DEF take
    <3> QED BY <3>1 DEF Slice, Byte, WriteFrame
  <2> HIDE DEF more
  <2>3. \A t \in Seq(Byte) : IsPrefix(accepted, accepted \o t)
    BY ConcatIsPrefix DEF IInv, Core, State
  <2>4. Len(accepted') - Len(delivered') <= Capacity
    <3>1. Len(accepted') = Len(delivered') + Len(chunks')
      BY ConcatProperties DEF IInv, Core, State, Conservation
    <3> QED BY <3>1, LenProperties DEF IInv, Core, State, SizeExact
  <2>5. accepted' \in Seq(Byte)
    BY DEF IInv, Core, State
  <2>6. Stream!Send
    <3>1. Stream!IsPrefix(accepted, accepted')
      BY <2>1, <2>2, <2>3 DEF IsPrefix, Stream!IsPrefix
    <3> QED BY <2>1, <2>4, <2>5, <3>1 DEF Stream!Send
  <2> QED BY <2>6 DEF Stream!Next
<1> QED BY <1>1, <1>2 DEF WriteLoop

\* A round of read() receives bytes, is told the end, or goes to sleep.
LEMMA ReadLoopRefines ==
    ASSUME IInv, IInv', NEW r \in Readers, NEW frame \in ReadFrame, NEW rest,
           frame.eof = reader[r].eof, ReadLoop(r, frame, rest)
    PROVE  [Stream!Next]_(Stream!vars)
<1>1. reader \in [Readers -> ReadFrame]
  BY DEF IInv, Core, State
<1>2. CASE ReadEnds(r, frame, rest)
  <2>1. Stream!InFlight = 0 /\ closed
    BY <1>2, InFlightIsSize DEF ReadEnds, AtEnd
  <2>2. {q \in Readers : reader'[q].eof} = {q \in Readers : reader[q].eof} \union {r}
    BY <1>1, <1>2 DEF ReadEnds, ReadFrame
  <2>3. Stream!TellEnd(r)
    BY <1>2, <2>1, <2>2 DEF ReadEnds, ReadLoop, Stream!TellEnd
  <2> QED BY <2>3 DEF Stream!Next
<1>3. CASE ReadWaits(r, frame, rest)
  <2>1. {q \in Readers : reader'[q].eof} = {q \in Readers : reader[q].eof}
    BY <1>1, <1>3 DEF ReadWaits
  <2> QED BY <1>3, <2>1 DEF ReadWaits, ReadLoop, Stream!vars
<1>4. CASE CopyOut(r, frame, rest)
  <2> DEFINE take == Lesser(frame.want, Len(chunks))
  <2>1. {q \in Readers : reader'[q].eof} = {q \in Readers : reader[q].eof}
    BY <1>1, <1>4 DEF CopyOut, ReadFrame
  <2>2. /\ delivered' = delivered \o SubSeq(chunks, 1, take)
        /\ UNCHANGED <<accepted, closed>>
    BY <1>4 DEF CopyOut, ReadLoop
  <2>3. take \in Nat /\ take <= Len(chunks) /\ Len(chunks) = size
    BY LesserProperties, LenProperties DEF IInv, Core, State, SizeExact, ReadFrame
  <2> HIDE DEF take
  <2>4. CASE take = 0
    <3>1. delivered' = delivered
      BY <2>2, <2>4, SubSeqEmpty, ConcatEmptySeq DEF IInv, Core, State
    <3> QED BY <2>1, <2>2, <3>1 DEF Stream!vars
  <2>5. CASE take # 0
    <3>1. /\ delivered \in Seq(Byte) /\ chunks \in Seq(Byte)
          /\ accepted = delivered \o chunks
      BY DEF IInv, Core, State, Conservation
    <3>2. /\ Len(delivered) + 1 \in Len(delivered) + 1 .. Len(delivered) + Len(chunks)
          /\ Len(delivered) + take \in Len(delivered) + 1 .. Len(delivered) + Len(chunks)
      BY <2>3, <2>5, <3>1, LenProperties
    <3>3. SubSeq(accepted, Len(delivered) + 1, Len(delivered) + take)
             = SubSeq(chunks, (Len(delivered) + 1) - Len(delivered),
                              (Len(delivered) + take) - Len(delivered))
      <4> DEFINE m == Len(delivered) + 1
                 n == Len(delivered) + take
      <4> HIDE DEF m, n
      <4>1. /\ m \in Len(delivered) + 1 .. Len(delivered) + Len(chunks)
            /\ n \in Len(delivered) + 1 .. Len(delivered) + Len(chunks)
        BY <3>2 DEF m, n
      <4>2. SubSeq(delivered \o chunks, m, n) = SubSeq(chunks, m - Len(delivered), n - Len(delivered))
        BY <3>1, <4>1, SubSeqOfConcat2
      <4>3. accepted = delivered \o chunks
        BY <3>1
      <4>4. SubSeq(accepted, m, n) = SubSeq(chunks, m - Len(delivered), n - Len(delivered))
        BY <4>2, <4>3, Zenon
      <4> QED BY <4>4, Zenon DEF m, n
    <3>4. (Len(delivered) + 1) - Len(delivered) = 1 /\ (Len(delivered) + take) - Len(delivered) = take
      BY <2>3, <3>1, LenProperties
    <3>5. take \in 1..Stream!InFlight
      BY <2>3, <2>5, InFlightIsSize
    <3>6. Stream!Receive
      BY <2>1, <2>2, <3>3, <3>4, <3>5 DEF Stream!Receive
    <3> QED BY <3>6 DEF Stream!Next
  <2> QED BY <2>4, <2>5
<1> QED BY <1>2, <1>3, <1>4 DEF ReadLoop

\* Every step of the event loop is a step of the stream, or no step of it.
LEMMA StepRefines ==
    PipeAssumption /\ IInv /\ IInv' /\ [Next]_vars => [Stream!Next]_(Stream!vars)
<1> SUFFICES ASSUME PipeAssumption, IInv, IInv', [Next]_vars PROVE [Stream!Next]_(Stream!vars)
  OBVIOUS
<1>1. ASSUME NEW w \in Writers, NEW n \in WriteSizes, WriteCall(w, n)
      PROVE  [Stream!Next]_(Stream!vars)
  <2>1. CASE n = 0
    BY <1>1, <2>1 DEF WriteCall, Stream!vars
  <2>2. CASE n # 0
    <3> DEFINE frame == [busy |-> TRUE, call |-> calls + 1, len |-> n, written |-> 0,
                         result |-> "none"]
    <3>1. frame \in WriteFrame /\ frame.written <= frame.len
      BY DEF WriteFrame, PipeAssumption, IInv
    <3>2. WriteLoop(w, frame, jobs)
      BY <1>1, <2>2 DEF WriteCall
    <3> HIDE DEF frame
    <3> QED BY <3>1, <3>2, WriteLoopRefines
  <2> QED BY <2>1, <2>2
<1>2. ASSUME NEW w \in Writers, WriteResumes(w) PROVE [Stream!Next]_(Stream!vars)
  <2>1. writer[w] \in WriteFrame /\ writer[w].written <= writer[w].len
    BY DEF IInv, Core, State, FramesFit
  <2> QED BY <1>2, <2>1, WriteLoopRefines DEF WriteResumes
<1>3. ASSUME NEW w \in Writers, WriteRejected(w) PROVE [Stream!Next]_(Stream!vars)
  BY <1>3 DEF WriteRejected, Stream!vars
<1>4. ASSUME NEW r \in Guests, NEW n \in ReadSizes, ReadCall(r, n)
      PROVE  [Stream!Next]_(Stream!vars)
  <2>1. r \in Readers /\ Frame(r, n) \in ReadFrame /\ Frame(r, n).eof = reader[r].eof
    BY DEF Frame, ReadFrame, Readers, PipeAssumption, IInv, Core, State
  <2> QED BY <1>4, <2>1, ReadLoopRefines DEF ReadCall
<1>5. ASSUME NEW r \in Drainers, DrainStarts(r) \/ DrainContinues(r)
      PROVE  [Stream!Next]_(Stream!vars)
  <2>1. r \in Readers /\ Frame(r, DrainSize) \in ReadFrame
        /\ Frame(r, DrainSize).eof = reader[r].eof
    BY DEF Frame, ReadFrame, Readers, PipeAssumption, IInv, Core, State
  <2>2. PICK rest : ReadLoop(r, Frame(r, DrainSize), rest)
    BY <1>5 DEF DrainStarts, DrainContinues
  <2> QED BY <2>1, <2>2, ReadLoopRefines
<1>6. ASSUME NEW r \in Readers, ReadResumes(r) PROVE [Stream!Next]_(Stream!vars)
  <2>1. reader[r] \in ReadFrame
    BY DEF IInv, Core, State
  <2> QED BY <1>6, <2>1, ReadLoopRefines DEF ReadResumes
<1>7. CASE CloseWrite
  <2>1. Stream!Close
    BY <1>7 DEF CloseWrite, Stream!Close
  <2> QED BY <2>1 DEF Stream!Next
<1>8. CASE UNCHANGED vars
  BY <1>8 DEF vars, Stream!vars
<1> QED BY <1>1, <1>2, <1>3, <1>4, <1>5, <1>6, <1>7, <1>8 DEF Next

\* JsPipeBuffer on the event loop implements the bounded FIFO stream.
THEOREM RefinesStream == Spec => ImplementsStream
<1>1. Init => Stream!Init
  BY DEF Init, Stream!Init
<1> QED BY PipeAssumption, <1>1, Safety, StepRefines, PTL DEF Spec, Stream!Spec, ImplementsStream

\* Once closed, the pipe stays closed and the stream of accepted bytes is frozen.
THEOREM ClosedPipeIsFrozen == Spec => ClosedIsFrozen
<1>1. ASSUME [Stream!Next]_(Stream!vars), closed PROVE closed' /\ accepted' = accepted
  BY <1>1 DEF Stream!Next, Stream!vars, Stream!Send, Stream!Receive, Stream!Close, Stream!TellEnd
<1> QED BY PipeAssumption, <1>1, Safety, StepRefines, PTL DEF Spec, ClosedIsFrozen

-----------------------------------------------------------------------------
(* What a write() reports, proved for any number of callers and any          *)
(* capacity: a call that is blocked has one continuation, so that the bytes  *)
(* it counts are the bytes that went in.                                     *)

ForWriter(t) == t.op \in {"write", "reject"}

\* Writer w has a continuation in the job queue js, or waits in ws for one.
In(w, js, ws) ==
    \/ \E i \in DOMAIN js : ForWriter(js[i]) /\ js[i].who = w
    \/ \E j \in DOMAIN ws : ws[j] = w

\* Nobody is twice in the two.
Places(js, ws) ==
    /\ \A i, j \in DOMAIN js :
          ForWriter(js[i]) /\ ForWriter(js[j]) /\ js[i].who = js[j].who => i = j
    /\ \A i, j \in DOMAIN ws : ws[i] = ws[j] => i = j
    /\ \A i \in DOMAIN js, j \in DOMAIN ws : ForWriter(js[i]) => js[i].who # ws[j]

Halfway(frame) == frame.busy /\ frame.written < frame.len /\ frame.result = "none"

\* With js for the job queue, who waits or is about to go on is in the middle of a call.
Ready(js) ==
    /\ Places(js, writerWaiters)
    /\ \A w \in Writers : In(w, js, writerWaiters) => Halfway(writer[w])
    /\ \A i \in DOMAIN js : js[i].op = "reject" => closed

Queued == Ready(jobs)

\* The bytes of a call in the stream s are those the frame counts.
Counts(frame, s) ==
    \A k \in 1..frame.len : (\E i \in DOMAIN s : s[i] = <<frame.call, k>>) <=> k <= frame.written

Tells(frame) ==
    /\ frame.result = "ok" => frame.written = frame.len
    /\ frame.result = "EPIPE" => closed /\ frame.written < frame.len

\* Calls are numbered, and a number's bytes are counted by its call.
Counted ==
    /\ \A i \in DOMAIN accepted : accepted[i][1] <= calls
    /\ \A w \in Writers :
          writer[w].call <= calls /\ Counts(writer[w], accepted) /\ Tells(writer[w])
    /\ \A v, w \in Writers :
          writer[v].len > 0 /\ writer[w].len > 0 /\ writer[v].call = writer[w].call => v = w

RInv == IInv /\ Queued /\ Counted

-----------------------------------------------------------------------------
(* The job queue and the list of waiting writers.                            *)

LEMMA TailPlaces ==
    ASSUME NEW js \in Seq(Tasks), NEW ws \in Seq(Writers), js # << >>, Places(js, ws)
    PROVE  /\ Places(Tail(js), ws)
           /\ \A w : In(w, Tail(js), ws) => In(w, js, ws)
           /\ ForWriter(Head(js)) => In(Head(js).who, js, ws) /\ ~In(Head(js).who, Tail(js), ws)
           /\ \A i \in DOMAIN Tail(js) : \E j \in DOMAIN js : Tail(js)[i] = js[j]
<1>1. 1 \in DOMAIN js /\ Head(js) = js[1]
  OBVIOUS
<1>2. \A k \in DOMAIN Tail(js) : k + 1 \in DOMAIN js /\ Tail(js)[k] = js[k + 1] /\ k \in Nat /\ k # 0
  OBVIOUS
<1> PICK t, h : t = Tail(js) /\ h = Head(js)
  OBVIOUS
<1>3. Places(t, ws)
  BY <1>2 DEF Places
<1>4. \A w : In(w, t, ws) => In(w, js, ws)
  BY <1>2 DEF In
<1>5. ForWriter(h) => In(h.who, js, ws) /\ ~In(h.who, t, ws)
  BY <1>1, <1>2 DEF In, Places
<1> QED BY <1>2, <1>3, <1>4, <1>5

\* Tasks of readers make no difference.
LEMMA MorePlaces ==
    ASSUME NEW js \in Seq(Tasks), NEW os \in Seq(Tasks), NEW ws \in Seq(Writers), Places(js, ws),
           \A i \in DOMAIN os : ~ForWriter(os[i])
    PROVE  /\ Places(js \o os, ws)
           /\ \A w : In(w, js \o os, ws) <=> In(w, js, ws)
           /\ \A i \in DOMAIN (js \o os) :
                 (\E j \in DOMAIN js : (js \o os)[i] = js[j]) \/ ~ForWriter((js \o os)[i])
<1> PICK t : t = js \o os
  OBVIOUS
<1>1. \A i \in DOMAIN t : (i \in DOMAIN js /\ t[i] = js[i]) \/ ~ForWriter(t[i])
  <2> SUFFICES ASSUME NEW i \in DOMAIN t, i \notin DOMAIN js PROVE ~ForWriter(t[i])
    OBVIOUS
  <2>1. i - Len(js) \in DOMAIN os /\ t[i] = os[i - Len(js)]
    OBVIOUS
  <2> QED BY <2>1
<1>2. \A i \in DOMAIN js : i \in DOMAIN t /\ t[i] = js[i]
  OBVIOUS
<1>3. Places(t, ws)
  BY <1>1 DEF Places
<1>4. \A w : In(w, t, ws) <=> In(w, js, ws)
  BY <1>1, <1>2 DEF In
<1> QED BY <1>1, <1>3, <1>4

\* Waking, or rejecting, those who wait moves them behind the others.
LEMMA WokenPlaces ==
    ASSUME NEW js \in Seq(Tasks), NEW ws \in Seq(Writers), NEW op \in {"write", "reject"},
           Places(js, ws)
    PROVE  /\ Places(js \o Woken(ws, op), << >>)
           /\ \A w : In(w, js \o Woken(ws, op), << >>) <=> In(w, js, ws)
           /\ \A i \in DOMAIN (js \o Woken(ws, op)) :
                 \/ \E j \in DOMAIN js : (js \o Woken(ws, op))[i] = js[j]
                 \/ (js \o Woken(ws, op))[i].op = op
<1>0. PICK t, n, o, ks : t = js \o ks /\ ks = Woken(ws, op) /\ n = Len(js) /\ o = << >>
  OBVIOUS
<1>1. ks \in Seq(Tasks) /\ Len(ks) = Len(ws) /\ n \in Nat
  BY <1>0, WokenTasks DEF Woken
<1>2. \A j \in DOMAIN ws : j \in DOMAIN ks /\ ks[j].op = op /\ ks[j].who = ws[j] /\ j \in Nat
  BY <1>0 DEF Woken
<1>9. DOMAIN ks = DOMAIN ws
  BY <1>1
<1>3. \A i \in DOMAIN t :
         \/ i \in DOMAIN js /\ t[i] = js[i]
         \/ i - n \in DOMAIN ws /\ t[i].op = op /\ t[i].who = ws[i - n] /\ i \in Nat
  <2> SUFFICES ASSUME NEW i \in DOMAIN t, i \notin DOMAIN js
               PROVE  i - n \in DOMAIN ws /\ t[i].op = op /\ t[i].who = ws[i - n] /\ i \in Nat
    BY <1>0, <1>1
  <2>1. i - n \in DOMAIN ks /\ t[i] = ks[i - n] /\ i \in Nat
    BY <1>0, <1>1
  <2> QED BY <1>2, <1>9, <2>1
<1>4. \A i \in DOMAIN js : i \in DOMAIN t /\ t[i] = js[i]
  BY <1>0, <1>1
<1>10. \A j \in DOMAIN ks : n + j \in DOMAIN t /\ t[n + j] = ks[j]
  BY <1>0, <1>1
<1>5. \A j \in DOMAIN ws : n + j \in DOMAIN t /\ t[n + j].op = op /\ t[n + j].who = ws[j]
  BY <1>2, <1>10
<1>8. DOMAIN o = {}
  BY <1>0
<1>6. Places(t, o)
  <2>1. \A i, j \in DOMAIN t : ForWriter(t[i]) /\ ForWriter(t[j]) /\ t[i].who = t[j].who => i = j
    <3> SUFFICES ASSUME NEW i \in DOMAIN t, NEW j \in DOMAIN t,
                        ForWriter(t[i]), ForWriter(t[j]), t[i].who = t[j].who
                 PROVE  i = j
      OBVIOUS
    <3>1. CASE i \in DOMAIN js /\ t[i] = js[i]
      BY <1>3, <3>1 DEF Places
    <3>2. CASE j \in DOMAIN js /\ t[j] = js[j]
      BY <1>3, <3>2 DEF Places
    <3>3. CASE /\ i - n \in DOMAIN ws /\ t[i].who = ws[i - n] /\ i \in Nat
               /\ j - n \in DOMAIN ws /\ t[j].who = ws[j - n] /\ j \in Nat
      <4>1. i - n = j - n
        BY <3>3 DEF Places
      <4> QED BY <1>1, <3>3, <4>1
    <3> QED BY <1>3, <3>1, <3>2, <3>3
  <2> QED BY <1>8, <2>1 DEF Places
<1>7. ASSUME NEW w PROVE In(w, t, o) <=> In(w, js, ws)
  <2>1. In(w, t, o) => In(w, js, ws)
    BY <1>3, <1>8 DEF In
  <2>2. ASSUME NEW i \in DOMAIN js, ForWriter(js[i]), js[i].who = w PROVE In(w, t, o)
    BY <1>4, <2>2 DEF In
  <2>3. ASSUME NEW j \in DOMAIN ws, ws[j] = w PROVE In(w, t, o)
    <3>1. ForWriter(t[n + j])
      BY <1>5 DEF ForWriter
    <3> QED BY <1>5, <2>3, <3>1 DEF In
  <2> QED BY <2>1, <2>2, <2>3 DEF In
<1> QED BY <1>0, <1>3, <1>6, <1>7

LEMMA AppendPlaces ==
    ASSUME NEW js \in Seq(Tasks), NEW ws \in Seq(Writers), NEW w \in Writers, Places(js, ws),
           ~In(w, js, ws)
    PROVE  /\ Places(js, Append(ws, w))
           /\ \A v : In(v, js, Append(ws, w)) => v = w \/ In(v, js, ws)
<1> PICK t : t = Append(ws, w)
  OBVIOUS
<1>1. \A j \in DOMAIN t : \/ j \in DOMAIN ws /\ t[j] = ws[j]
                          \/ j = Len(ws) + 1 /\ t[j] = w
  OBVIOUS
<1>2. Places(js, t)
  BY <1>1 DEF Places, In
<1>3. \A v : In(v, js, t) => v = w \/ In(v, js, ws)
  BY <1>1 DEF In
<1> QED BY <1>2, <1>3

-----------------------------------------------------------------------------
(* One lemma for the loop of write(), one for that of read().                *)

\* What the loop is started with: the writer has no other continuation, and his frame
\* counts his bytes.
Starts(w, frame, rest, count) ==
    /\ Ready(rest) /\ ~In(w, rest, writerWaiters)
    /\ Halfway(frame) /\ Counts(frame, accepted)
    /\ count \in Nat /\ calls <= count /\ frame.call <= count
    /\ \A v \in Writers : v # w /\ writer[v].len > 0 => writer[v].call # frame.call

\* Bytes that are added are counted by the frame they are of, and no other.
LEMMA SliceCounts ==
    ASSUME NEW frame \in WriteFrame, NEW take \in Nat, frame.written + take <= frame.len,
           Counts(frame, accepted), accepted \in Seq(Byte), calls \in Nat,
           NEW count \in Nat, calls <= count, frame.call <= count,
           \A i \in DOMAIN accepted : accepted[i][1] <= calls,
           NEW s, s = accepted \o Slice(frame, take)
    PROVE  /\ \A i \in DOMAIN s : s[i][1] <= count
           /\ \A f \in WriteFrame :
                 /\ f.call = frame.call /\ f.len = frame.len /\ f.written = frame.written + take
                       => Counts(f, s)
                 /\ Counts(f, accepted) /\ (f.len > 0 => f.call # frame.call) => Counts(f, s)
<1> PICK more, n : more = Slice(frame, take) /\ n = Len(accepted)
  OBVIOUS
<1>1. /\ more \in Seq(Byte) /\ Len(more) = take /\ n \in Nat
      /\ \A i \in 1..take : more[i] = <<frame.call, frame.written + i>>
  BY DEF Slice, Byte, WriteFrame
<1>2. \A i \in DOMAIN s :
         \/ i \in DOMAIN accepted /\ s[i] = accepted[i]
         \/ i - n \in 1..take /\ s[i] = <<frame.call, frame.written + (i - n)>>
  BY <1>1
<1>3. /\ \A i \in DOMAIN accepted : i \in DOMAIN s /\ s[i] = accepted[i]
      /\ \A i \in 1..take : n + i \in DOMAIN s /\ s[n + i] = <<frame.call, frame.written + i>>
  BY <1>1
<1>4. \A i \in DOMAIN s : s[i][1] <= count
  <2> SUFFICES ASSUME NEW i \in DOMAIN s PROVE s[i][1] <= count
    OBVIOUS
  <2>1. CASE i \in DOMAIN accepted /\ s[i] = accepted[i]
    <3>1. accepted[i] \in Byte /\ accepted[i][1] <= calls
      BY <2>1
    <3> QED BY <2>1, <3>1 DEF Byte
  <2>2. CASE s[i] = <<frame.call, frame.written + (i - n)>>
    BY <2>2
  <2> QED BY <1>2, <2>1, <2>2
<1>5. ASSUME NEW f \in WriteFrame, f.call = frame.call, f.len = frame.len,
             f.written = frame.written + take
      PROVE  Counts(f, s)
  <2> SUFFICES ASSUME NEW k \in 1..f.len
               PROVE  (\E i \in DOMAIN s : s[i] = <<f.call, k>>) <=> k <= f.written
    BY DEF Counts
  <2>1. (\E i \in DOMAIN accepted : accepted[i] = <<frame.call, k>>) <=> k <= frame.written
    BY <1>5 DEF Counts
  <2>2. ASSUME NEW i \in DOMAIN s, s[i] = <<f.call, k>> PROVE k <= f.written
    <3>1. CASE i \in DOMAIN accepted /\ s[i] = accepted[i]
      <4>1. accepted[i] = <<frame.call, k>>
        BY <1>5, <2>2, <3>1
      <4>2. k <= frame.written
        BY <2>1, <3>1, <4>1
      <4> QED BY <1>5, <4>2 DEF WriteFrame
    <3>2. CASE i - n \in 1..take /\ s[i] = <<frame.call, frame.written + (i - n)>>
      <4>1. k = frame.written + (i - n)
        BY <2>2, <3>2
      <4> QED BY <1>5, <3>2, <4>1 DEF WriteFrame
    <3> QED BY <1>2, <3>1, <3>2
  <2>3. ASSUME k <= f.written PROVE \E i \in DOMAIN s : s[i] = <<f.call, k>>
    <3>1. CASE k <= frame.written
      BY <1>3, <1>5, <2>1, <3>1
    <3>2. CASE k > frame.written
      <4>1. /\ k - frame.written \in 1..take
            /\ frame.written + (k - frame.written) = k
        BY <1>5, <2>3, <3>2 DEF WriteFrame
      <4>2. PICK j : j = k - frame.written
        OBVIOUS
      <4>3. n + j \in DOMAIN s /\ s[n + j] = <<frame.call, k>>
        BY <1>3, <4>1, <4>2
      <4> QED BY <1>5, <4>3
    <3>3. k <= frame.written \/ k > frame.written
      BY DEF WriteFrame
    <3> QED BY <3>1, <3>2, <3>3
  <2> QED BY <2>2, <2>3
<1>6. ASSUME NEW f \in WriteFrame, Counts(f, accepted), f.len > 0 => f.call # frame.call
      PROVE  Counts(f, s)
  <2> SUFFICES ASSUME NEW k \in 1..f.len
               PROVE  (\E i \in DOMAIN s : s[i] = <<f.call, k>>)
                          <=> \E i \in DOMAIN accepted : accepted[i] = <<f.call, k>>
    BY <1>6 DEF Counts
  <2>1. f.call # frame.call
    BY <1>6 DEF WriteFrame
  <2>2. ASSUME NEW i \in DOMAIN s, s[i] = <<f.call, k>>
        PROVE  i \in DOMAIN accepted /\ accepted[i] = <<f.call, k>>
    <3>1. ASSUME NEW j, s[i] = <<frame.call, j>> PROVE FALSE
      BY <2>1, <2>2, <3>1
    <3> QED BY <1>2, <2>2, <3>1
  <2>3. ASSUME NEW i \in DOMAIN accepted, accepted[i] = <<f.call, k>>
        PROVE  i \in DOMAIN s /\ s[i] = <<f.call, k>>
    BY <1>3, <2>3
  <2> QED BY <2>2, <2>3
<1> QED BY <1>4, <1>5, <1>6

\* What a round of the loop adds to the stream is counted.
LEMMA FillsCounted ==
    ASSUME Core, Counted, calls \in Nat,
           NEW w \in Writers, NEW frame \in WriteFrame, NEW rest, NEW count \in Nat,
           Starts(w, frame, rest, count),
           NEW take \in Nat, frame.written + take <= frame.len,
           NEW f \in WriteFrame,
           f.call = frame.call, f.len = frame.len, f.written = frame.written + take,
           f.result = "ok" => f.written = f.len, f.result # "EPIPE",
           writer' = [writer EXCEPT ![w] = f], accepted' = accepted \o Slice(frame, take),
           closed' = closed, calls' = count
    PROVE  Counted'
<1>1. /\ writer \in [Writers -> WriteFrame] /\ accepted \in Seq(Byte)
      /\ calls <= count /\ frame.call <= count /\ Counts(frame, accepted)
      /\ \A v \in Writers : v # w /\ writer[v].len > 0 => writer[v].call # frame.call
      /\ \A i \in DOMAIN accepted : accepted[i][1] <= calls
  BY DEF Core, State, Starts, Counted
<1>2. /\ \A i \in DOMAIN accepted' : accepted'[i][1] <= count
      /\ Counts(f, accepted')
      /\ \A g \in WriteFrame :
            Counts(g, accepted) /\ (g.len > 0 => g.call # frame.call) => Counts(g, accepted')
  <2> PICK s : s = accepted'
    OBVIOUS
  <2> QED BY <1>1, SliceCounts
<1>3. writer'[w] = f /\ \A v \in Writers : v # w => writer'[v] = writer[v]
  BY <1>1
<1>4. ASSUME NEW v \in Writers
      PROVE  writer'[v].call <= count /\ Counts(writer'[v], accepted') /\ Tells(writer[v])'
  <2>1. CASE v = w
    BY <1>1, <1>2, <1>3, <2>1 DEF Tells
  <2>2. CASE v # w
    <3>1. writer[v] \in WriteFrame /\ writer[v].call <= calls
          /\ Counts(writer[v], accepted) /\ Tells(writer[v])
      BY <1>1 DEF Counted
    <3>2. Counts(writer[v], accepted')
      BY <1>1, <1>2, <2>2, <3>1
    <3>3. writer[v].call <= count
      BY <1>1, <3>1 DEF WriteFrame
    <3> QED BY <1>3, <2>2, <3>1, <3>2, <3>3 DEF Tells
  <2> QED BY <2>1, <2>2
<1>5. ASSUME NEW u \in Writers, NEW v \in Writers, writer'[u].len > 0, writer'[v].len > 0,
             writer'[u].call = writer'[v].call
      PROVE  u = v
  <2>1. CASE u = w \/ v = w
    BY <1>1, <1>3, <1>5, <2>1
  <2>2. CASE u # w /\ v # w
    BY <1>3, <1>5, <2>2 DEF Counted
  <2> QED BY <2>1, <2>2
<1> QED BY <1>2, <1>4, <1>5 DEF Counted

\* The loop of write() keeps both, whatever frame it runs for.
LEMMA WriteLoopTells ==
    ASSUME PipeAssumption, Core, Counted, calls \in Nat, calls' \in Nat,
           NEW w \in Writers, NEW frame \in WriteFrame, NEW rest \in Seq(Tasks),
           Starts(w, frame, rest, calls'), WriteLoop(w, frame, rest)
    PROVE  Queued' /\ Counted'
<1>0. /\ writer \in [Writers -> WriteFrame] /\ closed' = closed
      /\ Ready(rest) /\ ~In(w, rest, writerWaiters) /\ Halfway(frame)
      /\ writerWaiters \in Seq(Writers) /\ readerWaiters \in Seq(Readers)
      /\ closed \in BOOLEAN
  BY DEF Core, State, Starts, WriteLoop
<1>1. CASE WriteThrows(w, frame, rest)
  <2>1. /\ closed /\ jobs' = rest /\ writerWaiters' = writerWaiters /\ accepted' = accepted
        /\ writer' = [writer EXCEPT ![w] = [frame EXCEPT !.busy = FALSE, !.result = "EPIPE"]]
    BY <1>1 DEF WriteThrows
  <2>2. /\ \A v \in Writers : v # w => writer'[v] = writer[v]
        /\ writer'[w] = [frame EXCEPT !.busy = FALSE, !.result = "EPIPE"]
    BY <1>0, <2>1
  <2>3. Queued'
    BY <1>0, <2>1, <2>2 DEF Queued, Ready
  <2>4. /\ writer'[w].call = frame.call /\ writer'[w].len = frame.len
        /\ writer'[w].written = frame.written /\ writer'[w].result = "EPIPE"
    BY <2>2 DEF WriteFrame
  <2>5. \A i \in DOMAIN accepted : accepted[i][1] <= calls'
    <3>1. ASSUME NEW i \in DOMAIN accepted PROVE accepted[i][1] <= calls'
      <4>1. accepted[i] \in Byte /\ accepted[i][1] <= calls
        BY DEF Counted, Core, State
      <4> QED BY <4>1 DEF Byte, Starts
    <3> QED BY <3>1
  <2>6. ASSUME NEW v \in Writers
        PROVE  writer'[v].call <= calls' /\ Counts(writer'[v], accepted) /\ Tells(writer[v])'
    <3>1. CASE v = w
      BY <1>0, <2>1, <2>4, <3>1 DEF Starts, Halfway, Counts, Tells
    <3>2. CASE v # w
      <4>1. writer[v] \in WriteFrame /\ writer[v].call <= calls
        BY <1>0 DEF Counted
      <4>2. writer[v].call <= calls'
        BY <4>1 DEF WriteFrame, Starts
      <4> QED BY <1>0, <2>2, <3>2, <4>2 DEF Counted, Tells
    <3> QED BY <3>1, <3>2
  <2>7. ASSUME NEW u \in Writers, NEW v \in Writers, writer'[u].len > 0, writer'[v].len > 0,
               writer'[u].call = writer'[v].call
        PROVE  u = v
    <3>1. CASE u = w \/ v = w
      BY <2>2, <2>4, <2>7, <3>1 DEF Starts
    <3>2. CASE u # w /\ v # w
      BY <2>2, <2>7, <3>2 DEF Counted
    <3> QED BY <3>1, <3>2
  <2> QED BY <2>1, <2>3, <2>5, <2>6, <2>7 DEF Counted
<1>2. CASE WriteFills(w, frame, rest)
  <2> PICK take, done : take = Lesser(Space, frame.len - frame.written)
                        /\ done = frame.written + take
    OBVIOUS
  <2>1. take \in Nat /\ done \in Nat /\ done <= frame.len
    <3>1. Space \in Nat /\ frame.len \in Nat /\ frame.written \in Nat
          /\ frame.len - frame.written \in Nat
      BY <1>0 DEF Space, Core, State, SizeExact, PipeAssumption, WriteFrame, Halfway
    <3>2. take \in Nat /\ take <= frame.len - frame.written
      BY <3>1, LesserProperties
    <3> QED BY <3>1, <3>2
  <2>2. /\ accepted' = accepted \o Slice(frame, take)
        /\ jobs' = rest \o Woken(readerWaiters, "read") \/ jobs' = rest
    BY <1>2 DEF WriteFills
  <2>3. /\ Places(jobs', writerWaiters)
        /\ \A v : In(v, jobs', writerWaiters) <=> In(v, rest, writerWaiters)
        /\ \A i \in DOMAIN jobs' : jobs'[i].op = "reject" => closed
    <3>1. CASE jobs' = rest
      BY <1>0, <3>1 DEF Ready
    <3>2. CASE jobs' = rest \o Woken(readerWaiters, "read")
      <4>1. Woken(readerWaiters, "read") \in Seq(Tasks)
        BY <1>0, WokenTasks
      <4>2. \A i \in DOMAIN Woken(readerWaiters, "read") :
               ~ForWriter(Woken(readerWaiters, "read")[i])
        BY DEF Woken, ForWriter
      <4>3. /\ Places(jobs', writerWaiters)
            /\ \A v : In(v, jobs', writerWaiters) <=> In(v, rest, writerWaiters)
            /\ \A i \in DOMAIN jobs' :
                  (\E j \in DOMAIN rest : jobs'[i] = rest[j]) \/ ~ForWriter(jobs'[i])
        BY <1>0, <3>2, <4>1, <4>2, MorePlaces DEF Ready
      <4> QED BY <1>0, <4>3 DEF Ready, ForWriter
    <3> QED BY <2>2, <3>1, <3>2
  <2>4. jobs' \in Seq(Tasks)
    <3>1. Woken(readerWaiters, "read") \in Seq(Tasks)
      BY <1>0, WokenTasks
    <3>2. rest \o Woken(readerWaiters, "read") \in Seq(Tasks)
      BY <3>1, ConcatProperties
    <3> QED BY <2>2, <3>2
  <2>5. CASE done < frame.len
    <3> PICK f : f = [frame EXCEPT !.written = done]
      OBVIOUS
    <3>1. writerWaiters' = Append(writerWaiters, w) /\ writer' = [writer EXCEPT ![w] = f]
      BY <1>2, <2>5 DEF WriteFills
    <3>2. f \in WriteFrame /\ f.call = frame.call /\ f.len = frame.len /\ f.written = done
          /\ f.result = "none" /\ Halfway(f)
      BY <1>0, <2>1, <2>5 DEF WriteFrame, Halfway
    <3>3. /\ Places(jobs', writerWaiters')
          /\ \A v : In(v, jobs', writerWaiters') => v = w \/ In(v, jobs', writerWaiters)
      BY <1>0, <2>3, <2>4, <3>1, AppendPlaces
    <3>4. Queued'
      BY <1>0, <2>3, <3>1, <3>2, <3>3 DEF Queued, Ready
    <3> QED BY <1>0, <2>1, <2>2, <3>1, <3>2, <3>4, FillsCounted
  <2>6. CASE ~(done < frame.len)
    <3> PICK f : f = [frame EXCEPT !.busy = FALSE, !.written = done, !.result = "ok"]
      OBVIOUS
    <3>1. writerWaiters' = writerWaiters /\ writer' = [writer EXCEPT ![w] = f]
      BY <1>2, <2>6 DEF WriteFills
    <3>2. f \in WriteFrame /\ f.call = frame.call /\ f.len = frame.len /\ f.written = done
          /\ f.result = "ok" /\ f.written = f.len
      <4>1. done = frame.len
        BY <2>1, <2>6 DEF WriteFrame
      <4> QED BY <2>1, <4>1 DEF WriteFrame
    <3>4. Queued'
      BY <1>0, <2>3, <3>1 DEF Queued, Ready
    <3> QED BY <1>0, <2>1, <2>2, <3>1, <3>2, <3>4, FillsCounted
  <2> QED BY <2>5, <2>6
<1> QED BY <1>1, <1>2 DEF WriteLoop

\* read() touches neither the stream nor a writer's frame, and moves waiters to the queue.
LEMMA ReadLoopTells ==
    ASSUME Core, Counted, NEW r \in Readers, NEW frame, NEW rest \in Seq(Tasks),
           Ready(rest), ReadLoop(r, frame, rest)
    PROVE  Queued' /\ Counted'
<1>0. /\ closed' = closed /\ writer' = writer /\ calls' = calls /\ accepted' = accepted
      /\ writerWaiters \in Seq(Writers)
  BY DEF ReadLoop, Core, State
<1>1. Counted'
  BY <1>0 DEF Counted, Tells
<1>2. CASE ReadEnds(r, frame, rest) \/ ReadWaits(r, frame, rest)
  <2>1. jobs' = rest /\ writerWaiters' = writerWaiters
    BY <1>2 DEF ReadEnds, ReadWaits
  <2> QED BY <1>0, <1>1, <2>1 DEF Queued, Ready
<1>3. CASE CopyOut(r, frame, rest)
  <2> DEFINE woken == rest \o Woken(writerWaiters, "write")
             again == IF r \in Drainers THEN << [op |-> "drain", who |-> r] >> ELSE << >>
  <2>1. jobs' = woken \o again /\ writerWaiters' = << >>
    BY <1>3 DEF CopyOut, Spliced
  <2>2. /\ Places(woken, << >>)
        /\ \A w : In(w, woken, << >>) <=> In(w, rest, writerWaiters)
        /\ \A i \in DOMAIN woken :
              (\E j \in DOMAIN rest : woken[i] = rest[j]) \/ woken[i].op = "write"
    BY <1>0, WokenPlaces DEF Ready
  <2>3. woken \in Seq(Tasks)
    BY <1>0, WokenTasks, ConcatProperties
  <2>4. again \in Seq(Tasks) /\ \A i \in DOMAIN again : ~ForWriter(again[i])
    <3>1. CASE r \in Drainers
      BY <3>1 DEF Tasks, ForWriter
    <3>2. CASE r \notin Drainers
      BY <3>2
    <3> QED BY <3>1, <3>2
  <2>5. /\ Places(jobs', << >>)
        /\ \A w : In(w, jobs', << >>) <=> In(w, woken, << >>)
        /\ \A i \in DOMAIN jobs' :
              (\E j \in DOMAIN woken : jobs'[i] = woken[j]) \/ ~ForWriter(jobs'[i])
    <3> HIDE DEF woken, again
    <3> PICK none, all : none = << >> /\ all = woken \o again
      OBVIOUS
    <3>1. none \in Seq(Writers) /\ Places(woken, none)
      BY <2>2
    <3>2. /\ Places(all, none)
          /\ \A w : In(w, all, none) <=> In(w, woken, none)
          /\ \A i \in DOMAIN all :
                (\E j \in DOMAIN woken : all[i] = woken[j]) \/ ~ForWriter(all[i])
      BY <2>3, <2>4, <3>1, MorePlaces
    <3> QED BY <2>1, <3>2
  <2>6. \A i \in DOMAIN jobs' : jobs'[i].op = "reject" => closed
    BY <2>2, <2>5 DEF Ready, ForWriter
  <2> QED BY <1>0, <1>1, <2>1, <2>2, <2>5, <2>6 DEF Queued, Ready
<1> QED BY <1>2, <1>3 DEF ReadLoop

-----------------------------------------------------------------------------
(* The invariant, one step per action.                                       *)

LEMMA InitTells == PipeAssumption /\ Init => RInv
<1> SUFFICES ASSUME PipeAssumption, Init PROVE RInv
  OBVIOUS
<1>1. IInv
  BY InitIInv
<1>2. Queued
  BY DEF Init, Queued, Ready, Places, In
<1>3. Counted
  BY DEF Init, Counted, Counts, Tells
<1> QED BY <1>1, <1>2, <1>3 DEF RInv

\* What is left in the queue once its first job runs.
LEMMA HeadRuns ==
    ASSUME Core, Queued, jobs # << >>
    PROVE  /\ Ready(Tail(jobs)) /\ Tail(jobs) \in Seq(Tasks)
           /\ ForWriter(Head(jobs)) =>
                 In(Head(jobs).who, jobs, writerWaiters)
                 /\ ~In(Head(jobs).who, Tail(jobs), writerWaiters)
           /\ Head(jobs).op = "reject" => closed
<1>1. jobs \in Seq(Tasks) /\ writerWaiters \in Seq(Writers)
  BY DEF Core, State
<1>2. /\ Places(Tail(jobs), writerWaiters)
      /\ \A w : In(w, Tail(jobs), writerWaiters) => In(w, jobs, writerWaiters)
      /\ ForWriter(Head(jobs)) =>
            In(Head(jobs).who, jobs, writerWaiters)
            /\ ~In(Head(jobs).who, Tail(jobs), writerWaiters)
      /\ \A i \in DOMAIN Tail(jobs) : \E j \in DOMAIN jobs : Tail(jobs)[i] = jobs[j]
  BY <1>1, TailPlaces DEF Queued, Ready
<1>3. Tail(jobs) \in Seq(Tasks)
  BY <1>1, QueueTasks
<1>4. 1 \in DOMAIN jobs /\ Head(jobs) = jobs[1]
  BY <1>1
<1>5. Ready(Tail(jobs)) /\ (Head(jobs).op = "reject" => closed)
  BY <1>2, <1>4 DEF Queued, Ready
<1> QED BY <1>2, <1>3, <1>5

\* A call starts from the beginning: none of its bytes is in the stream yet.
LEMMA CallTells ==
    ASSUME PipeAssumption, RInv, NEW w \in Writers, NEW n \in WriteSizes, WriteCall(w, n)
    PROVE  Queued' /\ Counted'
<1>0. /\ Core /\ calls \in Nat /\ calls' = calls + 1 /\ n \in Nat
      /\ writer \in [Writers -> WriteFrame] /\ accepted \in Seq(Byte) /\ jobs \in Seq(Tasks)
  BY DEF RInv, IInv, Core, State, WriteCall, PipeAssumption
<1>1. CASE n = 0
  <2>1. /\ UNCHANGED <<closed, writerWaiters, jobs, writer, accepted>>
    BY <1>1 DEF WriteCall
  <2>2. \A i \in DOMAIN accepted : accepted[i][1] <= calls'
    <3>1. \A i \in DOMAIN accepted : accepted[i] \in Byte /\ accepted[i][1] <= calls
      BY <1>0 DEF RInv, Counted
    <3> QED BY <1>0, <3>1 DEF Byte
  <2>3. \A v \in Writers : writer[v].call <= calls'
    <3>1. \A v \in Writers : writer[v].call \in Nat /\ writer[v].call <= calls
      BY <1>0 DEF RInv, Counted, WriteFrame
    <3> QED BY <1>0, <3>1
  <2>4. Counted'
    BY <2>1, <2>2, <2>3 DEF RInv, Counted, Tells
  <2> QED BY <2>1, <2>4 DEF RInv, Queued, Ready
<1>2. CASE n # 0
  <2> PICK frame : frame = [busy |-> TRUE, call |-> calls + 1, len |-> n, written |-> 0,
                            result |-> "none"]
    OBVIOUS
  <2>1. frame \in WriteFrame /\ WriteLoop(w, frame, jobs)
    BY <1>0, <1>2 DEF WriteCall, WriteFrame
  <2>2. ~In(w, jobs, writerWaiters)
    BY DEF WriteCall, RInv, Queued, Ready, Halfway
  <2>3. Counts(frame, accepted)
    <3> SUFFICES ASSUME NEW k \in 1..n PROVE ~\E i \in DOMAIN accepted : accepted[i] = <<calls + 1, k>>
      BY <1>0 DEF Counts
    <3> QED BY <1>0 DEF RInv, Counted
  <2>4. \A v \in Writers : writer[v].call # calls + 1
    <3>1. \A v \in Writers : writer[v].call \in Nat /\ writer[v].call <= calls
      BY <1>0 DEF RInv, Counted, WriteFrame
    <3> QED BY <1>0, <3>1
  <2>5. Halfway(frame)
    BY <1>0, <1>2 DEF Halfway
  <2>6. Starts(w, frame, jobs, calls')
    BY <1>0, <2>2, <2>3, <2>4, <2>5 DEF Starts, RInv, Queued
  <2> QED BY <1>0, <2>1, <2>6, WriteLoopTells DEF RInv
<1> QED BY <1>1, <1>2

LEMMA NextTells == PipeAssumption /\ RInv /\ [Next]_vars => RInv'
<1> SUFFICES ASSUME PipeAssumption, RInv, [Next]_vars PROVE RInv'
  OBVIOUS
<1>0. /\ IInv' /\ Core /\ Queued /\ Counted /\ calls \in Nat /\ writer \in [Writers -> WriteFrame]
      /\ accepted \in Seq(Byte) /\ jobs \in Seq(Tasks) /\ writerWaiters \in Seq(Writers)
      /\ readerWaiters \in Seq(Readers)
  BY NextIInv DEF RInv, IInv, Core, State
<1>1. ASSUME NEW w \in Writers, NEW n \in WriteSizes, WriteCall(w, n) PROVE Queued' /\ Counted'
  BY <1>1, CallTells
<1>2. ASSUME NEW w \in Writers, WriteResumes(w) PROVE Queued' /\ Counted'
  <2>1. jobs # << >> /\ Head(jobs).who = w /\ ForWriter(Head(jobs))
        /\ WriteLoop(w, writer[w], Tail(jobs)) /\ calls' = calls
    BY <1>2 DEF WriteResumes, ForWriter
  <2>2. /\ Ready(Tail(jobs)) /\ Tail(jobs) \in Seq(Tasks)
        /\ In(w, jobs, writerWaiters) /\ ~In(w, Tail(jobs), writerWaiters)
    BY <1>0, <2>1, HeadRuns
  <2>3. Halfway(writer[w])
    BY <1>0, <2>2 DEF Queued, Ready
  <2>4. Starts(w, writer[w], Tail(jobs), calls')
    <3>1. \A v \in Writers : v # w /\ writer[v].len > 0 => writer[v].call # writer[w].call
      BY <1>0, <2>3 DEF Counted, Halfway, WriteFrame
    <3> QED BY <1>0, <2>1, <2>2, <2>3, <3>1 DEF Starts, Counted
  <2> QED BY <1>0, <2>1, <2>2, <2>4, WriteLoopTells
<1>3. ASSUME NEW w \in Writers, WriteRejected(w) PROVE Queued' /\ Counted'
  <2>1. /\ jobs # << >> /\ Head(jobs).who = w /\ ForWriter(Head(jobs))
        /\ Head(jobs).op = "reject" /\ jobs' = Tail(jobs)
        /\ UNCHANGED <<closed, writerWaiters, calls, accepted>>
    BY <1>3 DEF WriteRejected, ForWriter
  <2>2. /\ Ready(jobs') /\ closed
        /\ In(w, jobs, writerWaiters) /\ ~In(w, jobs', writerWaiters)
    BY <1>0, <2>1, HeadRuns
  <2>3. Halfway(writer[w])
    BY <1>0, <2>2 DEF Queued, Ready
  <2>4. /\ writer'[w].len = writer[w].len /\ writer'[w].call = writer[w].call
        /\ writer'[w].written = writer[w].written /\ writer'[w].result = "EPIPE"
        /\ \A v \in Writers : v # w => writer'[v] = writer[v]
    BY <1>0, <1>3 DEF WriteRejected, WriteFrame
  <2>5. Queued'
    BY <2>1, <2>2, <2>4 DEF Queued, Ready
  <2>6. ASSUME NEW v \in Writers
        PROVE  writer'[v].call <= calls /\ Counts(writer'[v], accepted) /\ Tells(writer[v])'
    <3>1. CASE v = w
      BY <1>0, <2>1, <2>2, <2>3, <2>4, <3>1 DEF Counted, Counts, Tells, Halfway
    <3>2. CASE v # w
      BY <1>0, <2>1, <2>4, <3>2 DEF Counted, Tells
    <3> QED BY <3>1, <3>2
  <2>7. ASSUME NEW u \in Writers, NEW v \in Writers, writer'[u].len > 0, writer'[v].len > 0,
               writer'[u].call = writer'[v].call
        PROVE  u = v
    BY <1>0, <2>4, <2>7 DEF Counted
  <2> QED BY <1>0, <2>1, <2>5, <2>6, <2>7 DEF Counted
<1>4. ASSUME NEW r \in Readers, NEW frame, NEW rest \in Seq(Tasks), Ready(rest),
             ReadLoop(r, frame, rest)
      PROVE  Queued' /\ Counted'
  BY <1>0, <1>4, ReadLoopTells
<1>5. ASSUME NEW r \in Readers, ReadResumes(r) PROVE Queued' /\ Counted'
  BY <1>0, <1>4, <1>5, HeadRuns DEF ReadResumes
<1>6. ASSUME NEW r \in Drainers, DrainStarts(r) \/ DrainContinues(r) PROVE Queued' /\ Counted'
  BY <1>0, <1>4, <1>6, HeadRuns DEF DrainStarts, DrainContinues, Readers, Queued
<1>7. ASSUME NEW r \in Guests, NEW n \in ReadSizes, ReadCall(r, n) PROVE Queued' /\ Counted'
  BY <1>0, <1>4, <1>7 DEF ReadCall, Readers, Queued
<1>8. CASE CloseWrite
  <2>1. /\ jobs = << >> /\ jobs' = Woken(writerWaiters, "reject") \o Woken(readerWaiters, "read")
        /\ closed' = TRUE /\ ~closed /\ writerWaiters' = << >>
        /\ UNCHANGED <<writer, calls, accepted>>
    BY <1>8 DEF CloseWrite, Spliced
  <2> PICK woken : woken = << >> \o Woken(writerWaiters, "reject")
    OBVIOUS
  <2>2. woken = Woken(writerWaiters, "reject") /\ woken \in Seq(Tasks)
    BY <1>0, WokenTasks, ConcatEmptySeq
  <2>3. /\ Places(woken, << >>)
        /\ \A w : In(w, woken, << >>) <=> In(w, jobs, writerWaiters)
    BY <1>0, <2>1, WokenPlaces DEF Queued, Ready
  <2>4. /\ Places(jobs', << >>)
        /\ \A w : In(w, jobs', << >>) <=> In(w, woken, << >>)
    <3>1. Woken(readerWaiters, "read") \in Seq(Tasks)
      BY <1>0, WokenTasks
    <3>2. \A i \in DOMAIN Woken(readerWaiters, "read") : ~ForWriter(Woken(readerWaiters, "read")[i])
      BY DEF Woken, ForWriter
    <3>3. << >> \in Seq(Writers)
      OBVIOUS
    <3> QED BY <2>1, <2>2, <2>3, <3>1, <3>2, <3>3, MorePlaces
  <2>5. Counted'
    BY <1>0, <2>1 DEF Counted, Tells
  <2>6. Places(jobs', writerWaiters') /\ \A i \in DOMAIN jobs' : jobs'[i].op = "reject" => closed'
    BY <2>1, <2>4
  <2>7. \A w \in Writers : In(w, jobs', writerWaiters') => Halfway(writer'[w])
    BY <1>0, <2>1, <2>3, <2>4 DEF Queued, Ready
  <2> QED BY <1>0, <2>5, <2>6, <2>7 DEF RInv, Queued, Ready
<1>9. CASE UNCHANGED vars
  <2>1. UNCHANGED <<jobs, writerWaiters, closed, writer, calls, accepted>>
    BY <1>9 DEF vars
  <2>2. Queued'
    BY <1>0, <2>1 DEF Queued, Ready
  <2>3. Counted'
    BY <1>0, <2>1 DEF Counted, Tells
  <2> QED BY <1>0, <2>2, <2>3 DEF RInv
<1> QED BY <1>0, <1>1, <1>2, <1>3, <1>5, <1>6, <1>7, <1>8, <1>9 DEF Next, RInv

\* What write() reports is true for every number of callers, however their calls are
\* blocked, resumed and rejected: success when all its bytes went in and only then, and
\* the bytes a failing call has counted are those that stay in the pipe.
THEOREM ResultsTellBytes == Spec => []ResultTellsBytes
<1>1. RInv => ResultTellsBytes
  BY DEF RInv, IInv, Core, FramesFit, Counted, Counts, Tells, ResultTellsBytes, ToSet
<1> QED BY PipeAssumption, InitTells, NextTells, <1>1, PTL DEF Spec

-----------------------------------------------------------------------------
(* The stream is in the order of the calls, proved for any number of callers *)
(* and readers: the writers who share a pipe are served in line.             *)

Ordered(s) ==
    \A i, j \in DOMAIN s :
        i < j => \/ s[i][1] < s[j][1]
                 \/ s[i][1] = s[j][1] /\ s[i][2] < s[j][2]

\* The stream s has come no further than this frame.
Reached(frame, s) ==
    \A i \in DOMAIN s :
        \/ s[i][1] < frame.call
        \/ s[i][1] = frame.call /\ s[i][2] <= frame.written

\* Those who were woken stand in the queue in the order of their calls num, and those who
\* wait again, having just filled the pipe, came before them.
InLine(js, ws, num) ==
    /\ \A i, j \in DOMAIN js :
          i < j /\ js[i].op = "write" /\ js[j].op = "write" => num[js[i].who] < num[js[j].who]
    /\ \A i, j \in DOMAIN ws : i < j => num[ws[i]] < num[ws[j]]
    /\ \A i \in DOMAIN js, j \in DOMAIN ws :
          js[i].op = "write" => num[ws[j]] < num[js[i].who]

Num == [w \in Writers |-> writer[w].call]

Two(js, ws) == \E v, w \in Writers : v # w /\ In(v, js, ws) /\ In(w, js, ws)

\* While two writers are blocked the only reader about is a drain, behind them all: the
\* waiters it wakes are never put behind others that were woken before.
Few ==
    Two(jobs, writerWaiters) =>
        /\ readerWaiters = << >>
        /\ \A i \in DOMAIN jobs : jobs[i].op # "read" /\ (jobs[i].op = "drain" => i = Len(jobs))

Line ==
    /\ Few
    /\ InLine(jobs, writerWaiters, Num)
    /\ \A w \in Writers : In(w, jobs, writerWaiters) => Reached(writer[w], accepted)

OInv == RInv /\ InCallOrder /\ (closed \/ Line)

-----------------------------------------------------------------------------
(* The line.                                                                 *)

LEMMA TailLine ==
    ASSUME NEW js \in Seq(Tasks), NEW ws \in Seq(Writers), NEW num, js # << >>,
           InLine(js, ws, num)
    PROVE  /\ InLine(Tail(js), ws, num)
           /\ Head(js).op = "write" => InLine(Tail(js), Append(ws, Head(js).who), num)
<1> PICK t, h, a : t = Tail(js) /\ h = Head(js) /\ a = Append(ws, h.who)
  OBVIOUS
<1>1. 1 \in DOMAIN js /\ h = js[1]
  OBVIOUS
<1>2. \A k \in DOMAIN t : k + 1 \in DOMAIN js /\ t[k] = js[k + 1] /\ k \in Nat /\ k # 0
  OBVIOUS
<1>3. InLine(t, ws, num)
  <2>1. \A i, j \in DOMAIN t :
           i < j /\ t[i].op = "write" /\ t[j].op = "write" => num[t[i].who] < num[t[j].who]
    <3> SUFFICES ASSUME NEW i \in DOMAIN t, NEW j \in DOMAIN t, i < j,
                        t[i].op = "write", t[j].op = "write"
                 PROVE  num[t[i].who] < num[t[j].who]
      OBVIOUS
    <3>1. i + 1 < j + 1
      BY <1>2
    <3> QED BY <1>2, <3>1 DEF InLine
  <2>2. \A i \in DOMAIN t, j \in DOMAIN ws : t[i].op = "write" => num[ws[j]] < num[t[i].who]
    BY <1>2 DEF InLine
  <2> QED BY <2>1, <2>2 DEF InLine
<1>4. ASSUME h.op = "write" PROVE InLine(t, a, num)
  <2>1. \A j \in DOMAIN a : \/ j \in DOMAIN ws /\ a[j] = ws[j]
                            \/ j = Len(ws) + 1 /\ a[j] = h.who
    BY <1>1
  <2>2. \A i, j \in DOMAIN a : i < j => num[a[i]] < num[a[j]]
    <3> SUFFICES ASSUME NEW i \in DOMAIN a, NEW j \in DOMAIN a, i < j PROVE num[a[i]] < num[a[j]]
      OBVIOUS
    <3>1. i \in DOMAIN ws /\ a[i] = ws[i]
      BY <1>1
    <3>2. CASE j \in DOMAIN ws /\ a[j] = ws[j]
      BY <3>1, <3>2 DEF InLine
    <3>3. CASE a[j] = h.who
      BY <1>1, <1>4, <3>1, <3>3 DEF InLine
    <3> QED BY <2>1, <3>2, <3>3
  <2>3. ASSUME NEW i \in DOMAIN t, NEW j \in DOMAIN a, t[i].op = "write"
        PROVE  num[a[j]] < num[t[i].who]
    <3>1. 1 < i + 1 /\ i + 1 \in DOMAIN js /\ t[i] = js[i + 1]
      BY <1>2
    <3>2. num[h.who] < num[t[i].who]
      BY <1>1, <1>4, <2>3, <3>1 DEF InLine
    <3> QED BY <2>1, <2>3, <3>1, <3>2 DEF InLine
  <2> QED BY <1>3, <2>2, <2>3 DEF InLine
<1> QED BY <1>3, <1>4

\* Tasks of readers make no difference.
LEMMA MoreLine ==
    ASSUME NEW js \in Seq(Tasks), NEW os \in Seq(Tasks), NEW ws \in Seq(Writers), NEW num,
           InLine(js, ws, num), \A i \in DOMAIN os : os[i].op # "write"
    PROVE  InLine(js \o os, ws, num)
<1> PICK t : t = js \o os
  OBVIOUS
<1>1. \A i \in DOMAIN t : (i \in DOMAIN js /\ t[i] = js[i]) \/ t[i].op # "write"
  <2> SUFFICES ASSUME NEW i \in DOMAIN t, i \notin DOMAIN js PROVE t[i].op # "write"
    OBVIOUS
  <2>1. i - Len(js) \in DOMAIN os /\ t[i] = os[i - Len(js)]
    OBVIOUS
  <2> QED BY <2>1
<1>3. InLine(t, ws, num)
  BY <1>1 DEF InLine
<1> QED BY <1>3

\* Waiters keep their order when they are woken into a queue without writers.
LEMMA WokenLine ==
    ASSUME NEW js \in Seq(Tasks), NEW ws \in Seq(Writers), NEW num, InLine(js, ws, num),
           ws # << >> => \A i \in DOMAIN js : js[i].op # "write"
    PROVE  InLine(js \o Woken(ws, "write"), << >>, num)
<1>0. PICK t, n, o, ks : t = js \o ks /\ ks = Woken(ws, "write") /\ n = Len(js) /\ o = << >>
  OBVIOUS
<1>1. ks \in Seq(Tasks) /\ Len(ks) = Len(ws) /\ n \in Nat
  BY <1>0, WokenTasks DEF Woken
<1>2. \A j \in DOMAIN ws : j \in DOMAIN ks /\ ks[j].op = "write" /\ ks[j].who = ws[j] /\ j \in Nat
  BY <1>0 DEF Woken
<1>3. DOMAIN ks = DOMAIN ws
  BY <1>1
<1>4. \A i \in DOMAIN t :
         \/ i \in DOMAIN js /\ t[i] = js[i]
         \/ i - n \in DOMAIN ws /\ t[i].who = ws[i - n] /\ i \in Nat
  <2> SUFFICES ASSUME NEW i \in DOMAIN t, i \notin DOMAIN js
               PROVE  i - n \in DOMAIN ws /\ t[i].who = ws[i - n] /\ i \in Nat
    BY <1>0, <1>1
  <2>1. i - n \in DOMAIN ks /\ t[i] = ks[i - n] /\ i \in Nat
    BY <1>0, <1>1
  <2> QED BY <1>2, <1>3, <2>1
<1>5. \A i, j \in DOMAIN t :
         i < j /\ t[i].op = "write" /\ t[j].op = "write" => num[t[i].who] < num[t[j].who]
  <2> SUFFICES ASSUME NEW i \in DOMAIN t, NEW j \in DOMAIN t, i < j,
                      t[i].op = "write", t[j].op = "write"
               PROVE  num[t[i].who] < num[t[j].who]
    OBVIOUS
  <2>1. CASE i \in DOMAIN js /\ t[i] = js[i] /\ j \in DOMAIN js /\ t[j] = js[j]
    BY <2>1 DEF InLine
  <2>2. CASE /\ i - n \in DOMAIN ws /\ t[i].who = ws[i - n] /\ i \in Nat
             /\ j - n \in DOMAIN ws /\ t[j].who = ws[j - n] /\ j \in Nat
    <3>1. i - n < j - n
      BY <1>1, <2>2
    <3> QED BY <2>2, <3>1 DEF InLine
  <2>3. CASE i \in DOMAIN js /\ t[i] = js[i] /\ j - n \in DOMAIN ws
    <3>1. ws # << >>
      BY <2>3
    <3> QED BY <2>3, <3>1
  <2>4. CASE j \in DOMAIN js /\ t[j] = js[j] /\ i - n \in DOMAIN ws
    <3>1. ws # << >>
      BY <2>4
    <3> QED BY <2>4, <3>1
  <2> QED BY <1>4, <2>1, <2>2, <2>3, <2>4
<1>6. DOMAIN o = {}
  BY <1>0
<1>7. InLine(t, o, num)
  BY <1>5, <1>6 DEF InLine
<1> QED BY <1>0, <1>7

-----------------------------------------------------------------------------
(* The stream.                                                               *)

\* A round of write() goes on where the stream has come to.
LEMMA SliceOrder ==
    ASSUME NEW s \in Seq(Byte), NEW frame \in WriteFrame, NEW take \in Nat,
           Ordered(s), Reached(frame, s),
           NEW t, t = s \o Slice(frame, take)
    PROVE  /\ Ordered(t)
           /\ \A f \in WriteFrame :
                 f.call = frame.call /\ f.written = frame.written + take => Reached(f, t)
           /\ \A g \in WriteFrame :
                 Reached(g, s) /\ (take = 0 \/ frame.call < g.call) => Reached(g, t)
<1> PICK more, n : more = Slice(frame, take) /\ n = Len(s)
  OBVIOUS
<1>1. /\ more \in Seq(Byte) /\ Len(more) = take /\ n \in Nat
      /\ \A i \in 1..take : more[i] = <<frame.call, frame.written + i>>
      /\ frame.call \in Nat /\ frame.written \in Nat
  BY DEF Slice, Byte, WriteFrame
<1>2. \A i \in DOMAIN t :
         \/ i \in DOMAIN s /\ t[i] = s[i]
         \/ /\ i \in Nat /\ i - n \in 1..take /\ i \notin DOMAIN s
            /\ t[i][1] = frame.call /\ t[i][2] = frame.written + (i - n)
  <2> SUFFICES ASSUME NEW i \in DOMAIN t, i \notin DOMAIN s
               PROVE  /\ i \in Nat /\ i - n \in 1..take
                      /\ t[i][1] = frame.call /\ t[i][2] = frame.written + (i - n)
    BY <1>1
  <2>1. i \in Nat /\ i - n \in 1..take /\ t[i] = more[i - n]
    BY <1>1
  <2>2. t[i] = <<frame.call, frame.written + (i - n)>>
    BY <1>1, <2>1
  <2> QED BY <2>1, <2>2
<1>3. \A i \in DOMAIN s : s[i][1] \in Nat /\ s[i][2] \in Nat /\ i \in 1..n
  <2>1. \A i \in DOMAIN s : s[i] \in Byte /\ i \in 1..n
    OBVIOUS
  <2> QED BY <2>1 DEF Byte
<1>4. ASSUME NEW i \in DOMAIN t, NEW j \in DOMAIN t, i < j
      PROVE  t[i][1] < t[j][1] \/ (t[i][1] = t[j][1] /\ t[i][2] < t[j][2])
  <2>1. CASE i \in DOMAIN s /\ t[i] = s[i] /\ j \in DOMAIN s /\ t[j] = s[j]
    BY <1>4, <2>1 DEF Ordered
  <2>2. CASE /\ i \in DOMAIN s /\ t[i] = s[i] /\ j \in Nat /\ j - n \in 1..take
             /\ t[j][1] = frame.call /\ t[j][2] = frame.written + (j - n)
    BY <1>1, <1>3, <2>2 DEF Reached
  <2>3. CASE /\ i \in Nat /\ i - n \in 1..take /\ j \in Nat /\ j - n \in 1..take
             /\ t[i][1] = frame.call /\ t[i][2] = frame.written + (i - n)
             /\ t[j][1] = frame.call /\ t[j][2] = frame.written + (j - n)
    BY <1>1, <1>4, <2>3
  <2>4. CASE i \in Nat /\ i - n \in 1..take /\ j \in DOMAIN s
    BY <1>1, <1>3, <1>4, <2>4
  <2> QED BY <1>2, <2>1, <2>2, <2>3, <2>4
<1>5. ASSUME NEW f \in WriteFrame, f.call = frame.call, f.written = frame.written + take,
             NEW i \in DOMAIN t
      PROVE  t[i][1] < f.call \/ (t[i][1] = f.call /\ t[i][2] <= f.written)
  <2>1. CASE i \in DOMAIN s /\ t[i] = s[i]
    BY <1>1, <1>3, <1>5, <2>1 DEF Reached
  <2>2. CASE i \in Nat /\ i - n \in 1..take /\ t[i][1] = frame.call /\ t[i][2] = frame.written + (i - n)
    BY <1>1, <1>5, <2>2
  <2> QED BY <1>2, <2>1, <2>2
<1>6. ASSUME NEW g \in WriteFrame, Reached(g, s), take = 0 \/ frame.call < g.call,
             NEW i \in DOMAIN t
      PROVE  t[i][1] < g.call \/ (t[i][1] = g.call /\ t[i][2] <= g.written)
  <2>1. CASE i \in DOMAIN s /\ t[i] = s[i]
    BY <1>6, <2>1 DEF Reached
  <2>2. CASE i \in Nat /\ i - n \in 1..take /\ t[i][1] = frame.call
    BY <1>1, <1>6, <2>2
  <2> QED BY <1>2, <2>1, <2>2
<1> QED BY <1>4, <1>5, <1>6 DEF Ordered, Reached

LEMMA SliceBytes == \A f \in WriteFrame, n \in Nat : Slice(f, n) \in Seq(Byte)
BY DEF Slice, Byte, WriteFrame

LEMMA OrderedIsInCallOrder == accepted \in Seq(Byte) => (InCallOrder <=> Ordered(accepted))
BY DEF InCallOrder, Ordered

-----------------------------------------------------------------------------
(* The loops.                                                                *)

\* A round of write(), for a writer who is next in the line.
LEMMA WriteLoopInOrder ==
    ASSUME PipeAssumption, Core, InCallOrder, ~closed,
           NEW w \in Writers, NEW frame \in WriteFrame, NEW rest \in Seq(Tasks),
           NEW num, num \in [Writers -> Nat], num[w] = frame.call,
           \A v \in Writers : v # w => num[v] = writer[v].call,
           Ready(rest), ~In(w, rest, writerWaiters), frame.written < frame.len,
           InLine(rest, writerWaiters, num), InLine(rest, Append(writerWaiters, w), num),
           Reached(frame, accepted),
           \A v \in Writers : In(v, rest, writerWaiters) => Reached(writer[v], accepted),
           (\E v \in Writers : In(v, rest, writerWaiters)) =>
               /\ readerWaiters = << >>
               /\ \A i \in DOMAIN rest :
                     rest[i].op # "read" /\ (rest[i].op = "drain" => i = Len(rest)),
           WriteLoop(w, frame, rest)
    PROVE  InCallOrder' /\ Line'
<1>0. /\ writer \in [Writers -> WriteFrame] /\ WriteFills(w, frame, rest)
      /\ writerWaiters \in Seq(Writers) /\ readerWaiters \in Seq(Readers)
      /\ accepted \in Seq(Byte) /\ Places(rest, writerWaiters)
      /\ \A i \in DOMAIN rest : rest[i].op # "reject"
  BY DEF Core, State, WriteLoop, WriteThrows, Ready
<1> PICK take, done : take = Lesser(Space, frame.len - frame.written) /\ done = frame.written + take
  OBVIOUS
<1>1. /\ take \in Nat /\ done \in Nat
      /\ writerWaiters # << >> => take = 0
  <2>1. Space \in Nat /\ frame.len \in Nat /\ frame.written \in Nat
        /\ frame.len - frame.written \in Nat
    BY DEF Space, Core, State, SizeExact, PipeAssumption, WriteFrame
  <2>2. take \in Nat /\ take <= Space
    BY <2>1, LesserProperties
  <2>3. writerWaiters # << >> => Space = 0
    BY DEF Core, State, NoLostWakeup, Space, PipeAssumption
  <2> QED BY <2>1, <2>2, <2>3
<1>2. /\ accepted' = accepted \o Slice(frame, take)
      /\ \/ jobs' = rest /\ (readerWaiters' = readerWaiters \/ readerWaiters' = << >>)
         \/ jobs' = rest \o Woken(readerWaiters, "read") /\ readerWaiters' = << >>
      /\ writerWaiters' = writerWaiters \/ writerWaiters' = Append(writerWaiters, w)
      /\ \A v \in Writers : v # w => writer'[v] = writer[v]
      /\ writer'[w] \in WriteFrame /\ writer'[w].call = frame.call /\ writer'[w].written = done
  <2>1. /\ accepted' = accepted \o Slice(frame, take)
        /\ \/ jobs' = rest /\ (readerWaiters' = readerWaiters \/ readerWaiters' = << >>)
           \/ jobs' = rest \o Woken(readerWaiters, "read") /\ readerWaiters' = << >>
        /\ writerWaiters' = writerWaiters \/ writerWaiters' = Append(writerWaiters, w)
    BY <1>0 DEF WriteFills, Spliced
  <2>2. \/ writer' = [writer EXCEPT ![w] = [frame EXCEPT !.written = done]]
        \/ writer' = [writer EXCEPT ![w] =
                         [frame EXCEPT !.busy = FALSE, !.written = done, !.result = "ok"]]
    BY <1>0 DEF WriteFills
  <2>3. /\ \A v \in Writers : v # w => writer'[v] = writer[v]
        /\ \/ writer'[w] = [frame EXCEPT !.written = done]
           \/ writer'[w] = [frame EXCEPT !.busy = FALSE, !.written = done, !.result = "ok"]
    BY <1>0, <2>2
  <2>4. writer'[w] \in WriteFrame /\ writer'[w].call = frame.call /\ writer'[w].written = done
    BY <1>1, <2>3 DEF WriteFrame
  <2> QED BY <2>1, <2>3, <2>4
<1>3. /\ InLine(jobs', writerWaiters, num) /\ InLine(jobs', Append(writerWaiters, w), num)
      /\ Places(jobs', writerWaiters) /\ jobs' \in Seq(Tasks)
      /\ \A v : In(v, jobs', writerWaiters) <=> In(v, rest, writerWaiters)
  <2>1. CASE jobs' = rest
    BY <1>0, <2>1
  <2>2. CASE jobs' = rest \o Woken(readerWaiters, "read")
    <3> PICK os, ws : os = Woken(readerWaiters, "read") /\ ws = Append(writerWaiters, w)
      OBVIOUS
    <3>1. os \in Seq(Tasks) /\ ws \in Seq(Writers)
      BY <1>0, WokenTasks
    <3>2. \A i \in DOMAIN os : os[i].op # "write" /\ ~ForWriter(os[i])
      BY DEF Woken, ForWriter
    <3>3. InLine(jobs', writerWaiters, num)
      BY <1>0, <2>2, <3>1, <3>2, MoreLine
    <3>4. InLine(jobs', ws, num)
      BY <2>2, <3>1, <3>2, MoreLine
    <3>5. Places(jobs', writerWaiters)
          /\ \A v : In(v, jobs', writerWaiters) <=> In(v, rest, writerWaiters)
      BY <1>0, <2>2, <3>1, <3>2, MorePlaces
    <3> QED BY <2>2, <3>1, <3>3, <3>4, <3>5, ConcatProperties
  <2> QED BY <1>2, <2>1, <2>2
<1>4. Num' = num
  <2>1. ASSUME NEW v \in Writers PROVE writer'[v].call = num[v]
    BY <1>2
  <2> QED BY <2>1 DEF Num
<1>5. \A v : In(v, jobs', writerWaiters') => v = w \/ In(v, rest, writerWaiters)
  <2>1. CASE writerWaiters' = writerWaiters
    BY <1>3, <2>1
  <2>2. CASE writerWaiters' = Append(writerWaiters, w)
    <3>1. ~In(w, jobs', writerWaiters)
      BY <1>3
    <3>2. \A v : In(v, jobs', writerWaiters') => v = w \/ In(v, jobs', writerWaiters)
      BY <1>0, <1>3, <2>2, <3>1, AppendPlaces
    <3> QED BY <1>3, <3>2
  <2> QED BY <1>2, <2>1, <2>2
<1>6. /\ Ordered(accepted') /\ Reached(writer'[w], accepted')
      /\ \A g \in WriteFrame :
            Reached(g, accepted) /\ (take = 0 \/ frame.call < g.call) => Reached(g, accepted')
  <2>1. Ordered(accepted)
    BY <1>0, OrderedIsInCallOrder
  <2> PICK t : t = accepted'
    OBVIOUS
  <2>2. t = accepted \o Slice(frame, take)
    BY <1>2
  <2>3. /\ Ordered(t)
        /\ \A f \in WriteFrame :
              f.call = frame.call /\ f.written = frame.written + take => Reached(f, t)
        /\ \A g \in WriteFrame :
              Reached(g, accepted) /\ (take = 0 \/ frame.call < g.call) => Reached(g, t)
    <3>1. accepted \in Seq(Byte) /\ take \in Nat
      BY <1>0, <1>1
    <3> QED BY <2>1, <2>2, <3>1, SliceOrder
  <2> QED BY <1>2, <2>3
<1>7. ASSUME NEW v \in Writers, In(v, rest, writerWaiters), v # w
      PROVE  take = 0 \/ frame.call < writer[v].call
  <2>1. CASE writerWaiters # << >>
    BY <1>1, <2>1
  <2>2. CASE writerWaiters = << >>
    <3>1. PICK i \in DOMAIN rest : ForWriter(rest[i]) /\ rest[i].who = v
      BY <1>7, <2>2 DEF In
    <3>2. rest[i].op = "write"
      BY <1>0, <3>1 DEF ForWriter
    <3> PICK ws : ws = Append(writerWaiters, w)
      OBVIOUS
    <3>3. 1 \in DOMAIN ws /\ ws[1] = w
      BY <2>2
    <3>4. num[w] < num[v]
      BY <3>1, <3>2, <3>3 DEF InLine
    <3> QED BY <1>7, <3>4
  <2> QED BY <2>1, <2>2
<1>8. \A v \in Writers : In(v, jobs', writerWaiters') => Reached(writer'[v], accepted')
  <2> SUFFICES ASSUME NEW v \in Writers, In(v, jobs', writerWaiters'), v # w
               PROVE  Reached(writer'[v], accepted')
    BY <1>6
  <2>1. In(v, rest, writerWaiters) /\ writer'[v] = writer[v] /\ writer[v] \in WriteFrame
    BY <1>0, <1>2, <1>5
  <2> QED BY <1>6, <1>7, <2>1
<1>9. Few'
  <2> SUFFICES ASSUME Two(jobs', writerWaiters')
               PROVE  /\ readerWaiters' = << >>
                      /\ \A i \in DOMAIN jobs' :
                            jobs'[i].op # "read" /\ (jobs'[i].op = "drain" => i = Len(jobs'))
    BY DEF Few
  <2>1. \E v \in Writers : In(v, rest, writerWaiters)
    BY <1>5 DEF Two
  <2>2. /\ readerWaiters = << >>
        /\ \A i \in DOMAIN rest :
              rest[i].op # "read" /\ (rest[i].op = "drain" => i = Len(rest))
    BY <2>1
  <2>3. rest \o Woken(readerWaiters, "read") = rest
    <3>1. Woken(readerWaiters, "read") = << >>
      BY <2>2, WokenTasks DEF Woken
    <3> QED BY <3>1, ConcatEmptySeq
  <2>4. jobs' = rest /\ readerWaiters' = << >>
    BY <1>2, <2>2, <2>3
  <2> QED BY <2>2, <2>4
<1>10. InLine(jobs', writerWaiters', Num')
  BY <1>2, <1>3, <1>4
<1>11. accepted' \in Seq(Byte) /\ (InCallOrder' <=> Ordered(accepted'))
  <2>1. Slice(frame, take) \in Seq(Byte)
    BY <1>1, SliceBytes
  <2>2. accepted' \in Seq(Byte)
    BY <1>0, <1>2, <2>1, ConcatProperties
  <2>3. DOMAIN accepted' = 1..Len(accepted')
    BY <2>2, LenProperties
  <2> QED BY <2>2, <2>3 DEF InCallOrder, Ordered
<1> QED BY <1>6, <1>8, <1>9, <1>10, <1>11 DEF Line

\* A read, for a reader who has nobody to overtake.
LEMMA ReadLoopInOrder ==
    ASSUME PipeAssumption, Core, InCallOrder, ~closed,
           NEW r \in Readers, NEW frame, NEW rest \in Seq(Tasks),
           Ready(rest), InLine(rest, writerWaiters, Num),
           \A v \in Writers : In(v, rest, writerWaiters) => Reached(writer[v], accepted),
           Two(rest, writerWaiters) => rest = << >> /\ readerWaiters = << >>,
           ReadLoop(r, frame, rest)
    PROVE  InCallOrder' /\ Line'
<1>0. /\ writer' = writer /\ accepted' = accepted
      /\ writerWaiters \in Seq(Writers) /\ Places(rest, writerWaiters)
      /\ ~ReadEnds(r, frame, rest)
  BY DEF ReadLoop, ReadEnds, AtEnd, Core, State, Ready
<1>1. InCallOrder' /\ Num' = Num
  BY <1>0 DEF InCallOrder, Num
<1>2. CASE ReadWaits(r, frame, rest)
  <2>1. size = 0 /\ jobs' = rest /\ writerWaiters' = writerWaiters
    BY <1>2 DEF ReadWaits
  <2>2. ~Two(rest, writerWaiters)
    <3> SUFFICES ASSUME Two(rest, writerWaiters) PROVE FALSE
      OBVIOUS
    <3>1. rest = << >>
      OBVIOUS
    <3>2. writerWaiters # << >>
      BY <3>1 DEF Two, In
    <3> QED BY <2>1, <3>2 DEF Core, NoLostWakeup, PipeAssumption
  <2>3. Few'
    BY <2>1, <2>2 DEF Few
  <2> QED BY <1>0, <1>1, <2>1, <2>3 DEF Line
<1>3. CASE CopyOut(r, frame, rest)
  <2> DEFINE woken == rest \o Woken(writerWaiters, "write")
             again == IF r \in Drainers THEN << [op |-> "drain", who |-> r] >> ELSE << >>
  <2>1. jobs' = woken \o again /\ writerWaiters' = << >> /\ readerWaiters' = readerWaiters
    BY <1>3 DEF CopyOut, Spliced
  <2>2. /\ Places(woken, << >>)
        /\ \A w : In(w, woken, << >>) <=> In(w, rest, writerWaiters)
    BY <1>0, WokenPlaces
  <2>3. woken \in Seq(Tasks)
    BY <1>0, WokenTasks, ConcatProperties
  <2>4. again \in Seq(Tasks) /\ \A i \in DOMAIN again : ~ForWriter(again[i]) /\ again[i].op = "drain" /\ i = Len(again)
    <3>1. CASE r \in Drainers
      BY <3>1 DEF Tasks, ForWriter
    <3>2. CASE r \notin Drainers
      BY <3>2
    <3> QED BY <3>1, <3>2
  <2>5. writerWaiters # << >> => \A i \in DOMAIN rest : rest[i].op # "write"
    <3> SUFFICES ASSUME writerWaiters # << >>, NEW i \in DOMAIN rest, rest[i].op = "write"
                 PROVE  FALSE
      OBVIOUS
    <3>1. 1 \in DOMAIN writerWaiters /\ writerWaiters[1] \in Writers
      BY <1>0
    <3>2. rest[i] \in Tasks
      OBVIOUS
    <3>3. rest[i].who \in Writers
      BY <3>2 DEF Tasks
    <3>4. rest[i].who # writerWaiters[1] /\ ForWriter(rest[i])
      BY <1>0, <3>1 DEF Places, ForWriter
    <3>5. In(rest[i].who, rest, writerWaiters) /\ In(writerWaiters[1], rest, writerWaiters)
      BY <3>1, <3>4 DEF In
    <3>6. rest = << >>
      BY <3>1, <3>3, <3>4, <3>5 DEF Two
    <3> QED BY <3>6
  <2>6. InLine(woken, << >>, Num)
    <3> PICK num : num = Num
      OBVIOUS
    <3> QED BY <1>0, <2>5, WokenLine
  <2>7. /\ InLine(jobs', << >>, Num)
        /\ \A w : In(w, jobs', << >>) <=> In(w, rest, writerWaiters)
    <3> HIDE DEF woken, again
    <3> PICK none, all, num : none = << >> /\ all = woken \o again /\ num = Num
      OBVIOUS
    <3>1. none \in Seq(Writers) /\ Places(woken, none) /\ InLine(woken, none, num)
      BY <2>2, <2>6
    <3>2. InLine(all, none, num)
      <4>1. \A i \in DOMAIN again : again[i].op # "write"
        BY <2>4
      <4> QED BY <2>3, <2>4, <3>1, <4>1, MoreLine
    <3>3. \A w : In(w, all, none) <=> In(w, woken, none)
      BY <2>3, <2>4, <3>1, MorePlaces
    <3> QED BY <2>1, <2>2, <3>2, <3>3
  <2>8. Few'
    <3> SUFFICES ASSUME Two(jobs', writerWaiters')
                 PROVE  /\ readerWaiters' = << >>
                        /\ \A i \in DOMAIN jobs' :
                              jobs'[i].op # "read" /\ (jobs'[i].op = "drain" => i = Len(jobs'))
      BY DEF Few
    <3>1. Two(rest, writerWaiters)
      BY <2>1, <2>7 DEF Two
    <3>2. rest = << >> /\ readerWaiters' = << >>
      BY <2>1, <3>1
    <3>3. woken = Woken(writerWaiters, "write")
      BY <1>0, <3>2, WokenTasks, ConcatEmptySeq
    <3>4. \A i \in DOMAIN woken : woken[i].op = "write"
      BY <3>3 DEF Woken
    <3>5. \A i \in DOMAIN jobs' : jobs'[i].op # "read" /\ (jobs'[i].op = "drain" => i = Len(jobs'))
      <4> HIDE DEF woken, again
      <4> SUFFICES ASSUME NEW i \in DOMAIN jobs'
                   PROVE  jobs'[i].op # "read" /\ (jobs'[i].op = "drain" => i = Len(jobs'))
        OBVIOUS
      <4>1. CASE i \in DOMAIN woken
        <5>1. jobs'[i] = woken[i]
          BY <2>1, <2>3, <2>4, <4>1
        <5> QED BY <3>4, <4>1, <5>1
      <4>2. CASE i \notin DOMAIN woken
        <5>1. /\ i - Len(woken) \in DOMAIN again /\ jobs'[i] = again[i - Len(woken)]
              /\ Len(jobs') = Len(woken) + Len(again)
          BY <2>1, <2>3, <2>4, <4>2
        <5>2. again[i - Len(woken)].op = "drain" /\ i - Len(woken) = Len(again)
          BY <2>4, <5>1
        <5>3. i \in Nat /\ Len(woken) \in Nat /\ Len(again) \in Nat
          BY <2>1, <2>3, <2>4
        <5> QED BY <5>1, <5>2, <5>3
      <4> QED BY <4>1, <4>2
    <3> QED BY <3>2, <3>5
  <2>9. InLine(jobs', writerWaiters', Num') /\ \A w \in Writers :
            In(w, jobs', writerWaiters') => Reached(writer'[w], accepted')
    BY <1>0, <1>1, <2>1, <2>7
  <2> QED BY <1>1, <2>8, <2>9 DEF Line
<1> QED BY <1>0, <1>2, <1>3 DEF ReadLoop

-----------------------------------------------------------------------------
(* The invariant, one step per action.                                       *)

LEMMA InitInOrder == PipeAssumption /\ Init => OInv
<1> SUFFICES ASSUME PipeAssumption, Init PROVE OInv
  OBVIOUS
<1>1. \A w : ~In(w, jobs, writerWaiters)
  BY DEF Init, In
<1>2. Few
  BY <1>1 DEF Few, Two
<1> QED BY <1>1, <1>2, InitTells DEF Init, OInv, InCallOrder, Line, InLine

\* A new call goes to the end of the line.
LEMMA CallInOrder ==
    ASSUME PipeAssumption, OInv, ~closed, NEW w \in Writers, NEW n \in WriteSizes, WriteCall(w, n)
    PROVE  InCallOrder' /\ Line'
<1>0. /\ Core /\ calls \in Nat /\ calls' = calls + 1 /\ n \in Nat /\ jobs = << >>
      /\ writer \in [Writers -> WriteFrame] /\ accepted \in Seq(Byte) /\ jobs \in Seq(Tasks)
      /\ writerWaiters \in Seq(Writers)
      /\ \A v \in Writers : writer[v].call \in Nat /\ writer[v].call <= calls
      /\ InCallOrder /\ Line /\ Queued
  BY DEF OInv, RInv, Counted, IInv, Core, State, WriteCall, WriteFrame, PipeAssumption
<1>1. CASE n = 0
  <2>1. UNCHANGED <<jobs, writerWaiters, readerWaiters, writer, accepted>>
    BY <1>1 DEF WriteCall
  <2> QED BY <1>0, <2>1 DEF InCallOrder, Line, Few, Num
<1>2. CASE n # 0
  <2> PICK frame : frame = [busy |-> TRUE, call |-> calls + 1, len |-> n, written |-> 0,
                            result |-> "none"]
    OBVIOUS
  <2>1. frame \in WriteFrame /\ WriteLoop(w, frame, jobs) /\ frame.written < frame.len
    BY <1>0, <1>2 DEF WriteCall, WriteFrame
  <2>2. ~In(w, jobs, writerWaiters)
    BY DEF WriteCall, OInv, RInv, Queued, Ready, Halfway
  <2>3. PICK num : num = [Num EXCEPT ![w] = frame.call]
    OBVIOUS
  <2>4. /\ num \in [Writers -> Nat] /\ num[w] = calls + 1
        /\ \A v \in Writers : v # w => num[v] = writer[v].call
    BY <1>0, <2>3 DEF Num
  <2>5. \A j \in DOMAIN writerWaiters :
           writerWaiters[j] \in Writers /\ writerWaiters[j] # w
           /\ num[writerWaiters[j]] = Num[writerWaiters[j]]
           /\ num[writerWaiters[j]] <= calls
    <3>1. \A j \in DOMAIN writerWaiters : writerWaiters[j] \in Writers /\ writerWaiters[j] # w
      BY <1>0, <2>2 DEF In
    <3> QED BY <1>0, <2>4, <3>1 DEF Num
  <2>6. InLine(jobs, writerWaiters, num)
    BY <1>0, <2>5 DEF Line, InLine
  <2>7. InLine(jobs, Append(writerWaiters, w), num)
    <3> PICK t : t = Append(writerWaiters, w)
      OBVIOUS
    <3>1. \A j \in DOMAIN t : \/ j \in DOMAIN writerWaiters /\ t[j] = writerWaiters[j]
                              \/ j = Len(writerWaiters) + 1 /\ t[j] = w
      BY <1>0
    <3>2. ASSUME NEW i \in DOMAIN t, NEW j \in DOMAIN t, i < j PROVE num[t[i]] < num[t[j]]
      <4>1. i \in DOMAIN writerWaiters /\ t[i] = writerWaiters[i]
        BY <1>0, <3>2
      <4>2. num[t[i]] \in Nat /\ num[t[i]] <= calls
        BY <2>4, <2>5, <4>1
      <4>3. CASE j \in DOMAIN writerWaiters /\ t[j] = writerWaiters[j]
        BY <2>6, <3>2, <4>1, <4>3 DEF InLine
      <4>4. CASE t[j] = w
        BY <1>0, <2>4, <4>2, <4>4
      <4> QED BY <3>1, <4>3, <4>4
    <3>3. InLine(jobs, t, num)
      BY <1>0, <3>2 DEF InLine
    <3> QED BY <3>3
  <2>8. Reached(frame, accepted)
    <3>1. \A i \in DOMAIN accepted : accepted[i] \in Byte /\ accepted[i][1] <= calls
      BY <1>0 DEF OInv, RInv, Counted
    <3> QED BY <1>0, <3>1 DEF Reached, Byte
  <2>9. (\E v \in Writers : In(v, jobs, writerWaiters)) => readerWaiters = << >>
    <3> SUFFICES ASSUME writerWaiters # << >> PROVE readerWaiters = << >>
      BY <1>0 DEF In
    <3> QED BY <1>0 DEF Core, NoLostWakeup, PipeAssumption
  <2>10. \A v \in Writers : In(v, jobs, writerWaiters) => Reached(writer[v], accepted)
    BY <1>0 DEF Line
  <2>11. num[w] = frame.call
    BY <2>4
  <2>12. PICK rest : rest = jobs
    OBVIOUS
  <2>13. (\E v \in Writers : In(v, rest, writerWaiters)) =>
               /\ readerWaiters = << >>
               /\ \A i \in DOMAIN rest :
                     rest[i].op # "read" /\ (rest[i].op = "drain" => i = Len(rest))
    BY <1>0, <2>9, <2>12
  <2>14. /\ Ready(rest) /\ ~In(w, rest, writerWaiters) /\ rest \in Seq(Tasks)
         /\ InLine(rest, writerWaiters, num) /\ InLine(rest, Append(writerWaiters, w), num)
         /\ \A v \in Writers : In(v, rest, writerWaiters) => Reached(writer[v], accepted)
         /\ WriteLoop(w, frame, rest)
    BY <1>0, <2>1, <2>2, <2>6, <2>7, <2>10, <2>12 DEF Queued
  <2>15. Core /\ InCallOrder
    BY <1>0
  <2> QED BY <2>1, <2>4, <2>8, <2>11, <2>13, <2>14, <2>15, WriteLoopInOrder
<1> QED BY <1>1, <1>2

LEMMA NextInOrder == PipeAssumption /\ OInv /\ [Next]_vars => OInv'
<1> SUFFICES ASSUME PipeAssumption, OInv, [Next]_vars PROVE OInv'
  OBVIOUS
<1>0. /\ RInv' /\ IInv' /\ IInv
  BY NextTells DEF OInv, RInv
<1>1. CASE closed
  <2>1. [Stream!Next]_(Stream!vars)
    BY <1>0, StepRefines
  <2>2. closed' /\ accepted' = accepted
    BY <1>1, <2>1 DEF Stream!Next, Stream!vars, Stream!Send, Stream!Receive, Stream!Close, Stream!TellEnd
  <2> QED BY <1>0, <2>2 DEF OInv, InCallOrder
<1>2. CASE ~closed
  <2>0. /\ Core /\ Queued /\ Counted /\ Line /\ InCallOrder /\ Ready(jobs)
        /\ writer \in [Writers -> WriteFrame]
        /\ accepted \in Seq(Byte) /\ jobs \in Seq(Tasks) /\ writerWaiters \in Seq(Writers)
    BY <1>2 DEF OInv, RInv, IInv, Core, State, Queued
  <2>1. ASSUME NEW w \in Writers, NEW n \in WriteSizes, WriteCall(w, n) PROVE InCallOrder' /\ Line'
    BY <1>2, <2>1, CallInOrder
  <2>10. ASSUME jobs # << >>
         PROVE  /\ Ready(Tail(jobs)) /\ Tail(jobs) \in Seq(Tasks) /\ Head(jobs).op # "reject"
                /\ \A w : In(w, Tail(jobs), writerWaiters) => In(w, jobs, writerWaiters)
                /\ InLine(Tail(jobs), writerWaiters, Num)
                /\ Head(jobs).op = "write" =>
                      /\ InLine(Tail(jobs), Append(writerWaiters, Head(jobs).who), Num)
                      /\ In(Head(jobs).who, jobs, writerWaiters)
                      /\ ~In(Head(jobs).who, Tail(jobs), writerWaiters)
                /\ \A i \in DOMAIN Tail(jobs) :
                      i + 1 \in DOMAIN jobs /\ Tail(jobs)[i] = jobs[i + 1]
                      /\ (i + 1 = Len(jobs) => i = Len(Tail(jobs)))
    <3>1. /\ Ready(Tail(jobs)) /\ Tail(jobs) \in Seq(Tasks) /\ Head(jobs).op # "reject"
          /\ Head(jobs).op = "write" =>
                /\ In(Head(jobs).who, jobs, writerWaiters)
                /\ ~In(Head(jobs).who, Tail(jobs), writerWaiters)
      BY <1>2, <2>0, <2>10, HeadRuns DEF ForWriter
    <3>2. \A w : In(w, Tail(jobs), writerWaiters) => In(w, jobs, writerWaiters)
      BY <2>0, <2>10, TailPlaces DEF Ready
    <3>3. /\ InLine(Tail(jobs), writerWaiters, Num)
          /\ Head(jobs).op = "write" => InLine(Tail(jobs), Append(writerWaiters, Head(jobs).who), Num)
      <4> PICK num : num = Num
        OBVIOUS
      <4> QED BY <2>0, <2>10, TailLine DEF Line
    <3>4. \A i \in DOMAIN Tail(jobs) :
             i + 1 \in DOMAIN jobs /\ Tail(jobs)[i] = jobs[i + 1]
             /\ (i + 1 = Len(jobs) => i = Len(Tail(jobs)))
      BY <2>0, <2>10
    <3> QED BY <3>1, <3>2, <3>3, <3>4
  <2>2. ASSUME NEW w \in Writers, WriteResumes(w) PROVE InCallOrder' /\ Line'
    <3>1. jobs # << >> /\ Head(jobs).who = w /\ Head(jobs).op = "write"
          /\ WriteLoop(w, writer[w], Tail(jobs))
      BY <2>2 DEF WriteResumes
    <3>2. PICK num, rest : num = Num /\ rest = Tail(jobs)
      OBVIOUS
    <3>3. /\ Ready(rest) /\ rest \in Seq(Tasks)
          /\ InLine(rest, writerWaiters, num) /\ InLine(rest, Append(writerWaiters, w), num)
          /\ In(w, jobs, writerWaiters) /\ ~In(w, rest, writerWaiters)
          /\ \A v : In(v, rest, writerWaiters) => In(v, jobs, writerWaiters)
      BY <2>10, <3>1, <3>2
    <3>4. /\ num \in [Writers -> Nat] /\ num[w] = writer[w].call /\ writer[w] \in WriteFrame
          /\ \A v \in Writers : v # w => num[v] = writer[v].call
      BY <2>0, <3>2 DEF Num, WriteFrame
    <3>5. writer[w].written < writer[w].len /\ Reached(writer[w], accepted)
      BY <2>0, <3>3 DEF Ready, Halfway, Line
    <3>6. \A v \in Writers : In(v, rest, writerWaiters) => Reached(writer[v], accepted)
      BY <2>0, <3>3 DEF Line
    <3>7. (\E v \in Writers : In(v, rest, writerWaiters)) =>
               /\ readerWaiters = << >>
               /\ \A i \in DOMAIN rest :
                     rest[i].op # "read" /\ (rest[i].op = "drain" => i = Len(rest))
      <4> SUFFICES ASSUME NEW v \in Writers, In(v, rest, writerWaiters)
                   PROVE  /\ readerWaiters = << >>
                          /\ \A i \in DOMAIN rest :
                                rest[i].op # "read" /\ (rest[i].op = "drain" => i = Len(rest))
        OBVIOUS
      <4>1. Two(jobs, writerWaiters)
        BY <3>3 DEF Two
      <4>2. /\ readerWaiters = << >>
            /\ \A i \in DOMAIN jobs : jobs[i].op # "read" /\ (jobs[i].op = "drain" => i = Len(jobs))
        BY <2>0, <4>1 DEF Line, Few
      <4> QED BY <2>10, <3>1, <3>2, <4>2
    <3>8. PICK frame : frame = writer[w]
      OBVIOUS
    <3>9. /\ WriteLoop(w, frame, rest) /\ frame \in WriteFrame /\ num[w] = frame.call
          /\ frame.written < frame.len /\ Reached(frame, accepted)
      BY <3>1, <3>2, <3>4, <3>5, <3>8
    <3>10. Core /\ InCallOrder /\ ~closed
      BY <1>2, <2>0
    <3> QED BY <3>3, <3>4, <3>6, <3>7, <3>9, <3>10, WriteLoopInOrder
  <2>3. ASSUME NEW w \in Writers, WriteRejected(w) PROVE FALSE
    BY <2>3, <2>10 DEF WriteRejected
  <2>4. ASSUME NEW r \in Readers, ReadResumes(r) PROVE InCallOrder' /\ Line'
    <3>1. jobs # << >> /\ Head(jobs).op = "read" /\ ReadLoop(r, reader[r], Tail(jobs))
      BY <2>4 DEF ReadResumes
    <3>2. 1 \in DOMAIN jobs /\ Head(jobs) = jobs[1]
      BY <2>0, <3>1
    <3>3. ~Two(Tail(jobs), writerWaiters)
      BY <2>0, <2>10, <3>1, <3>2 DEF Line, Few, Two
    <3> QED BY <1>2, <2>0, <2>10, <3>1, <3>3, ReadLoopInOrder DEF Line
  <2>5. ASSUME NEW r \in Drainers, DrainContinues(r) PROVE InCallOrder' /\ Line'
    <3>1. jobs # << >> /\ Head(jobs).op = "drain" /\ ReadLoop(r, Frame(r, DrainSize), Tail(jobs))
      BY <2>5 DEF DrainContinues
    <3>2. 1 \in DOMAIN jobs /\ Head(jobs) = jobs[1]
      BY <2>0, <3>1
    <3>3. Two(Tail(jobs), writerWaiters) => Tail(jobs) = << >> /\ readerWaiters = << >>
      <4> SUFFICES ASSUME Two(Tail(jobs), writerWaiters)
                   PROVE  Tail(jobs) = << >> /\ readerWaiters = << >>
        OBVIOUS
      <4>1. Two(jobs, writerWaiters)
        BY <2>10, <3>1 DEF Two
      <4>2. 1 = Len(jobs) /\ readerWaiters = << >>
        BY <2>0, <3>1, <3>2, <4>1 DEF Line, Few
      <4>3. Tail(jobs) \in Seq(Tasks) /\ Len(Tail(jobs)) = 0
        BY <2>0, <3>1, <4>2
      <4> QED BY <4>2, <4>3, EmptySeq
    <3>4. r \in Readers
      BY DEF Readers
    <3> QED BY <1>2, <2>0, <2>10, <3>1, <3>3, <3>4, ReadLoopInOrder DEF Line
  <2>11. ASSUME NEW r \in Readers, NEW frame, jobs = << >>, ReadLoop(r, frame, jobs)
         PROVE  InCallOrder' /\ Line'
    <3>1. Two(jobs, writerWaiters) => readerWaiters = << >>
      BY <2>0 DEF Line, Few
    <3> QED BY <1>2, <2>0, <2>11, <3>1, ReadLoopInOrder DEF Line
  <2>6. ASSUME NEW r \in Drainers, DrainStarts(r) PROVE InCallOrder' /\ Line'
    BY <2>6, <2>11 DEF DrainStarts, Readers
  <2>7. ASSUME NEW r \in Guests, NEW n \in ReadSizes, ReadCall(r, n) PROVE InCallOrder' /\ Line'
    BY <2>7, <2>11 DEF ReadCall, Readers
  <2>8. CASE CloseWrite
    BY <1>0, <2>0, <2>8 DEF CloseWrite, OInv, InCallOrder
  <2>9. CASE UNCHANGED vars
    <3>1. UNCHANGED <<jobs, writerWaiters, readerWaiters, writer, accepted>>
      BY <2>9 DEF vars
    <3> QED BY <1>0, <2>0, <3>1 DEF OInv, InCallOrder, Line, Few, Num
  <2> QED BY <1>0, <2>1, <2>2, <2>3, <2>4, <2>5, <2>6, <2>7, <2>8, <2>9 DEF Next, OInv
<1> QED BY <1>1, <1>2

\* The bytes of the stream are in the order the write() calls were made, whatever the
\* number of writers blocked half-way, of readers, and of drains.
THEOREM CallsAreInOrder == Spec => []InCallOrder
<1>1. OInv => InCallOrder
  BY DEF OInv
<1> QED BY PipeAssumption, InitInOrder, NextInOrder, <1>1, PTL DEF Spec
=============================================================================
