----------------------------- MODULE ByteStream -----------------------------
(* What a pipe promises, without promises, waiters or jobs: a bounded FIFO   *)
(* stream of bytes with one end that can be closed once.  Writers append     *)
(* whole runs of bytes while there is room, readers take a prefix of what    *)
(* has not been read yet, and end of file is told only when nothing is left  *)
(* and nothing more can come.                                                *)
EXTENDS Integers, Sequences, SequencesExt

CONSTANTS Byte, Readers, Capacity

VARIABLES sent, rcvd, closed, ended

vars == <<sent, rcvd, closed, ended>>

InFlight == Len(sent) - Len(rcvd)

Init ==
    /\ sent = << >>
    /\ rcvd = << >>
    /\ closed = FALSE
    /\ ended = {}

Send ==
    /\ ~closed
    /\ sent' \in Seq(Byte)
    /\ IsPrefix(sent, sent')
    /\ Len(sent') - Len(rcvd) <= Capacity
    /\ UNCHANGED <<rcvd, closed, ended>>

\* A read returns a prefix of the bytes in flight: rcvd stays a prefix of sent.
Receive ==
    /\ \E k \in 1..InFlight : rcvd' = rcvd \o SubSeq(sent, Len(rcvd) + 1, Len(rcvd) + k)
    /\ UNCHANGED <<sent, closed, ended>>

Close ==
    /\ ~closed
    /\ closed' = TRUE
    /\ UNCHANGED <<sent, rcvd, ended>>

TellEnd(r) ==
    /\ closed
    /\ InFlight = 0
    /\ ended' = ended \union {r}
    /\ UNCHANGED <<sent, rcvd, closed>>

Next ==
    \/ Send
    \/ Receive
    \/ Close
    \/ \E r \in Readers : TellEnd(r)

Spec == Init /\ [][Next]_vars
=============================================================================
