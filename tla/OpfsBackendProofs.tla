------------------------- MODULE OpfsBackendProofs -------------------------
(* Theorems about OpfsBackend, for any guests, names and calls.  A request   *)
(* is in one place at a time and stays what was asked; a handle is known     *)
(* only with what was opened; OPFS stays a tree, and loses only what a call  *)
(* asked it to lose, but for the two cases BytesGoOnlyAsAsked names.         *)
EXTENDS OpfsBackend, FiniteSetTheorems, SequenceTheorems, TLAPS

Post  == [id : Nat, message : Message]
Reply == [id : Nat, message : Message, answer : Errno \union {"ok"}, handle : Nat]
IsStep(h) == h = [message |-> h.message, at |-> h.at] /\ h.message \in PathMessage

\* The types of what travels between the client and the backend.
Frames ==
    /\ nextRequest \in Nat /\ nextId \in Nat \ {0}
    /\ pending \in [DOMAIN pending -> Client]
    /\ \A i \in DOMAIN pending : i \in Nat /\ i < nextRequest
    /\ asked \in [Client -> Message \union {Nothing}]
    /\ wire \in Seq(Post) /\ queue \in Seq(Post) /\ replies \in Seq(Reply)
    /\ handler = [i \in DOMAIN handler |-> handler[i]]
    /\ \A i \in DOMAIN handler : IsStep(handler[i])

Once(s) == \A j, k \in DOMAIN s : s[j].id = s[k].id => j = k

\* A request is on its way, in the queue, handled or answered, and in no two places.
InOnePlace ==
    /\ Once(wire) /\ Once(queue) /\ Once(replies)
    /\ Ids(wire) \intersect (Ids(queue) \union DOMAIN handler \union Ids(replies)) = {}
    /\ Ids(queue) \intersect (DOMAIN handler \union Ids(replies)) = {}
    /\ DOMAIN handler \intersect Ids(replies) = {}
    /\ DOMAIN pending = Ids(wire) \union Ids(queue) \union DOMAIN handler \union Ids(replies)

Waiting(id, m) == asked[pending[id]] = m

\* It is what the one who waits for it asked, and nobody waits for two.
AsWasAsked ==
    /\ \A k \in DOMAIN wire : Waiting(wire[k].id, wire[k].message)
    /\ \A k \in DOMAIN queue : Waiting(queue[k].id, queue[k].message)
    /\ \A k \in DOMAIN replies : Waiting(replies[k].id, replies[k].message)
    /\ \A i \in DOMAIN handler : Waiting(i, handler[i].message)
    /\ \A i, j \in DOMAIN pending : pending[i] = pending[j] => i = j

\* Before the boot nothing is handled, and nobody has a handle.
Booting ==
    /\ ready => queue = << >>
    /\ ~ready => /\ DOMAIN handler = {} /\ replies = << >> /\ known = {}
                 /\ \A k \in DOMAIN wire : wire[k].message \in PathMessage
                 /\ \A k \in DOMAIN queue : queue[k].message \in PathMessage

Denotes(h, type, path) ==
    /\ h \in Nat /\ h < nextId
    /\ h \in DOMAIN entries => entries[h] = [type |-> type, path |-> path]

TypeFor(m) == IF m.op = "open" THEN "file" ELSE "dir"
Gives(reply) ==
    reply.handle # 0 => Denotes(reply.handle, TypeFor(reply.message), reply.message.path)

\* A handle that was given out, or is on its way to who opened it, is of an id that will
\* not be given out again, and denotes what was opened as long as it denotes anything.
Handles ==
    /\ \A i \in DOMAIN entries : i \in Nat /\ i < nextId
    /\ \A h \in known : h.id \in Nat /\ Denotes(h.id, h.type, h.path)
    /\ \A k \in DOMAIN replies : Gives(replies[k])

IInv == Frames /\ InOnePlace /\ AsWasAsked /\ Booting /\ Handles

-----------------------------------------------------------------------------
(* Sequences of requests.                                                    *)

LEMMA Element ==
    ASSUME NEW S, NEW s \in Seq(S), NEW k \in DOMAIN s
    PROVE  s[k] \in S
OBVIOUS

LEMMA AppendIds ==
    ASSUME NEW S, NEW s \in Seq(S), NEW r \in S, Once(s), r.id \notin Ids(s)
    PROVE  /\ Append(s, r) \in Seq(S)
           /\ Ids(Append(s, r)) = Ids(s) \union {r.id}
           /\ Once(Append(s, r))
           /\ \A k \in DOMAIN Append(s, r) :
                 Append(s, r)[k] = r \/ \E j \in DOMAIN s : Append(s, r)[k] = s[j]
<1>1. Append(s, r) \in Seq(S) /\ Len(Append(s, r)) = Len(s) + 1
  OBVIOUS
<1>2. \A k \in DOMAIN Append(s, r) :
          \/ k = Len(s) + 1 /\ Append(s, r)[k] = r
          \/ k \in DOMAIN s /\ Append(s, r)[k] = s[k]
  OBVIOUS
<1>3. /\ Len(s) + 1 \in DOMAIN Append(s, r) /\ Append(s, r)[Len(s) + 1] = r
      /\ \A k \in DOMAIN s : k \in DOMAIN Append(s, r) /\ Append(s, r)[k] = s[k]
  OBVIOUS
<1> DEFINE t == Append(s, r)
<1> HIDE DEF t
<1>4. Ids(t) = Ids(s) \union {r.id}
  BY <1>2, <1>3 DEF Ids, t
<1>5. Once(t)
  BY <1>2 DEF Once, Ids, t
<1> QED BY <1>1, <1>2, <1>4, <1>5 DEF t

LEMMA TailIds ==
    ASSUME NEW S, NEW s \in Seq(S), s # << >>, Once(s)
    PROVE  /\ Head(s) \in S /\ Tail(s) \in Seq(S)
           /\ 1 \in DOMAIN s /\ Head(s) = s[1]
           /\ Head(s).id \in Ids(s)
           /\ Ids(Tail(s)) = Ids(s) \ {Head(s).id}
           /\ Once(Tail(s))
           /\ \A k \in DOMAIN Tail(s) : \E j \in DOMAIN s : Tail(s)[k] = s[j]
<1>1. Head(s) \in S /\ Tail(s) \in Seq(S) /\ 1 \in DOMAIN s /\ Head(s) = s[1]
  OBVIOUS
<1>2. \A k \in DOMAIN Tail(s) : k + 1 \in DOMAIN s /\ Tail(s)[k] = s[k + 1] /\ k \in Nat /\ k # 0
  OBVIOUS
<1>3. \A k \in DOMAIN s : k # 1 => k - 1 \in DOMAIN Tail(s) /\ Tail(s)[k - 1] = s[k]
  OBVIOUS
<1> DEFINE t == Tail(s)
<1> HIDE DEF t
<1>4. Ids(t) = Ids(s) \ {s[1].id}
  <2>1. \A k \in DOMAIN t : t[k].id \in Ids(s) /\ t[k].id # s[1].id
    BY <1>1, <1>2 DEF Ids, Once, t
  <2>2. \A k \in DOMAIN s : s[k].id # s[1].id => s[k].id \in Ids(t)
    BY <1>3 DEF Ids, t
  <2> QED BY <2>1, <2>2 DEF Ids
<1>5. Once(t)
  BY <1>2 DEF Once, t
<1> QED BY <1>1, <1>2, <1>4, <1>5 DEF Ids, t

LEMMA CountIds ==
    ASSUME NEW S, NEW s \in Seq(S), Once(s)
    PROVE  IsFiniteSet(Ids(s)) /\ Cardinality(Ids(s)) = Len(s)
<1> DEFINE f == [k \in 1..Len(s) |-> s[k].id]
<1>1. Len(s) \in Nat /\ DOMAIN s = 1..Len(s)
  OBVIOUS
<1>2. f \in Bijection(1..Len(s), Ids(s))
  BY <1>1 DEF Bijection, Injection, Surjection, IsInjective, Once, Ids
<1>3. IsFiniteSet(1..Len(s)) /\ Cardinality(1..Len(s)) = Len(s)
  BY <1>1, FS_Interval
<1> QED BY <1>2, <1>3, FS_Bijection DEF ExistsBijection

-----------------------------------------------------------------------------
(* The steps of a handler are of three kinds: it goes on to another await,   *)
(* answers, or registers a handle and answers with it.                       *)

GoesOn(id)    == \E at : Goes(id, at) /\ UNCHANGED <<entries, nextId>>
JustAnswers(id) ==
    \E answer \in Errno \union {"ok"} : Answers(id, answer, 0) /\ UNCHANGED <<entries, nextId>>
GivesHandle(id) == Registers(id, TypeFor(handler[id].message))

LEMMA HandlerStepKinds ==
    ASSUME NEW id \in DOMAIN handler, HandlerStep(id)
    PROVE  /\ GoesOn(id) \/ JustAnswers(id) \/ GivesHandle(id)
           /\ UNCHANGED <<ready, queue, refused, wire, client>>
<1> SUFFICES GoesOn(id) \/ JustAnswers(id) \/ GivesHandle(id)
  BY DEF HandlerStep
<1>1. ASSUME NEW at, Looks(id, at) PROVE GoesOn(id)
  BY <1>1 DEF Looks, GoesOn
<1>2. ASSUME NEW errno \in Errno, Throws(id, errno) PROVE JustAnswers(id)
  BY <1>2 DEF Throws, AnswersError, JustAnswers
<1>3. ASSUME NEW at, NEW fs, Goes(id, at), Changes(fs) PROVE GoesOn(id)
  BY <1>3 DEF Changes, GoesOn
<1>4. ASSUME NEW fs, Answers(id, "ok", 0), Changes(fs) PROVE JustAnswers(id)
  BY <1>4 DEF Changes, JustAnswers
<1>5. ASSUME NEW dir, NEW next, Navigates(id, dir, next)
      PROVE  GoesOn(id) \/ JustAnswers(id)
  BY <1>1, <1>2, <1>5 DEF Navigates, Errno
<1>7. CASE Navigate(id) \/ RenameNavigate(id)
  BY <1>5, <1>7 DEF Navigate, RenameNavigate
<1>8. CASE OpenDir(id)
  BY <1>2, <1>8 DEF OpenDir, At, TypeFor, GivesHandle, Errno
<1>9. CASE OpenLock(id)
  <2>1. CASE Registers(id, "file")
    BY <1>9, <2>1 DEF OpenLock, At, TypeFor, GivesHandle
  <2>2. CASE AnswersError(id, "EIO") /\ UNCHANGED <<entries, nextId>>
    BY <2>2 DEF AnswersError, JustAnswers, Errno
  <2> QED BY <1>9, <2>1, <2>2 DEF OpenLock
<1>10. CASE OpenPrecheck(id) \/ OpenCreate(id)
  BY <1>1, <1>2, <1>3, <1>10 DEF OpenPrecheck, OpenCreate, Errno
<1>11. CASE MkdirFind(id) \/ MkdirMake(id)
  BY <1>1, <1>2, <1>4, <1>11 DEF MkdirFind, MkdirMake, Errno
<1>12. CASE FindToRemove(id) \/ RmdirEmpty(id) \/ RemoveEntry(id)
  BY <1>1, <1>2, <1>4, <1>12 DEF FindToRemove, RmdirEmpty, RemoveEntry, Errno
<1>13. CASE RenameFind(id) \/ RenameMove(id)
  BY <1>1, <1>2, <1>4, <1>13 DEF RenameFind, RenameMove, Errno
<1>14. CASE RenameSource(id) \/ RenameTarget(id) \/ RenameWritable(id) \/ RenameCopy(id)
  BY <1>1, <1>3, <1>14 DEF RenameSource, RenameTarget, RenameWritable, RenameCopy
<1>15. CASE IoFails(id)
  BY <1>2, <1>15 DEF IoFails, Errno
<1> QED BY <1>7, <1>8, <1>9, <1>10, <1>11, <1>12, <1>13, <1>14, <1>15 DEF HandlerStep

\* What a handler's going on leaves as it was.
LEMMA GoesOnKeeps ==
    ASSUME IInv, NEW id \in DOMAIN handler, GoesOn(id),
           UNCHANGED <<ready, queue, refused, wire, client>>
    PROVE  IInv'
<1>1. PICK at : Goes(id, at) /\ UNCHANGED <<entries, nextId>>
  BY DEF GoesOn
<1>2. /\ handler = [i \in DOMAIN handler |-> handler[i]]
      /\ \A i \in DOMAIN handler : IsStep(handler[i])
  BY DEF IInv, Frames
<1>3. /\ replies' = replies
      /\ DOMAIN handler' = DOMAIN handler
      /\ handler' = [i \in DOMAIN handler |-> handler'[i]]
      /\ \A i \in DOMAIN handler : handler'[i].message = handler[i].message /\ IsStep(handler'[i])
  <2>1. /\ replies' = replies
        /\ handler' = [handler EXCEPT ![id] = [handler[id] EXCEPT !.at = at]]
    BY <1>1 DEF Goes
  <2>2. [handler[id] EXCEPT !.at = at] = [message |-> handler[id].message, at |-> at]
    BY <1>2 DEF IsStep
  <2> QED BY <1>2, <2>1, <2>2 DEF IsStep
<1>4. Frames'
  BY <1>1, <1>3 DEF IInv, Frames, client
<1>5. InOnePlace'
  <2>1. /\ Ids(wire)' = Ids(wire) /\ Ids(queue)' = Ids(queue) /\ Ids(replies)' = Ids(replies)
        /\ Once(wire)' = Once(wire) /\ Once(queue)' = Once(queue) /\ Once(replies)' = Once(replies)
    BY <1>3 DEF Ids, Once
  <2> QED BY <1>3, <2>1 DEF IInv, InOnePlace, client
<1>6. AsWasAsked'
  BY <1>3 DEF IInv, AsWasAsked, Waiting, client
<1>7. Booting' /\ Handles'
  BY <1>1, <1>3 DEF IInv, Booting, Handles, Gives, Denotes, client
<1> QED BY <1>4, <1>5, <1>6, <1>7 DEF IInv

\* What a handler's end leaves: its request is answered, and nothing else of the
\* invariant but the handles can have changed.
LEMMA AnswerKeeps ==
    ASSUME IInv, NEW id \in DOMAIN handler, NEW answer \in Errno \union {"ok"}, NEW h \in Nat,
           Answers(id, answer, h), nextId' \in Nat \ {0},
           UNCHANGED <<ready, queue, refused, wire, client>>
    PROVE  /\ Frames' /\ InOnePlace' /\ AsWasAsked' /\ Booting'
           /\ \A k \in DOMAIN replies' :
                 \/ \E j \in DOMAIN replies : replies'[k] = replies[j]
                 \/ replies'[k].handle = h /\ replies'[k].message = handler[id].message
<1> DEFINE r == [id |-> id, message |-> handler[id].message, answer |-> answer, handle |-> h]
<1>1. replies' = Append(replies, r) /\ handler' = Without(handler, {id})
  BY DEF Answers, Posts
<1>2. r \in Reply /\ replies \in Seq(Reply) /\ Once(replies) /\ r.id \notin Ids(replies)
  <2>1. id \in Nat
    BY DEF IInv, Frames, InOnePlace
  <2>2. handler[id].message \in Message
    BY DEF IInv, Frames, IsStep, Message
  <2> QED BY <2>1, <2>2 DEF IInv, Frames, InOnePlace, Reply
<1>3. /\ handler' = [i \in DOMAIN handler' |-> handler'[i]]
      /\ DOMAIN handler' = DOMAIN handler \ {id}
      /\ \A i \in DOMAIN handler' : handler'[i] = handler[i]
  BY <1>1 DEF Without, IInv, Frames
<1> HIDE DEF r
<1>4. /\ replies' \in Seq(Reply) /\ Ids(replies)' = Ids(replies) \union {r.id} /\ Once(replies)'
      /\ \A k \in DOMAIN replies' : replies'[k] = r \/ \E j \in DOMAIN replies : replies'[k] = replies[j]
  <2> PICK u : u = Append(replies, r)
    OBVIOUS
  <2>1. /\ u \in Seq(Reply) /\ Ids(u) = Ids(replies) \union {r.id} /\ Once(u)
        /\ \A k \in DOMAIN u : u[k] = r \/ \E j \in DOMAIN replies : u[k] = replies[j]
    BY <1>2, AppendIds
  <2>2. replies' = u
    BY <1>1
  <2>3. Ids(replies)' = Ids(u) /\ Once(replies)' = Once(u)
    BY <2>2 DEF Ids, Once
  <2> QED BY <2>1, <2>2, <2>3
<1>5. r.id = id /\ r.handle = h /\ r.message = handler[id].message
  BY DEF r
<1>6. Frames'
  BY <1>3, <1>4 DEF IInv, Frames, client
<1>7. InOnePlace'
  <2>1. Ids(wire)' = Ids(wire) /\ Ids(queue)' = Ids(queue) /\ Once(wire)' /\ Once(queue)'
    BY DEF Ids, Once, IInv, InOnePlace
  <2> QED BY <1>3, <1>4, <1>5, <2>1 DEF IInv, InOnePlace, client
<1>8. AsWasAsked'
  BY <1>3, <1>4, <1>5 DEF IInv, AsWasAsked, Waiting, client
<1>9. Booting'
  BY <1>3 DEF IInv, Booting, client
<1> QED BY <1>4, <1>5, <1>6, <1>7, <1>8, <1>9

LEMMA HandlerKeeps ==
    ASSUME IInv, NEW id \in DOMAIN handler, HandlerStep(id)
    PROVE  IInv'
<1>1. UNCHANGED <<ready, queue, refused, wire, client>>
  BY HandlerStepKinds
<1>2. CASE GoesOn(id)
  BY <1>1, <1>2, GoesOnKeeps
<1>3. CASE JustAnswers(id)
  <2>1. PICK answer \in Errno \union {"ok"} : Answers(id, answer, 0) /\ UNCHANGED <<entries, nextId>>
    BY <1>3 DEF JustAnswers
  <2>2. /\ Frames' /\ InOnePlace' /\ AsWasAsked' /\ Booting'
        /\ \A k \in DOMAIN replies' :
              (\E j \in DOMAIN replies : replies'[k] = replies[j]) \/ replies'[k].handle = 0
    <3>1. nextId' \in Nat \ {0} /\ 0 \in Nat
      BY <2>1 DEF IInv, Frames
    <3> QED BY <1>1, <2>1, <3>1, AnswerKeeps
  <2>3. Handles'
    BY <1>1, <2>1, <2>2 DEF IInv, Handles, Gives, Denotes, client
  <2> QED BY <2>2, <2>3 DEF IInv
<1>4. CASE GivesHandle(id)
  <2> PICK m, n : m = handler[id].message /\ n = nextId
    OBVIOUS
  <2>1. /\ entries' = With(entries, n, [type |-> TypeFor(m), path |-> m.path])
        /\ nextId' = n + 1 /\ n \in Nat /\ n # 0
        /\ Answers(id, "ok", n)
    BY <1>4 DEF GivesHandle, Registers, FreshId, PathOf, IInv, Frames
  <2>2. /\ Frames' /\ InOnePlace' /\ AsWasAsked' /\ Booting'
        /\ \A k \in DOMAIN replies' :
              \/ \E j \in DOMAIN replies : replies'[k] = replies[j]
              \/ replies'[k].handle = n /\ replies'[k].message = m
    BY <1>1, <2>1, AnswerKeeps
  <2>3. ASSUME NEW h, NEW type, NEW path, Denotes(h, type, path) PROVE Denotes(h, type, path)'
    BY <2>1, <2>3 DEF Denotes, With
  <2>4. Denotes(n, TypeFor(m), m.path)'
    BY <2>1 DEF Denotes, With, TypeFor
  <2>5. \A i \in DOMAIN entries' : i \in Nat /\ i < nextId'
    BY <2>1 DEF With, IInv, Handles
  <2>6. \A h \in known' : h.id \in Nat /\ Denotes(h.id, h.type, h.path)'
    BY <1>1, <2>3 DEF IInv, Handles, client
  <2>7. ASSUME NEW k \in DOMAIN replies' PROVE Gives(replies[k])'
    <3>1. CASE \E j \in DOMAIN replies : replies'[k] = replies[j]
      BY <2>3, <3>1 DEF IInv, Handles, Gives
    <3>2. CASE replies'[k].handle = n /\ replies'[k].message = m
      BY <2>4, <3>2 DEF Gives
    <3> QED BY <2>2, <3>1, <3>2
  <2>8. Handles'
    BY <2>5, <2>6, <2>7 DEF Handles
  <2> QED BY <2>2, <2>8 DEF IInv
<1> QED BY <1>2, <1>3, <1>4, HandlerStepKinds
-----------------------------------------------------------------------------
(* The client and the worker's messages.                                     *)

LEMMA Begins == Init => IInv
<1> SUFFICES ASSUME Init PROVE IInv
  OBVIOUS
<1>1. DOMAIN NoOne = {}
  BY DEF NoOne
<1>2. /\ wire = << >> /\ queue = << >> /\ replies = << >> /\ known = {} /\ ready = FALSE
      /\ pending = NoOne /\ handler = NoOne /\ entries = NoOne /\ nextId = 1 /\ nextRequest = 1
      /\ asked = [c \in Client |-> Nothing]
  BY DEF Init
<1>3. Ids(wire) = {} /\ Ids(queue) = {} /\ Ids(replies) = {}
  BY <1>2 DEF Ids
<1>4. Frames
  BY <1>1, <1>2 DEF Frames, NoOne
<1>5. InOnePlace
  BY <1>1, <1>2, <1>3 DEF InOnePlace, Once
<1>6. AsWasAsked /\ Booting /\ Handles
  BY <1>1, <1>2 DEF AsWasAsked, Booting, Handles
<1> QED BY <1>4, <1>5, <1>6 DEF IInv

LEMMA NothingIsNoMessage == Nothing \notin Message
BY DEF Nothing, Message, PathMessage, PathOp, FileOp

\* A new request is on its way and nowhere else.
LEMMA RpcKeeps ==
    ASSUME IInv, NEW c \in Client, NEW m \in Message, Rpc(c, m),
           ~ready => m \in PathMessage
    PROVE  IInv'
<1>1. PICK n \in Nat, r \in Post :
          /\ n = nextRequest /\ r = [id |-> n, message |-> m]
          /\ n \notin DOMAIN pending
  <2>1. nextRequest \in Nat /\ nextRequest \notin DOMAIN pending
    BY DEF IInv, Frames
  <2>2. [id |-> nextRequest, message |-> m] \in Post
    BY <2>1 DEF Post
  <2> QED BY <2>1, <2>2
<1>2. /\ asked[c] = Nothing /\ asked' = [asked EXCEPT ![c] = m]
      /\ nextRequest' = n + 1 /\ pending' = With(pending, n, c) /\ wire' = Append(wire, r)
      /\ UNCHANGED <<queue, handler, replies, entries, nextId, ready, known>>
  BY <1>1 DEF Rpc, backend
<1>3. /\ pending' \in [DOMAIN pending \union {n} -> Client]
      /\ pending'[n] = c /\ \A i \in DOMAIN pending : pending'[i] = pending[i]
  BY <1>1, <1>2 DEF With, IInv, Frames
<1>4. n \notin Ids(wire) /\ n \notin Ids(queue) /\ n \notin DOMAIN handler /\ n \notin Ids(replies)
  BY <1>1 DEF IInv, InOnePlace
<1>5. /\ wire' \in Seq(Post) /\ Ids(wire)' = Ids(wire) \union {n} /\ Once(wire)'
      /\ \A k \in DOMAIN wire' : wire'[k] = r \/ \E j \in DOMAIN wire : wire'[k] = wire[j]
  <2>1. wire \in Seq(Post) /\ Once(wire) /\ r.id = n
    BY <1>1 DEF IInv, Frames, InOnePlace
  <2> PICK u : u = Append(wire, r)
    OBVIOUS
  <2>2. /\ u \in Seq(Post) /\ Ids(u) = Ids(wire) \union {n} /\ Once(u)
        /\ \A k \in DOMAIN u : u[k] = r \/ \E j \in DOMAIN wire : u[k] = wire[j]
    BY <1>1, <1>4, <2>1, AppendIds
  <2>3. wire' = u
    BY <1>2
  <2>4. Ids(wire)' = Ids(u) /\ Once(wire)' = Once(u)
    BY <2>3 DEF Ids, Once
  <2> QED BY <2>2, <2>3, <2>4
<1>6. \A i \in DOMAIN pending : asked[pending[i]] # Nothing /\ pending[i] # c
  <2>0. /\ \A k \in DOMAIN wire : wire[k] \in Post
        /\ \A k \in DOMAIN queue : queue[k] \in Post
        /\ \A k \in DOMAIN replies : replies[k] \in Reply
    BY Element DEF IInv, Frames
  <2>1. \A k \in DOMAIN wire : wire[k].message \in Message
    BY <2>0 DEF Post
  <2>2. \A k \in DOMAIN queue : queue[k].message \in Message
    BY <2>0 DEF Post
  <2>3. \A k \in DOMAIN replies : replies[k].message \in Message
    BY <2>0 DEF Reply
  <2>4. \A i \in DOMAIN handler : handler[i].message \in Message
    BY DEF IInv, Frames, IsStep, Message
  <2>5. \A i \in DOMAIN pending : asked[pending[i]] \in Message
    BY <2>1, <2>2, <2>3, <2>4 DEF IInv, InOnePlace, AsWasAsked, Waiting, Ids
  <2> QED BY <1>2, <2>5, NothingIsNoMessage
<1>7. ASSUME NEW i \in DOMAIN pending, NEW x, Waiting(i, x) PROVE Waiting(i, x)'
  BY <1>2, <1>3, <1>6, <1>7 DEF Waiting, IInv, Frames
<1>8. Waiting(n, m)'
  BY <1>2, <1>3 DEF Waiting, IInv, Frames
<1>9. Frames'
  <2>1. nextRequest' \in Nat /\ \A i \in DOMAIN pending' : i \in Nat /\ i < nextRequest'
    BY <1>1, <1>2, <1>3 DEF IInv, Frames
  <2>2. asked' \in [Client -> Message \union {Nothing}]
    BY <1>2 DEF IInv, Frames
  <2> QED BY <1>2, <1>3, <1>5, <2>1, <2>2 DEF IInv, Frames
<1>10. InOnePlace'
  <2>1. /\ Ids(queue)' = Ids(queue) /\ Ids(replies)' = Ids(replies)
        /\ Once(queue)' /\ Once(replies)'
    BY <1>2 DEF Ids, Once, IInv, InOnePlace
  <2> QED BY <1>2, <1>3, <1>4, <1>5, <2>1 DEF IInv, InOnePlace
<1>11. AsWasAsked'
  <2>1. \A k \in DOMAIN wire' : Waiting(wire[k].id, wire[k].message)'
    <3> SUFFICES ASSUME NEW k \in DOMAIN wire' PROVE Waiting(wire[k].id, wire[k].message)'
      OBVIOUS
    <3>1. CASE wire'[k] = r
      BY <1>1, <1>8, <3>1 DEF Waiting
    <3>2. ASSUME NEW j \in DOMAIN wire, wire'[k] = wire[j]
          PROVE  Waiting(wire[k].id, wire[k].message)'
      <4>1. Waiting(wire[j].id, wire[j].message) /\ wire[j].id \in DOMAIN pending
        BY DEF IInv, AsWasAsked, InOnePlace, Ids
      <4> QED BY <1>7, <3>2, <4>1 DEF Waiting
    <3> QED BY <1>5, <3>1, <3>2
  <2>2. /\ \A k \in DOMAIN queue' : Waiting(queue[k].id, queue[k].message)'
        /\ \A k \in DOMAIN replies' : Waiting(replies[k].id, replies[k].message)'
        /\ \A i \in DOMAIN handler' : Waiting(i, handler[i].message)'
    BY <1>2, <1>7 DEF IInv, AsWasAsked, InOnePlace, Ids
  <2>3. \A i, j \in DOMAIN pending' : pending'[i] = pending'[j] => i = j
    BY <1>3, <1>6 DEF IInv, AsWasAsked
  <2> QED BY <2>1, <2>2, <2>3 DEF AsWasAsked
<1>12. Booting'
  BY <1>1, <1>2, <1>5 DEF IInv, Booting
<1>13. Handles'
  BY <1>2 DEF IInv, Handles, Gives, Denotes
<1> QED BY <1>9, <1>10, <1>11, <1>12, <1>13 DEF IInv

\* An answer comes to the one who asked, with the handle that he opened.
LEMMA ReceiveKeeps ==
    ASSUME IInv, Receive
    PROVE  IInv'
<1>1. PICK r \in Reply, c \in Client :
          /\ r = Head(replies) /\ r.id \in DOMAIN pending /\ c = pending[r.id]
          /\ asked[c] = r.message
  <2>1. replies \in Seq(Reply) /\ replies # << >> /\ Once(replies)
    BY DEF IInv, Frames, InOnePlace, Receive
  <2>2. Head(replies) \in Reply /\ 1 \in DOMAIN replies /\ Head(replies) = replies[1]
    BY <2>1
  <2>3. replies[1].id \in DOMAIN pending /\ asked[pending[replies[1].id]] = replies[1].message
    BY <2>2 DEF IInv, InOnePlace, AsWasAsked, Waiting, Ids
  <2> QED BY <2>2, <2>3 DEF IInv, Frames
<1>2. /\ queue' = queue /\ handler' = handler /\ wire' = wire
      /\ entries' = entries /\ nextId' = nextId /\ nextRequest' = nextRequest /\ ready' = ready
  BY DEF Receive, backend
<1>11. /\ pending' = Without(pending, {r.id}) /\ asked' = [asked EXCEPT ![c] = Nothing]
       /\ known' = IF r.handle = 0 THEN known
                   ELSE known \union {[id |-> r.handle, path |-> r.message.path,
                                       type |-> TypeFor(r.message)]}
  BY <1>1 DEF Receive, For, TypeFor
<1>12. PICK t : t = Tail(replies) /\ replies' = t /\ replies # << >>
  BY DEF Receive
<1>3. /\ pending' \in [DOMAIN pending \ {r.id} -> Client]
      /\ \A i \in DOMAIN pending' : pending'[i] = pending[i] /\ pending[i] # c
  BY <1>1, <1>11 DEF Without, IInv, Frames, AsWasAsked
<1>4. /\ replies' \in Seq(Reply) /\ Ids(replies)' = Ids(replies) \ {r.id} /\ Once(replies)'
      /\ r.id \in Ids(replies) /\ \E j \in DOMAIN replies : r = replies[j]
      /\ \A k \in DOMAIN replies' : \E j \in DOMAIN replies : replies'[k] = replies[j]
  <2>1. replies \in Seq(Reply) /\ Once(replies)
    BY DEF IInv, Frames, InOnePlace
  <2>2. /\ t \in Seq(Reply) /\ Once(t)
        /\ Ids(t) = Ids(replies) \ {r.id} /\ r.id \in Ids(replies)
        /\ \E j \in DOMAIN replies : r = replies[j]
        /\ \A k \in DOMAIN t : \E j \in DOMAIN replies : t[k] = replies[j]
    BY <1>1, <1>12, <2>1, TailIds
  <2>3. Ids(replies)' = Ids(t) /\ Once(replies)' = Once(t)
    BY <1>12 DEF Ids, Once
  <2> QED BY <1>12, <2>2, <2>3
<1>5. ASSUME NEW i \in DOMAIN pending', NEW x, Waiting(i, x) PROVE Waiting(i, x)'
  BY <1>11, <1>3, <1>5 DEF Waiting, IInv, Frames
<1>6. Frames'
  <2>1. asked' \in [Client -> Message \union {Nothing}]
    BY <1>11 DEF IInv, Frames
  <2>2. /\ pending' \in [DOMAIN pending' -> Client]
        /\ \A i \in DOMAIN pending' : i \in Nat /\ i < nextRequest
    BY <1>3 DEF IInv, Frames
  <2> QED BY <1>2, <1>4, <2>1, <2>2 DEF IInv, Frames
<1>7. InOnePlace'
  <2>0. Once(queue) /\ Once(wire)
    BY DEF IInv, InOnePlace
  <2>1. /\ Ids(queue)' = Ids(queue) /\ Ids(wire)' = Ids(wire)
        /\ Once(queue)' /\ Once(wire)'
    BY <1>2, <2>0 DEF Ids, Once
  <2> QED BY <1>2, <1>3, <1>4, <2>1 DEF IInv, InOnePlace
<1>8. AsWasAsked'
  <2>1. /\ \A k \in DOMAIN wire' : wire'[k].id \in DOMAIN pending'
        /\ \A k \in DOMAIN queue' : queue'[k].id \in DOMAIN pending'
        /\ \A k \in DOMAIN replies' : replies'[k].id \in DOMAIN pending'
        /\ \A i \in DOMAIN handler' : i \in DOMAIN pending'
    BY <1>7 DEF InOnePlace, Ids
  <2>2. \A k \in DOMAIN replies' : Waiting(replies[k].id, replies[k].message)'
    BY <1>4, <1>5, <2>1 DEF IInv, AsWasAsked
  <2>3. /\ \A k \in DOMAIN queue' : Waiting(queue[k].id, queue[k].message)'
        /\ \A k \in DOMAIN wire' : Waiting(wire[k].id, wire[k].message)'
        /\ \A i \in DOMAIN handler' : Waiting(i, handler[i].message)'
    BY <1>2, <1>5, <2>1 DEF IInv, AsWasAsked
  <2>4. \A i, j \in DOMAIN pending' : pending'[i] = pending'[j] => i = j
    BY <1>3 DEF IInv, AsWasAsked
  <2> QED BY <2>2, <2>3, <2>4 DEF AsWasAsked
<1>9. Booting'
  <2>1. ready
    BY <1>12 DEF IInv, Booting
  <2> QED BY <1>2, <2>1 DEF IInv, Booting
<1>10. Handles'
  <2>1. \A k \in DOMAIN replies' : Gives(replies[k])'
    BY <1>2, <1>4 DEF IInv, Handles, Gives, Denotes
  <2>2. Gives(r) /\ r.handle \in Nat
    BY <1>4 DEF IInv, Handles, Reply
  <2>3. \A h \in known' : h.id \in Nat /\ Denotes(h.id, h.type, h.path)'
    <3>1. \A h \in known : h.id \in Nat /\ Denotes(h.id, h.type, h.path)'
      BY <1>2 DEF IInv, Handles, Denotes
    <3> DEFINE new == [id |-> r.handle, path |-> r.message.path, type |-> TypeFor(r.message)]
    <3>2. r.handle # 0 => new.id \in Nat /\ Denotes(new.id, new.type, new.path)'
      BY <1>2, <2>2 DEF Gives, Denotes
    <3> HIDE DEF new
    <3>3. known' = IF r.handle = 0 THEN known ELSE known \union {new}
      BY <1>11 DEF new
    <3> QED BY <3>1, <3>2, <3>3
  <2> QED BY <1>2, <2>1, <2>3 DEF IInv, Handles
<1> QED BY <1>6, <1>7, <1>8, <1>9, <1>10 DEF IInv

LEMMA OnPath ==
    ASSUME NEW m \in Message, m.op \in PathOp
    PROVE  m \in PathMessage
BY DEF Message, PathOp, FileOp

LEMMA StartedAre ==
    ASSUME NEW S, NEW f, Once(f), f \in Seq(S), handler = [i \in DOMAIN handler |-> handler[i]],
           NEW requests, \A k \in DOMAIN f : f[k] \in requests,
           \A x \in requests : \E k \in DOMAIN f : x = f[k]
    PROVE  /\ Started(requests) = [i \in DOMAIN Started(requests) |-> Started(requests)[i]]
           /\ DOMAIN Started(requests) = DOMAIN handler \union Ids(f)
           /\ \A i \in DOMAIN handler : Started(requests)[i] = handler[i]
           /\ \A k \in DOMAIN f : f[k].id \notin DOMAIN handler =>
                 Started(requests)[f[k].id] = [message |-> f[k].message, at |-> "navigate"]
<1>1. DOMAIN Started(requests) = DOMAIN handler \union Ids(f)
  BY DEF Started, Ids
<1>2. \A i \in DOMAIN handler : Started(requests)[i] = handler[i]
  BY DEF Started
<1>3. ASSUME NEW k \in DOMAIN f, f[k].id \notin DOMAIN handler
      PROVE  Started(requests)[f[k].id] = [message |-> f[k].message, at |-> "navigate"]
  <2>1. \A x \in requests : x.id = f[k].id => x = f[k]
    BY DEF Once
  <2>2. (CHOOSE x \in requests : x.id = f[k].id) = f[k]
    BY <2>1
  <2>3. f[k].id \in {x.id : x \in requests}
    OBVIOUS
  <2> QED BY <1>3, <2>2, <2>3 DEF Started
<1>4. Started(requests) = [i \in DOMAIN Started(requests) |-> Started(requests)[i]]
  BY DEF Started
<1> QED BY <1>1, <1>2, <1>3, <1>4

\* A message is taken off the wire: it waits for the boot, starts a handler, or is a call
\* on a handle, which is done and answered at once.
LEMMA DeliverKeeps ==
    ASSUME IInv, Deliver
    PROVE  IInv'
<1>0. PICK t : t = Tail(wire)
  OBVIOUS
<1>1. PICK r \in Post : r = Head(wire) /\ t = Tail(wire) /\ wire # << >> /\ wire' = t
  <2>1. wire # << >> /\ wire' = Tail(wire)
    BY DEF Deliver
  <2>2. wire \in Seq(Post)
    BY DEF IInv, Frames
  <2>3. Head(wire) \in Post
    BY <2>1, <2>2
  <2> QED BY <1>0, <2>1, <2>3
<1>2. /\ ready' = ready /\ nextRequest' = nextRequest /\ pending' = pending
      /\ asked' = asked /\ known' = known
  BY DEF Deliver, client
<1>3. /\ t \in Seq(Post) /\ Ids(t) = Ids(wire) \ {r.id} /\ r.id \in Ids(wire) /\ Once(t)
      /\ \E j \in DOMAIN wire : r = wire[j]
      /\ \A k \in DOMAIN t : \E j \in DOMAIN wire : t[k] = wire[j]
  BY <1>1, TailIds DEF IInv, Frames, InOnePlace
<1>4. Ids(wire)' = Ids(t) /\ Once(wire)'
  BY <1>1, <1>3 DEF Ids, Once
<1>5. /\ r.id \in Nat /\ r.message \in Message /\ Waiting(r.id, r.message)
      /\ r.id \notin Ids(queue) \union DOMAIN handler \union Ids(replies)
      /\ ~ready => r.message \in PathMessage
  BY <1>3 DEF Post, IInv, AsWasAsked, InOnePlace, Booting
<1>6. /\ \A k \in DOMAIN wire' : Waiting(wire[k].id, wire[k].message)'
      /\ \A i, x : Waiting(i, x) => Waiting(i, x)'
  BY <1>1, <1>2, <1>3 DEF IInv, AsWasAsked, Waiting
<1>7. ~ready => \A k \in DOMAIN wire' : wire'[k].message \in PathMessage
  BY <1>1, <1>3 DEF IInv, Booting
<1>8. \A i, j \in DOMAIN pending' : pending'[i] = pending'[j] => i = j
  BY <1>2 DEF IInv, AsWasAsked
<1>9. CASE ~ready /\ queue' = Append(queue, r) /\ UNCHANGED <<entries, nextId, handler, replies>>
  <2>1. queue \in Seq(Post) /\ Once(queue) /\ r.id \notin Ids(queue)
    BY <1>5 DEF IInv, Frames, InOnePlace
  <2>2. /\ queue' \in Seq(Post) /\ Ids(queue)' = Ids(queue) \union {r.id} /\ Once(queue)'
        /\ \A k \in DOMAIN queue' : queue'[k] = r \/ \E j \in DOMAIN queue : queue'[k] = queue[j]
    BY <1>9, <2>1, AppendIds DEF Ids, Once
  <2>3. handler' = handler /\ replies' = replies /\ entries' = entries /\ nextId' = nextId
    BY <1>9
  <2>4. Frames'
    BY <1>1, <1>2, <1>3, <2>2, <2>3 DEF IInv, Frames
  <2>5. InOnePlace'
    <3>1. Ids(replies)' = Ids(replies) /\ Once(replies)'
      BY <2>3 DEF Ids, Once, IInv, InOnePlace
    <3> QED BY <1>2, <1>3, <1>4, <1>5, <2>2, <2>3, <3>1 DEF IInv, InOnePlace
  <2>6. AsWasAsked'
    <3>1. \A k \in DOMAIN queue' : Waiting(queue[k].id, queue[k].message)'
      BY <1>5, <1>6, <2>2 DEF IInv, AsWasAsked, Waiting
    <3> QED BY <1>6, <1>8, <2>3, <3>1 DEF IInv, AsWasAsked
  <2>7. Booting'
    BY <1>2, <1>5, <1>7, <1>9, <2>2, <2>3 DEF IInv, Booting
  <2>8. Handles'
    BY <1>2, <2>3 DEF IInv, Handles, Gives, Denotes
  <2> QED BY <2>4, <2>5, <2>6, <2>7, <2>8 DEF IInv
<1>10. CASE /\ ready /\ r.message.op \in PathOp /\ handler' = Started({r})
            /\ UNCHANGED <<entries, nextId, queue, replies>>
  <2>1. queue' = queue /\ replies' = replies /\ entries' = entries /\ nextId' = nextId
    BY <1>10
  <2>2. /\ handler' = [i \in DOMAIN handler' |-> handler'[i]]
        /\ DOMAIN handler' = DOMAIN handler \union {r.id}
        /\ \A i \in DOMAIN handler : handler'[i] = handler[i]
        /\ handler'[r.id] = [message |-> r.message, at |-> "navigate"]
    <3>1. handler' = Started({r}) /\ r.id \notin DOMAIN handler
      BY <1>5, <1>10
    <3>2. (CHOOSE x \in {r} : x.id = r.id) = r
      OBVIOUS
    <3>3. DOMAIN Started({r}) = DOMAIN handler \union {r.id}
      BY DEF Started
    <3>4. /\ Started({r}) = [i \in DOMAIN Started({r}) |-> Started({r})[i]]
          /\ \A i \in DOMAIN handler : Started({r})[i] = handler[i]
      BY DEF Started
    <3>5. Started({r})[r.id] = [message |-> r.message, at |-> "navigate"]
      BY <3>1, <3>2 DEF Started
    <3> QED BY <3>1, <3>3, <3>4, <3>5
  <2>3. IsStep(handler[r.id])'
    <3>1. r.message \in PathMessage
      BY <1>5, <1>10, OnPath
    <3> QED BY <2>2, <3>1 DEF IsStep
  <2>4. Frames'
    <3>1. \A i \in DOMAIN handler' : IsStep(handler[i])'
      BY <2>2, <2>3 DEF IInv, Frames, IsStep
    <3> QED BY <1>1, <1>2, <1>3, <2>1, <2>2, <3>1 DEF IInv, Frames
  <2>5. InOnePlace'
    <3>1. /\ Ids(replies)' = Ids(replies) /\ Once(replies)'
          /\ Ids(queue)' = Ids(queue) /\ Once(queue)'
      BY <2>1 DEF Ids, Once, IInv, InOnePlace
    <3> QED BY <1>2, <1>3, <1>4, <1>5, <2>2, <3>1 DEF IInv, InOnePlace
  <2>6. AsWasAsked'
    <3>1. \A i \in DOMAIN handler' : Waiting(i, handler[i].message)'
      BY <1>5, <1>6, <2>2 DEF IInv, AsWasAsked, Waiting
    <3> QED BY <1>6, <1>8, <2>1, <3>1 DEF IInv, AsWasAsked
  <2>7. Booting' /\ Handles'
    BY <1>2, <1>10, <2>1 DEF IInv, Booting, Handles, Gives, Denotes
  <2> QED BY <2>4, <2>5, <2>6, <2>7 DEF IInv
<1>11. CASE ready /\ FileCall(r.id, r.message) /\ queue' = queue
  <2>1. PICK answer \in Errno \union {"ok"} : Posts(r.id, r.message, answer, 0)
    BY <1>11 DEF FileCall, Errno
  <2>2. handler' = handler /\ queue' = queue /\ nextId' = nextId
    BY <1>11 DEF FileCall
  <2>3. \A i \in DOMAIN entries' : i \in DOMAIN entries /\ entries'[i] = entries[i]
    <3>1. entries' = entries \/ entries' = Without(entries, {r.message.handle})
      BY <1>11 DEF FileCall
    <3> QED BY <3>1 DEF Without
  <2> DEFINE p == [id |-> r.id, message |-> r.message, answer |-> answer, handle |-> 0]
  <2>4. replies' = Append(replies, p) /\ p \in Reply /\ p.id = r.id /\ p.message = r.message
        /\ p.handle = 0
    BY <1>5, <2>1 DEF Posts, Reply
  <2> HIDE DEF p
  <2>5. replies \in Seq(Reply) /\ Once(replies) /\ p.id \notin Ids(replies)
    BY <1>5, <2>4 DEF IInv, Frames, InOnePlace
  <2>6. /\ replies' \in Seq(Reply) /\ Ids(replies)' = Ids(replies) \union {r.id} /\ Once(replies)'
        /\ \A k \in DOMAIN replies' : replies'[k] = p \/ \E j \in DOMAIN replies : replies'[k] = replies[j]
    <3> PICK u : u = Append(replies, p)
      OBVIOUS
    <3>1. /\ u \in Seq(Reply) /\ Ids(u) = Ids(replies) \union {p.id} /\ Once(u)
          /\ \A k \in DOMAIN u : u[k] = p \/ \E j \in DOMAIN replies : u[k] = replies[j]
      BY <2>4, <2>5, AppendIds
    <3>2. replies' = u /\ p.id = r.id
      BY <2>4
    <3>3. Ids(replies)' = Ids(u) /\ Once(replies)' = Once(u)
      BY <3>2 DEF Ids, Once
    <3> QED BY <3>1, <3>2, <3>3
  <2>7. Frames'
    BY <1>1, <1>2, <1>3, <2>2, <2>6 DEF IInv, Frames
  <2>8. InOnePlace'
    <3>1. Ids(queue)' = Ids(queue) /\ Once(queue)'
      BY <2>2 DEF Ids, Once, IInv, InOnePlace
    <3> QED BY <1>2, <1>3, <1>4, <1>5, <2>2, <2>6, <3>1 DEF IInv, InOnePlace
  <2>9. AsWasAsked'
    <3>1. \A k \in DOMAIN replies' : Waiting(replies[k].id, replies[k].message)'
      BY <1>5, <1>6, <2>4, <2>6 DEF IInv, AsWasAsked, Waiting
    <3> QED BY <1>6, <1>8, <2>2, <3>1 DEF IInv, AsWasAsked
  <2>10. Booting'
    BY <1>2, <1>11, <2>2 DEF IInv, Booting
  <2>11. Handles'
    BY <1>2, <2>2, <2>3, <2>4, <2>6 DEF IInv, Handles, Gives, Denotes
  <2> QED BY <2>7, <2>8, <2>9, <2>10, <2>11 DEF IInv
<1> QED BY <1>1, <1>9, <1>10, <1>11 DEF Deliver, opfs

\* The queue is drained into handlers, before anything was handled.
LEMMA BootKeeps ==
    ASSUME IInv, Boot
    PROVE  IInv'
<1>1. /\ ~ready /\ ready' = TRUE /\ queue' = << >> /\ handler' = Started(Range(queue))
      /\ entries' = entries /\ nextId' = nextId /\ wire' = wire /\ replies' = replies
      /\ nextRequest' = nextRequest /\ pending' = pending /\ asked' = asked /\ known' = known
  BY DEF Boot, client
<1>2. /\ handler' = [i \in DOMAIN handler' |-> handler'[i]]
      /\ DOMAIN handler' = Ids(queue)
      /\ \A k \in DOMAIN queue : handler'[queue[k].id] = [message |-> queue[k].message, at |-> "navigate"]
  <2>1. /\ queue \in Seq(Post) /\ Once(queue) /\ DOMAIN handler = {}
        /\ handler = [i \in DOMAIN handler |-> handler[i]]
    BY <1>1 DEF IInv, Frames, InOnePlace, Booting
  <2>2. /\ \A k \in DOMAIN queue : queue[k] \in Range(queue)
        /\ \A x \in Range(queue) : \E k \in DOMAIN queue : x = queue[k]
    BY DEF Range
  <2> PICK started : started = Range(queue)
    OBVIOUS
  <2>3. /\ Started(started) = [i \in DOMAIN Started(started) |-> Started(started)[i]]
        /\ DOMAIN Started(started) = DOMAIN handler \union Ids(queue)
        /\ \A k \in DOMAIN queue : queue[k].id \notin DOMAIN handler =>
              Started(started)[queue[k].id] = [message |-> queue[k].message, at |-> "navigate"]
    BY <2>1, <2>2, StartedAre
  <2> QED BY <1>1, <2>1, <2>3
<1>3. \A i \in DOMAIN handler' : IsStep(handler[i])' /\ Waiting(i, handler[i].message)'
  <2> SUFFICES ASSUME NEW i \in DOMAIN handler'
               PROVE  IsStep(handler[i])' /\ Waiting(i, handler[i].message)'
    OBVIOUS
  <2>1. PICK k \in DOMAIN queue : queue[k].id = i
    BY <1>2 DEF Ids
  <2>2. queue[k].message \in PathMessage /\ Waiting(i, queue[k].message)
    BY <1>1, <2>1 DEF IInv, AsWasAsked, Booting
  <2>3. handler'[i] = [message |-> queue[k].message, at |-> "navigate"]
    BY <1>2, <2>1
  <2> QED BY <1>1, <2>2, <2>3 DEF IsStep, Waiting
<1>4. Ids(queue)' = {} /\ Once(queue)'
  BY <1>1 DEF Ids, Once
<1>5. /\ Ids(wire)' = Ids(wire) /\ Once(wire)' /\ Ids(replies)' = Ids(replies) /\ Once(replies)'
  BY <1>1 DEF Ids, Once, IInv, InOnePlace
<1>6. Frames'
  BY <1>1, <1>2, <1>3 DEF IInv, Frames
<1>7. InOnePlace'
  <2>1. DOMAIN handler = {}
    BY <1>1 DEF IInv, Booting
  <2> QED BY <1>1, <1>2, <1>4, <1>5, <2>1 DEF IInv, InOnePlace
<1>8. AsWasAsked'
  BY <1>1, <1>3 DEF IInv, AsWasAsked, Waiting
<1>9. Booting' /\ Handles'
  BY <1>1 DEF IInv, Booting, Handles, Gives, Denotes
<1> QED BY <1>6, <1>7, <1>8, <1>9 DEF IInv

-----------------------------------------------------------------------------
(* The theorems.                                                             *)

\* Nothing of it is changed by a step that changes nothing, nor by a boot that fails.
LEMMA StutterKeeps ==
    ASSUME IInv, BootFails \/ UNCHANGED vars
    PROVE  IInv'
<1>1. /\ wire' = wire /\ queue' = queue /\ replies' = replies /\ handler' = handler
      /\ entries' = entries /\ nextId' = nextId /\ ready' = ready
      /\ nextRequest' = nextRequest /\ pending' = pending /\ asked' = asked /\ known' = known
  BY DEF BootFails, vars, backend, client
<1>2. Frames'
  BY <1>1 DEF IInv, Frames
<1>3. InOnePlace'
  <2>1. Ids(wire)' = Ids(wire) /\ Ids(queue)' = Ids(queue) /\ Ids(replies)' = Ids(replies)
    BY <1>1 DEF Ids
  <2>2. Once(wire)' = Once(wire) /\ Once(queue)' = Once(queue) /\ Once(replies)' = Once(replies)
    BY <1>1 DEF Once
  <2> QED BY <1>1, <2>1, <2>2 DEF IInv, InOnePlace
<1>4. AsWasAsked' /\ Booting' /\ Handles'
  BY <1>1 DEF IInv, AsWasAsked, Waiting, Booting, Handles, Gives, Denotes
<1> QED BY <1>2, <1>3, <1>4 DEF IInv

LEMMA NextKeeps ==
    ASSUME IInv, [Next]_vars
    PROVE  IInv'
<1>1. ASSUME NEW c \in Client, OnHandle(c) PROVE IInv'
  <2>1. PICK h \in known, op \in FileOp \union {"dir_close"} : Rpc(c, [op |-> op, handle |-> h.id])
    BY <1>1 DEF OnHandle
  <2>2. h.id \in Nat /\ ready
    BY DEF IInv, Handles, Booting
  <2>3. [op |-> op, handle |-> h.id] \in Message
    BY <2>2 DEF Message
  <2> QED BY <2>1, <2>2, <2>3, RpcKeeps
<1>2. ASSUME NEW c \in Client, NEW m \in Request, Rpc(c, m) PROVE IInv'
  <2>1. m \in PathMessage /\ m \in Message
    BY OpfsAssumption DEF Message
  <2> QED BY <1>2, <2>1, RpcKeeps
<1>3. CASE BootFails \/ UNCHANGED vars
  BY <1>3, StutterKeeps
<1> QED BY <1>1, <1>2, <1>3, BootKeeps, DeliverKeeps, ReceiveKeeps, HandlerKeeps DEF Next

LEMMA DisjointUnion ==
    ASSUME NEW S, IsFiniteSet(S), NEW T, IsFiniteSet(T), S \intersect T = {}
    PROVE  /\ IsFiniteSet(S \union T)
           /\ Cardinality(S \union T) = Cardinality(S) + Cardinality(T)
<1>1. Cardinality(S) \in Nat /\ Cardinality(T) \in Nat
  BY FS_CardinalityType
<1>2. Cardinality(S \intersect T) = 0
  BY FS_EmptySet
<1>3. IsFiniteSet(S \union T)
  BY FS_Union
<1>4. Cardinality(S \union T) = Cardinality(S) + Cardinality(T) - Cardinality(S \intersect T)
  BY FS_Union
<1> QED BY <1>1, <1>2, <1>3, <1>4

\* The four places have no request in common, so their sizes add up to the number of
\* those who wait.
LEMMA PlacesAddUp ==
    ASSUME IInv
    PROVE  Cardinality(DOMAIN pending) =
             Len(wire) + Len(queue) + Cardinality(DOMAIN handler) + Len(replies)
<1> DEFINE A == Ids(wire)
           B == Ids(queue)
           C == DOMAIN handler
           D == Ids(replies)
<1>1. /\ IsFiniteSet(A) /\ Cardinality(A) = Len(wire)
      /\ IsFiniteSet(B) /\ Cardinality(B) = Len(queue)
      /\ IsFiniteSet(D) /\ Cardinality(D) = Len(replies)
  BY CountIds DEF IInv, Frames, InOnePlace
<1>2. IsFiniteSet(C)
  <2>1. nextRequest \in Nat /\ 0 \in Int
    BY DEF IInv, Frames
  <2>2. IsFiniteSet(0..nextRequest)
    BY <2>1, FS_Interval
  <2>3. C \subseteq DOMAIN pending
    BY DEF IInv, InOnePlace
  <2>4. C \subseteq 0..nextRequest
    BY <2>1, <2>3 DEF IInv, Frames
  <2> QED BY <2>2, <2>4, FS_Subset
<1>3. /\ A \intersect B = {} /\ (A \union B) \intersect C = {}
      /\ ((A \union B) \union C) \intersect D = {}
      /\ DOMAIN pending = ((A \union B) \union C) \union D
  BY DEF IInv, InOnePlace
<1> HIDE DEF A, B, C, D
<1>4. IsFiniteSet(A \union B) /\ Cardinality(A \union B) = Cardinality(A) + Cardinality(B)
  BY <1>1, <1>3, DisjointUnion
<1>5. /\ IsFiniteSet((A \union B) \union C)
      /\ Cardinality((A \union B) \union C) = Cardinality(A \union B) + Cardinality(C)
  BY <1>2, <1>3, <1>4, DisjointUnion
<1>6. Cardinality(DOMAIN pending) = Cardinality((A \union B) \union C) + Cardinality(D)
  BY <1>1, <1>3, <1>5, DisjointUnion
<1>7. Cardinality(C) = Cardinality(DOMAIN handler)
  BY DEF C
<1> QED BY <1>1, <1>4, <1>5, <1>6, <1>7

LEMMA Invariantly == Spec => []IInv
BY Begins, NextKeeps, PTL DEF Spec

\* Whatever calls the guests make and however the handlers' steps interleave, a request
\* that is waited for is in one place of the queue, the wire, the handlers and the replies
\* (OpfsFs.rpc and the backend's onMessage), and its answer goes to the call that asked.
THEOREM AnswersReachTheirCall == Spec => []OneAnswerEach
<1>1. IInv => OneAnswerEach
  BY PlacesAddUp DEF IInv, InOnePlace, AsWasAsked, Waiting, OneAnswerEach
<1> QED BY <1>1, Invariantly, PTL

\* However many handles were opened and closed since, a handle that the backend's
\* registry gave out denotes what was opened with it, as long as it is open.
THEOREM HandlesKeepTheirFile == Spec => []HandleNamesItsFile
<1>1. IInv => HandleNamesItsFile
  BY DEF IInv, Handles, Denotes, HandleNamesItsFile
<1> QED BY <1>1, Invariantly, PTL

-----------------------------------------------------------------------------
(* OPFS stays a tree.  Paths are short, so that what is below a directory is *)
(* what it is the parent of.                                                 *)

\* The entries are directories or files, not both, and each is in a directory.
IsTree ==
    /\ dirs \subseteq Path /\ DOMAIN files \subseteq Path \ dirs
    /\ \A p \in DOMAIN files : files[p] \in BOOLEAN
    /\ \A p \in dirs \union DOMAIN files : IsDir(Parent(p))

\* What has an access handle is a file.
OpenedAreFiles ==
    \A i \in DOMAIN entries :
        /\ entries[i] \in [type : {"file", "dir"}, path : Path]
        /\ entries[i].type = "file" => IsFile(entries[i].path)

\* Zero is no handle and no request.
FromOne == nextRequest # 0 /\ 0 \notin DOMAIN pending /\ 0 \notin DOMAIN entries

\* What the fallback of rename writes to is a file until it is written.
WrittenAreFiles == \A i \in DOMAIN handler : handler[i].at = "copy" => IsFile(ToOf(i))

\* So is what has an access handle that nobody has.
LeakedAreFiles == leaked \subseteq DOMAIN files

\* File by file is for who cannot move.
Fallback == {"source", "target", "writable", "copy", "copied"}
MovesIfItCan == \A i \in DOMAIN handler : handler[i].at \in Fallback => ~canMove

TreeInv ==
    /\ IInv /\ IsTree /\ OpenedAreFiles /\ WrittenAreFiles /\ FromOne
    /\ LeakedAreFiles /\ MovesIfItCan

\* No file goes away while it is locked.
LockedStay == \A p \in DOMAIN files : Locked(p) => p \in DOMAIN files'

LEMMA OneOf ==
    ASSUME NEW S, NEW s \in Seq(S), NEW k \in 1..Len(s)
    PROVE  SubSeq(s, k, k) = <<s[k]>>
<1>0. k \in Int /\ s[k] \in S
  OBVIOUS
<1>1. /\ SubSeq(s, k, k) \in Seq(S)
      /\ Len(SubSeq(s, k, k)) = 1 /\ SubSeq(s, k, k)[1] = s[k]
  <2>1. \A i \in k..k : s[i] \in S
    BY <1>0
  <2>2. /\ SubSeq(s, k, k) \in Seq(S)
        /\ Len(SubSeq(s, k, k)) = (IF k <= k THEN k - k + 1 ELSE 0)
        /\ \A i \in 1..k - k + 1 : SubSeq(s, k, k)[i] = s[k + i - 1]
    BY <1>0, <2>1, SubSeqProperties
  <2>3. k - k + 1 = 1 /\ 1 \in 1..k - k + 1 /\ k + 1 - 1 = k /\ k <= k
    BY <1>0
  <2> QED BY <2>2, <2>3
<1>2. \A t \in Seq(S) : Len(t) = 1 /\ t[1] = s[k] => t = <<s[k]>>
  BY <1>0
<1> QED BY <1>1, <1>2

LEMMA PathLengths ==
    ASSUME NEW p \in Path
    PROVE  /\ p \in Seq(Name) /\ Len(p) \in 1..2 /\ p # << >>
           /\ Parent(p) \in Seq(Name) /\ Len(Parent(p)) = Len(p) - 1
           /\ Len(p) = 1 => Parent(p) = << >>
           /\ Len(p) = 2 => Parent(p) = <<p[1]>> /\ p = <<p[1], p[2]>> /\ p[1] \in Name /\ p[2] \in Name
<1>1. PICK n \in 1..2 : p \in [1..n -> Name]
  BY DEF Path
<1>2. p \in Seq(Name) /\ Len(p) = n
  BY <1>1
<1>3. CASE n = 1
  <2>1. SubSeq(p, 1, 0) = << >>
    BY SubSeqEmpty
  <2> QED BY <1>2, <1>3, <2>1 DEF Parent, Front
<1>4. CASE n = 2
  <2>1. p[1] \in Name /\ p[2] \in Name /\ p = <<p[1], p[2]>>
    BY <1>1, <1>4
  <2>2. Parent(p) = <<p[1]>>
    <3>1. Len(p) - 1 = 1 /\ 1 \in 1..Len(p)
      BY <1>2, <1>4
    <3> QED BY <1>2, <3>1, OneOf DEF Parent, Front
  <2> QED BY <1>2, <1>4, <2>1, <2>2
<1> QED BY <1>3, <1>4

LEMMA BelowIsChild ==
    ASSUME NEW p \in Path, NEW q \in Path
    PROVE  /\ IsStrictPrefix(p, q) <=> Parent(q) = p
           /\ IsPrefix(p, q) <=> p = q \/ Parent(q) = p
<1>1. Parent(q) = p => Len(q) = 2 /\ Len(p) = 1
  BY PathLengths
<1>2. IsPrefix(p, q) <=> p = q \/ Parent(q) = p
  <2>1. CASE Len(p) = Len(q)
    <3>1. SubSeq(p, 1, Len(p)) = p /\ SubSeq(q, 1, Len(q)) = q
      BY PathLengths, SubSeqFull
    <3> QED BY <1>1, <2>1, <3>1, PathLengths DEF IsPrefix
  <2>2. CASE Len(p) = 1 /\ Len(q) = 2
    <3>1. SubSeq(p, 1, Len(p)) = p
      BY PathLengths, SubSeqFull
    <3>2. SubSeq(q, 1, Len(p)) = Parent(q)
      BY <2>2 DEF Parent, Front
    <3> QED BY <2>2, <3>1, <3>2, PathLengths DEF IsPrefix
  <2>3. CASE Len(p) = 2 /\ Len(q) = 1
    <3>1. ~IsPrefix(p, q)
      BY <2>3 DEF IsPrefix
    <3> QED BY <1>1, <2>3, <3>1
  <2> QED BY <2>1, <2>2, <2>3, PathLengths
<1> QED BY <1>1, <1>2 DEF IsStrictPrefix

\* A name below `q` that was below `p`.
LEMMA MovedChild ==
    ASSUME NEW p \in Path, NEW q \in Path, NEW r \in Path, Parent(r) = p, Len(q) = 1
    PROVE  /\ <<q[1], r[2]>> \in Path /\ Parent(<<q[1], r[2]>>) = q /\ <<q[1], r[2]>> # q
           /\ q \o SubSeq(r, Len(p) + 1, Len(r)) = <<q[1], r[2]>>
<1>1. Len(p) = 1 /\ Len(r) = 2 /\ r = <<r[1], r[2]>> /\ r[2] \in Name /\ q[1] \in Name /\ q = <<q[1]>>
  BY PathLengths
<1>2. SubSeq(r, Len(p) + 1, Len(r)) = <<r[2]>>
  <2>1. Len(p) + 1 = 2 /\ 2 \in 1..Len(r) /\ r \in Seq(Name)
    BY <1>1, PathLengths
  <2> QED BY <1>1, <2>1, OneOf
<1>3. q \o <<r[2]>> = <<q[1], r[2]>>
  <2>0. <<r[2]>> \in Seq(Name) /\ Len(<<r[2]>>) = 1 /\ <<r[2]>>[1] = r[2]
    BY <1>1
  <2> PICK s \in Seq(Name) : s = <<r[2]>> /\ Len(s) = 1 /\ s[1] = r[2]
    BY <2>0, Zenon
  <2>1. q \in Seq(Name) /\ Len(q) = 1 /\ s \in Seq(Name)
    BY PathLengths
  <2>2. /\ q \o s \in Seq(Name)
        /\ Len(q \o s) = Len(q) + Len(s)
        /\ \A i \in 1..Len(q) + Len(s) : (q \o s)[i] = IF i <= Len(q) THEN q[i] ELSE s[i - Len(q)]
    BY <2>1, ConcatProperties, Zenon
  <2>3. \A t \in Seq(Name) : Len(t) = 2 /\ t[1] = q[1] /\ t[2] = r[2] => t = <<q[1], r[2]>>
    BY <1>1
  <2>4. Len(q \o s) = 2 /\ (q \o s)[1] = q[1] /\ (q \o s)[2] = s[1]
    BY <2>1, <2>2
  <2> QED BY <2>2, <2>3, <2>4
<1>4. <<q[1], r[2]>> \in Path
  BY <1>1 DEF Path
<1>5. Parent(<<q[1], r[2]>>) = q
  BY <1>1, <1>4, PathLengths
<1>6. <<q[1], r[2]>> # q
  <2>1. Len(<<q[1], r[2]>>) = 2
    OBVIOUS
  <2> QED BY <2>1
<1>7. q \o SubSeq(r, Len(p) + 1, Len(r)) = <<q[1], r[2]>>
  BY <1>2, <1>3, Zenon
<1> QED BY <1>4, <1>5, <1>6, <1>7, Zenon

LEMMA MovedApart ==
    ASSUME NEW p \in Path, NEW q \in Path, NEW r \in Path, NEW s \in Path,
           Parent(r) = p, Parent(s) = p, r # s
    PROVE  <<q[1], r[2]>> # <<q[1], s[2]>>
<1>1. Len(r) = 2 /\ Len(s) = 2
  BY PathLengths
<1>2. Parent(r) = <<r[1]>> /\ Parent(s) = <<s[1]>> /\ r = <<r[1], r[2]>> /\ s = <<s[1], s[2]>>
  BY <1>1, PathLengths
<1>3. r[1] = s[1]
  BY <1>2
<1>4. r[2] # s[2]
  BY <1>2, <1>3
<1> QED BY <1>4

LEMMA MovedItself ==
    ASSUME NEW p \in Path, NEW q \in Path
    PROVE  q \o SubSeq(p, Len(p) + 1, Len(p)) = q
<1>1. SubSeq(p, Len(p) + 1, Len(p)) = << >>
  BY PathLengths, SubSeqEmpty
<1> QED BY <1>1, PathLengths

\* The five ways in which a step may change OPFS.
LEMMA TreeAsItWas ==
    ASSUME TreeInv, dirs' = dirs, files' = files, entries' = entries
    PROVE  IsTree' /\ OpenedAreFiles' /\ LockedStay
BY DEF TreeInv, IsTree, OpenedAreFiles, LockedStay, IsDir, IsFile

LEMMA FileIsPut ==
    ASSUME TreeInv, NEW p \in Path, NEW b \in BOOLEAN, ~IsDir(p), IsDir(Parent(p)),
           Changes(WithFile(p, b))
    PROVE  IsTree' /\ OpenedAreFiles' /\ LockedStay
<1>1. dirs' = dirs /\ files' = With(files, p, b) /\ entries' = entries
  BY Zenon DEF Changes, WithFile
<1>2. DOMAIN files' = DOMAIN files \union {p} /\ \A q \in DOMAIN files' : files'[q] \in {b, files[q]}
  BY <1>1 DEF With
<1>3. p \notin dirs
  BY DEF IsDir
<1>4. IsTree'
  <2>1. \A q \in DOMAIN files' : files'[q] \in BOOLEAN
    <3> SUFFICES ASSUME NEW q \in DOMAIN files' PROVE files'[q] \in BOOLEAN
      OBVIOUS
    <3>1. CASE q = p
      BY <1>1, <3>1 DEF With
    <3>2. CASE q # p
      BY <1>1, <1>2, <3>2 DEF With, TreeInv, IsTree
    <3> QED BY <3>1, <3>2
  <2> QED BY <1>1, <1>2, <1>3, <2>1 DEF TreeInv, IsTree, IsDir
<1> QED BY <1>1, <1>2, <1>4 DEF TreeInv, OpenedAreFiles, LockedStay, IsFile

LEMMA DirIsMade ==
    ASSUME TreeInv, NEW p \in Path, ~IsFile(p), IsDir(Parent(p)),
           Changes([dirs |-> dirs \union {p}, files |-> files])
    PROVE  IsTree' /\ OpenedAreFiles' /\ LockedStay
<1>1. dirs' = dirs \union {p} /\ files' = files /\ entries' = entries
  BY Zenon DEF Changes
<1> QED BY <1>1 DEF TreeInv, IsTree, OpenedAreFiles, LockedStay, IsDir, IsFile

LEMMA EntryIsRemoved ==
    ASSUME TreeInv, NEW p \in Path, Removable(p), Changes(WithoutEntry(p))
    PROVE  IsTree' /\ OpenedAreFiles' /\ LockedStay
<1>1. dirs' = dirs \ {p} /\ files' = Without(files, {p}) /\ entries' = entries
  BY Zenon DEF Changes, WithoutEntry
<1>2. DOMAIN files' = DOMAIN files \ {p} /\ \A q \in DOMAIN files' : files'[q] = files[q]
  BY <1>1 DEF Without
<1>3. Inside(p) = {} /\ ~Opened(p) /\ ~Locked(p)
  BY DEF Removable, Locked
<1>4. ASSUME NEW q \in dirs \union DOMAIN files PROVE Parent(q) # p
  <2>1. q \in Path /\ q \notin Inside(p)
    BY <1>3 DEF TreeInv, IsTree
  <2> QED BY <2>1, BelowIsChild DEF Inside
<1>5. IsTree'
  BY <1>1, <1>2, <1>4 DEF TreeInv, IsTree, IsDir
<1>6. \A i \in DOMAIN entries : entries[i].type = "file" => entries[i].path # p
  BY <1>3 DEF TreeInv, OpenedAreFiles, Opened
<1> QED BY <1>1, <1>2, <1>3, <1>5, <1>6 DEF TreeInv, OpenedAreFiles, LockedStay, IsFile

Gone(p)       == Inside(p) \union {p}
Moved(p, q, r) == q \o SubSeq(r, Len(p) + 1, Len(r))
Came(p, q, S) == {Moved(p, q, r) : r \in Gone(p) \intersect S}

Moves(p, q) ==
    /\ dirs' = (dirs \ Gone(p)) \union Came(p, q, dirs)
    /\ DOMAIN files' = (DOMAIN files \ Gone(p)) \union Came(p, q, DOMAIN files)
    /\ \A r \in DOMAIN files' : files'[r] \in BOOLEAN
    /\ \A r \in DOMAIN files' : r \notin Came(p, q, DOMAIN files) => files'[r] = files[r]
    /\ entries' = entries

LEMMA MoveMoves ==
    ASSUME TreeInv, NEW id, RenameMove(id)
    PROVE  Moves(PathOf(id), ToOf(id)) /\ Movable(PathOf(id), ToOf(id))
<1> PICK p, q : p = PathOf(id) /\ q = ToOf(id)
  OBVIOUS
<1> DEFINE new == [r \in (DOMAIN files \ Gone(p)) \union Came(p, q, DOMAIN files) |->
                     IF r \in Came(p, q, DOMAIN files)
                     THEN \E s \in DOMAIN files \intersect Gone(p) : Moved(p, q, s) = r /\ files[s]
                     ELSE files[r]]
<1>1. /\ Movable(p, q)
      /\ dirs' = (dirs \ Gone(p)) \union Came(p, q, dirs)
      /\ files' = new
      /\ entries' = entries
  BY DEF RenameMove, Changes, Gone, Came, Moved
<1>2. ASSUME NEW r \in DOMAIN new PROVE new[r] \in BOOLEAN
  <2>1. CASE r \in Came(p, q, DOMAIN files)
    <3>1. new[r] = (\E s \in DOMAIN files \intersect Gone(p) : Moved(p, q, s) = r /\ files[s])
      BY <2>1, Zenon
    <3> QED BY <3>1, Zenon
  <2>2. CASE r \notin Came(p, q, DOMAIN files)
    <3>1. new[r] = files[r] /\ r \in DOMAIN files
      BY <2>2, Zenon
    <3> QED BY <3>1 DEF TreeInv, IsTree
  <2> QED BY <2>1, <2>2
<1>3. \A r \in DOMAIN new : r \notin Came(p, q, DOMAIN files) => new[r] = files[r]
  BY Zenon
<1>4. DOMAIN new = (DOMAIN files \ Gone(p)) \union Came(p, q, DOMAIN files)
  BY Zenon
<1> HIDE DEF new
<1>5. Moves(p, q)
  BY <1>1, <1>2, <1>3, <1>4 DEF Moves
<1> QED BY <1>1, <1>5

\* What goes along has its place in the directory that `q` will be.
LEMMA GoesAlong ==
    ASSUME TreeInv, NEW p \in Path, NEW q \in Path, Movable(p, q),
           NEW r \in Gone(p), r \in dirs \union DOMAIN files
    PROVE  /\ Moved(p, q, r) \in Path
           /\ r = p => Moved(p, q, r) = q
           /\ r # p => /\ p \in dirs /\ Parent(r) = p /\ Moved(p, q, r) = <<q[1], r[2]>>
                       /\ Parent(Moved(p, q, r)) = q /\ Moved(p, q, r) # q
<1>1. CASE r = p
  BY <1>1, MovedItself DEF Moved
<1>2. CASE r # p
  <2>1. r \in Path /\ IsStrictPrefix(p, r)
    BY <1>2 DEF Gone, Inside, TreeInv, IsTree
  <2>2. Parent(r) = p
    BY <2>1, BelowIsChild
  <2>3. p \in dirs
    BY <2>2, PathLengths DEF TreeInv, IsTree, IsDir
  <2>4. Len(q) = 1
    BY <2>3 DEF Movable, IsDir
  <2>5. /\ Moved(p, q, r) \in Path /\ Parent(Moved(p, q, r)) = q /\ Moved(p, q, r) # q
        /\ Moved(p, q, r) = <<q[1], r[2]>>
    <3>1. /\ <<q[1], r[2]>> \in Path /\ Parent(<<q[1], r[2]>>) = q /\ <<q[1], r[2]>> # q
          /\ q \o SubSeq(r, Len(p) + 1, Len(r)) = <<q[1], r[2]>>
      BY <2>1, <2>2, <2>4, MovedChild
    <3> QED BY <3>1, ZenonT(30) DEF Moved
  <2> QED BY <1>2, <2>2, <2>3, <2>5
<1> QED BY <1>1, <1>2

LEMMA EntryIsMoved ==
    ASSUME TreeInv, NEW p \in Path, NEW q \in Path, Movable(p, q), Moves(p, q)
    PROVE  IsTree' /\ OpenedAreFiles' /\ LockedStay
<1>1. /\ dirs \subseteq Path /\ DOMAIN files \subseteq Path \ dirs
      /\ \A r \in dirs \union DOMAIN files : Parent(r) = << >> \/ Parent(r) \in dirs
  BY DEF TreeInv, IsTree, IsDir
<1>2. /\ Exists(p) /\ q \notin dirs /\ (p \in dirs => q \notin DOMAIN files)
      /\ ~IsPrefix(p, q) /\ (Parent(q) = << >> \/ Parent(q) \in dirs)
  BY DEF Movable, IsDir, IsFile
<1>3. \A r \in dirs \union DOMAIN files : Parent(r) # q
  BY <1>1, <1>2, PathLengths
<1>4. ASSUME NEW d \in Path PROVE Parent(d) \notin Gone(p) \/ Parent(d) = p
  <2> SUFFICES ASSUME Parent(d) \in Inside(p) PROVE FALSE
    BY DEF Gone
  <2>1. Parent(d) \in Path /\ Parent(Parent(d)) = p
    BY <1>1, BelowIsChild DEF Inside
  <2> QED BY <2>1, PathLengths
<1>5. \A x \in Came(p, q, dirs) : \E r \in Gone(p) \intersect dirs : x = Moved(p, q, r)
  BY Zenon DEF Came
<1>6. \A x \in Came(p, q, DOMAIN files) : \E r \in Gone(p) \intersect DOMAIN files : x = Moved(p, q, r)
  BY Zenon DEF Came
<1>7. dirs' \subseteq Path /\ DOMAIN files' \subseteq Path
  BY <1>1, <1>5, <1>6, GoesAlong DEF Moves
<1>8. ASSUME NEW f \in DOMAIN files', f \in dirs' PROVE FALSE
  <2>1. CASE f \in DOMAIN files /\ f \in Came(p, q, dirs)
    <3>1. PICK r \in Gone(p) \intersect dirs : f = Moved(p, q, r)
      BY <1>5, <2>1
    <3> QED BY <1>1, <1>2, <1>3, <2>1, <3>1, GoesAlong
  <2>2. CASE f \in Came(p, q, DOMAIN files) /\ f \in dirs
    <3>1. PICK r \in Gone(p) \intersect DOMAIN files : f = Moved(p, q, r)
      BY <1>6, <2>2
    <3> QED BY <1>1, <1>2, <1>3, <2>2, <3>1, GoesAlong
  <2>3. CASE f \in Came(p, q, DOMAIN files) /\ f \in Came(p, q, dirs)
    <3>1. PICK r \in Gone(p) \intersect DOMAIN files : f = Moved(p, q, r)
      BY <1>6, <2>3
    <3>2. PICK s \in Gone(p) \intersect dirs : f = Moved(p, q, s)
      BY <1>5, <2>3
    <3>3. r # s /\ r \in Path /\ s \in Path
      BY <1>1
    <3>4. CASE r = p
      <4>1. f = q /\ s # p /\ p \notin dirs
        BY <1>1, <3>1, <3>3, <3>4, GoesAlong
      <4> QED BY <3>2, <4>1, GoesAlong
    <3>6. CASE s = p
      <4>1. f = q /\ r # p
        BY <3>2, <3>3, <3>6, GoesAlong
      <4> QED BY <3>1, <4>1, GoesAlong
    <3>5. CASE r # p /\ s # p
      <4>1. Parent(r) = p /\ f = <<q[1], r[2]>>
        BY <3>1, <3>5, GoesAlong
      <4>2. Parent(s) = p /\ f = <<q[1], s[2]>>
        BY <3>2, <3>5, GoesAlong
      <4> QED BY <3>3, <4>1, <4>2, MovedApart
    <3> QED BY <3>4, <3>5, <3>6
  <2> QED BY <1>1, <1>8, <2>1, <2>2, <2>3 DEF Moves
<1>9. ASSUME NEW d \in dirs' \union DOMAIN files' PROVE IsDir(Parent(d))'
  <2>1. CASE d \in (dirs \union DOMAIN files) \ Gone(p)
    <3>1. Parent(d) # p
      <4>1. d \in Path /\ d \notin Inside(p)
        BY <1>1, <2>1 DEF Gone
      <4> QED BY <2>1, <4>1, BelowIsChild DEF Inside
    <3> QED BY <1>1, <1>4, <2>1, <3>1 DEF IsDir, Moves
  <2>2. ASSUME NEW r \in Gone(p), r \in dirs \union DOMAIN files, d = Moved(p, q, r)
        PROVE  IsDir(Parent(d))'
    <3>1. CASE r = p
      <4>1. Parent(q) # p
        BY <1>2, BelowIsChild
      <4> QED BY <1>2, <1>4, <2>2, <3>1, <4>1, GoesAlong DEF IsDir, Moves
    <3>2. CASE r # p
      <4>1. Parent(d) = q /\ p \in Gone(p) \intersect dirs
        BY <2>2, <3>2, GoesAlong DEF Gone
      <4>2. q \in Came(p, q, dirs)
        BY <4>1, MovedItself DEF Came, Moved
      <4> QED BY <4>1, <4>2 DEF IsDir, Moves
    <3> QED BY <3>1, <3>2
  <2> QED BY <1>5, <1>6, <2>1, <2>2 DEF Moves
<1>10. IsTree'
  BY <1>7, <1>8, <1>9 DEF IsTree, Moves
<1>11. ASSUME NEW i \in DOMAIN entries, entries[i].type = "file"
       PROVE  entries[i].path \in DOMAIN files'
  <2>1. /\ entries[i] = [type |-> "file", path |-> entries[i].path]
        /\ entries[i].path \in DOMAIN files
    BY <1>11 DEF TreeInv, OpenedAreFiles, IsFile
  <2>2. Locked(entries[i].path)
    BY <2>1 DEF Locked, Opened
  <2> QED BY <2>1, <2>2 DEF Movable, Gone, Moves
<1>12. LockedStay
  BY DEF LockedStay, Movable, Gone, Moves
<1> QED BY <1>10, <1>11, <1>12 DEF TreeInv, OpenedAreFiles, Moves, IsFile

\* A handle is registered for a directory that is there, or for a file that stays.
LEMMA HandleIsRegistered ==
    ASSUME TreeInv, NEW id \in DOMAIN handler, NEW type \in {"file", "dir"}, Registers(id, type),
           dirs' = dirs, DOMAIN files' = DOMAIN files, \A r \in DOMAIN files : files'[r] \in BOOLEAN,
           PathOf(id) \in Path, type = "file" => IsFile(PathOf(id))
    PROVE  IsTree' /\ OpenedAreFiles' /\ LockedStay
<1>1. entries' = With(entries, nextId, [type |-> type, path |-> PathOf(id)])
  BY DEF Registers, FreshId
<1>2. /\ DOMAIN entries' = DOMAIN entries \union {nextId}
      /\ \A i \in DOMAIN entries' :
            entries'[i] = IF i = nextId THEN [type |-> type, path |-> PathOf(id)] ELSE entries[i]
  BY <1>1 DEF With
<1>3. IsTree'
  BY DEF TreeInv, IsTree, IsDir
<1>4. ASSUME NEW i \in DOMAIN entries'
      PROVE  /\ entries'[i] \in [type : {"file", "dir"}, path : Path]
             /\ entries'[i].type = "file" => entries'[i].path \in DOMAIN files
  <2>1. CASE i = nextId
    <3>1. entries'[i] = [type |-> type, path |-> PathOf(id)]
      BY <1>2, <2>1
    <3> QED BY <3>1 DEF IsFile
  <2>2. CASE i # nextId
    <3>1. entries'[i] = entries[i] /\ i \in DOMAIN entries
      BY <1>2, <2>2
    <3> QED BY <3>1 DEF TreeInv, OpenedAreFiles, IsFile
  <2> QED BY <2>1, <2>2
<1> QED BY <1>3, <1>4 DEF OpenedAreFiles, LockedStay, IsFile

LEMMA HandlerKeepsTree ==
    ASSUME TreeInv, NEW id \in DOMAIN handler, HandlerStep(id)
    PROVE  IsTree' /\ OpenedAreFiles' /\ LockedStay
<1> DEFINE p == PathOf(id)
           q == ToOf(id)
<1>1. p \in Path /\ q \in Path
  <2>1. handler[id].message \in PathMessage
    BY DEF TreeInv, IInv, Frames, IsStep
  <2> QED BY <2>1 DEF PathMessage, PathOf, ToOf
<1>2. \A x \in DOMAIN files : files[x] \in BOOLEAN /\ x \in Path /\ IsDir(Parent(x)) /\ ~IsDir(x)
  BY PathLengths DEF TreeInv, IsTree, IsDir
<1> HIDE DEF p, q
<1>3. ASSUME NEW at, Looks(id, at) PROVE IsTree' /\ OpenedAreFiles' /\ LockedStay
  BY <1>3, TreeAsItWas DEF Looks, opfs
<1>4. ASSUME NEW errno, Throws(id, errno) PROVE IsTree' /\ OpenedAreFiles' /\ LockedStay
  BY <1>4, TreeAsItWas DEF Throws, opfs
<1>5. ASSUME NEW dir, NEW next, Navigates(id, dir, next) PROVE IsTree' /\ OpenedAreFiles' /\ LockedStay
  BY <1>3, <1>4, <1>5 DEF Navigates
<1>6. CASE Navigate(id) \/ RenameNavigate(id)
  BY <1>5, <1>6 DEF Navigate, RenameNavigate
<1>7. CASE OpenDir(id)
  <2>1. (Registers(id, "dir") /\ UNCHANGED opfs) \/ Throws(id, "ENOTDIR") \/ Throws(id, "ENOENT")
    BY <1>7 DEF OpenDir
  <2>2. CASE Registers(id, "dir") /\ UNCHANGED opfs
    BY <1>1, <1>2, <2>2, HandleIsRegistered DEF opfs, p
  <2> QED BY <1>4, <2>1, <2>2
<1>8. CASE OpenLock(id)
  <2>1. CASE UNCHANGED <<files, entries>>
    BY <1>8, <2>1, TreeAsItWas DEF OpenLock
  <2>2. CASE files' = [files EXCEPT ![p] = Kept(id, "lock")] /\ Registers(id, "file")
    <3>1. IsFile(p) /\ dirs' = dirs
      BY <1>8 DEF OpenLock, p
    <3>2. Kept(id, "lock") \in BOOLEAN
      BY Zenon DEF Kept
    <3>3. DOMAIN files' = DOMAIN files /\ \A r \in DOMAIN files : files'[r] \in BOOLEAN
      BY <1>2, <2>2, <3>2
    <3> QED BY <1>1, <2>2, <3>1, <3>3, HandleIsRegistered DEF p
  <2> QED BY <1>8, <2>1, <2>2 DEF OpenLock, p
<1>9. CASE OpenPrecheck(id)
  BY <1>3, <1>4, <1>9 DEF OpenPrecheck
<1>10. CASE OpenCreate(id)
  <2>1. CASE Throws(id, "EISDIR") \/ Throws(id, "ENOENT")
    BY <1>4, <2>1
  <2>2. CASE IsFile(p) /\ Changes(WithFile(p, Kept(id, "create")))
    <3>1. Kept(id, "create") \in BOOLEAN
      BY Zenon DEF Kept
    <3>2. ~IsDir(p) /\ IsDir(Parent(p))
      BY <1>2, <2>2 DEF IsFile
    <3> QED BY <1>1, <2>2, <3>1, <3>2, FileIsPut
  <2>3. CASE ~Exists(p) /\ IsDir(Parent(p)) /\ Changes(WithFile(p, FALSE))
    BY <1>1, <2>3, FileIsPut DEF Exists
  <2> QED BY <1>10, <2>1, <2>2, <2>3 DEF OpenCreate, p
<1>11. CASE MkdirFind(id) \/ FindToRemove(id) \/ RmdirEmpty(id) \/ RenameFind(id)
  BY <1>3, <1>4, <1>11 DEF MkdirFind, FindToRemove, RmdirEmpty, RenameFind
<1>12. CASE MkdirMake(id)
  BY <1>1, <1>12, DirIsMade DEF MkdirMake, p
<1>13. CASE RemoveEntry(id)
  BY <1>1, <1>13, EntryIsRemoved DEF RemoveEntry, p
<1>14. CASE RenameMove(id)
  BY <1>1, <1>14, MoveMoves, EntryIsMoved DEF p, q
<1>15. CASE RenameSource(id) \/ RenameWritable(id)
  BY <1>3, <1>15 DEF RenameSource, RenameWritable
<1>16. CASE RenameTarget(id)
  <2>1. IsDir(Parent(q)) /\ ~IsDir(q) /\ Changes(WithFile(q, IsFile(q) /\ files[q]))
    BY <1>16 DEF RenameTarget, q
  <2>2. (IsFile(q) /\ files[q]) \in BOOLEAN
    BY Zenon
  <2> QED BY <1>1, <2>1, <2>2, FileIsPut
<1>17. CASE RenameCopy(id)
  <2>1. handler[id].at = "copy" /\ Changes(WithFile(q, files[p])) /\ IsFile(p)
    BY <1>17 DEF RenameCopy, At, p, q
  <2>2. IsFile(q)
    BY <2>1 DEF TreeInv, WrittenAreFiles, q
  <2> QED BY <1>1, <1>2, <2>1, <2>2, FileIsPut DEF IsFile
<1>18. CASE IoFails(id)
  BY <1>4, <1>18 DEF IoFails
<1> QED BY <1>6, <1>7, <1>8, <1>9, <1>10, <1>11, <1>12, <1>13, <1>14, <1>15, <1>16, <1>17, <1>18
        DEF HandlerStep

\* A handler that goes on to write has found a file there, and left OPFS as it is.
LEMMA GoesToCopy ==
    ASSUME NEW id \in DOMAIN handler, HandlerStep(id)
    PROVE  \/ \E answer, h : Answers(id, answer, h)
           \/ \E at : Goes(id, at) /\ (at = "copy" => IsFile(ToOf(id)) /\ files' = files)
<1> DEFINE Ends == \E answer, h : Answers(id, answer, h)
           Continues == \E at : Goes(id, at) /\ (at = "copy" => IsFile(ToOf(id)) /\ files' = files)
<1>1. ASSUME NEW at, Looks(id, at), at # "copy" PROVE Continues
  BY <1>1 DEF Looks
<1>2. ASSUME NEW at, Goes(id, at), at # "copy" PROVE Continues
  BY <1>2
<1>3. ASSUME NEW errno, Throws(id, errno) PROVE Ends
  BY <1>3 DEF Throws, AnswersError
<1>4. ASSUME NEW type, Registers(id, type) PROVE Ends
  BY <1>4 DEF Registers
<1> HIDE DEF Ends, Continues
<1> SUFFICES Ends \/ Continues
  BY DEF Ends, Continues
<1>5. ASSUME NEW dir, NEW next, Navigates(id, dir, next), next # "copy" PROVE Ends \/ Continues
  BY <1>1, <1>3, <1>5 DEF Navigates
<1>6. First(handler[id].message) # "copy"
  BY DEF First
<1>7. CASE Navigate(id) \/ RenameNavigate(id)
  BY <1>5, <1>6, <1>7 DEF Navigate, RenameNavigate
<1>8. CASE OpenDir(id) \/ OpenPrecheck(id) \/ OpenCreate(id)
  BY <1>1, <1>2, <1>3, <1>4, <1>8 DEF OpenDir, OpenPrecheck, OpenCreate
<1>14. CASE OpenLock(id)
  BY <1>4, <1>14 DEF OpenLock, AnswersError, Ends
<1>9. CASE MkdirFind(id) \/ FindToRemove(id) \/ RmdirEmpty(id) \/ RenameFind(id)
  BY <1>1, <1>3, <1>9 DEF MkdirFind, FindToRemove, RmdirEmpty, RenameFind
<1>10. CASE MkdirMake(id) \/ RemoveEntry(id) \/ RenameMove(id)
  BY <1>10 DEF MkdirMake, RemoveEntry, RenameMove, Ends
<1>11. CASE RenameSource(id) \/ RenameTarget(id) \/ RenameCopy(id)
  BY <1>1, <1>2, <1>11 DEF RenameSource, RenameTarget, RenameCopy
<1>12. CASE RenameWritable(id)
  BY <1>12 DEF RenameWritable, Looks, opfs, Continues
<1>13. CASE IoFails(id)
  BY <1>3, <1>13 DEF IoFails
<1> QED BY <1>7, <1>8, <1>9, <1>10, <1>11, <1>12, <1>13, <1>14 DEF HandlerStep

LEMMA HandlerKeepsWritten ==
    ASSUME TreeInv, NEW id \in DOMAIN handler, HandlerStep(id)
    PROVE  WrittenAreFiles'
<1>1. LockedStay
  BY HandlerKeepsTree
<1>2. \A i \in DOMAIN handler : handler[i].at = "copy" => ToOf(i) \in DOMAIN files /\ ToOf(i) \in DOMAIN files'
  BY <1>1 DEF TreeInv, WrittenAreFiles, LockedStay, Locked, IsFile, ToOf
<1>3. ASSUME NEW answer, NEW h, Answers(id, answer, h) PROVE WrittenAreFiles'
  BY <1>2, <1>3 DEF Answers, Without, WrittenAreFiles, ToOf, IsFile
<1>4. ASSUME NEW at, Goes(id, at), at = "copy" => IsFile(ToOf(id)) /\ files' = files
      PROVE  WrittenAreFiles'
  <2>1. handler = [i \in DOMAIN handler |-> handler[i]] /\ IsStep(handler[id])
    BY DEF TreeInv, IInv, Frames
  <2>2. /\ DOMAIN handler' = DOMAIN handler
        /\ \A i \in DOMAIN handler : i # id => handler'[i] = handler[i]
        /\ handler'[id].at = at /\ handler'[id].message = handler[id].message
    <3>1. handler' = [handler EXCEPT ![id] = [handler[id] EXCEPT !.at = at]]
      BY <1>4 DEF Goes
    <3>2. [handler[id] EXCEPT !.at = at] = [message |-> handler[id].message, at |-> at]
      BY <2>1 DEF IsStep
    <3> QED BY <2>1, <3>1, <3>2
  <2> QED BY <1>2, <1>4, <2>2 DEF WrittenAreFiles, ToOf, IsFile
<1> QED BY <1>3, <1>4, GoesToCopy

\* A handler leaves OPFS's locks as they are, or leaks the one it has on a file.
LEMMA HandlerLeaks ==
    ASSUME TreeInv, NEW id \in DOMAIN handler, HandlerStep(id)
    PROVE  LeakedAreFiles'
<1>1. \/ leaked' = leaked
      \/ leaked' = leaked \union {PathOf(id)} /\ IsFile(PathOf(id)) /\ files' = files
  <2>1. ASSUME NEW at, Looks(id, at) PROVE leaked' = leaked
    BY <2>1 DEF Looks, opfs
  <2>2. ASSUME NEW errno, Throws(id, errno) PROVE leaked' = leaked
    BY <2>2 DEF Throws, opfs
  <2>3. ASSUME NEW fs, Changes(fs) PROVE leaked' = leaked
    BY <2>3 DEF Changes
  <2>4. CASE OpenLock(id)
    BY <2>4 DEF OpenLock
  <2>5. CASE Navigate(id) \/ RenameNavigate(id) \/ OpenDir(id) \/ OpenPrecheck(id) \/ OpenCreate(id)
    BY <2>1, <2>2, <2>3, <2>5 DEF Navigate, RenameNavigate, Navigates, OpenDir, OpenPrecheck, OpenCreate, opfs
  <2>6. CASE MkdirFind(id) \/ MkdirMake(id) \/ FindToRemove(id) \/ RmdirEmpty(id) \/ RemoveEntry(id)
    BY <2>1, <2>2, <2>3, <2>6 DEF MkdirFind, MkdirMake, FindToRemove, RmdirEmpty, RemoveEntry
  <2>7. CASE \/ RenameFind(id) \/ RenameMove(id) \/ RenameSource(id) \/ RenameTarget(id)
             \/ RenameWritable(id) \/ RenameCopy(id)
    BY <2>1, <2>2, <2>3, <2>7
       DEF RenameFind, RenameMove, RenameSource, RenameTarget, RenameWritable, RenameCopy
  <2>8. CASE IoFails(id)
    BY <2>2, <2>8 DEF IoFails
  <2> QED BY <2>4, <2>5, <2>6, <2>7, <2>8 DEF HandlerStep
<1>2. LockedStay
  BY HandlerKeepsTree
<1>3. leaked \subseteq DOMAIN files'
  BY <1>2 DEF LockedStay, Locked, TreeInv, LeakedAreFiles
<1> QED BY <1>1, <1>3 DEF LeakedAreFiles, IsFile

\* Only a rename begins to copy, and only where handles have no move().
LEMMA GoesToFallback ==
    ASSUME NEW id \in DOMAIN handler, HandlerStep(id)
    PROVE  /\ canMove' = canMove
           /\ \/ \E answer, h : Answers(id, answer, h)
              \/ \E at : Goes(id, at) /\ (at \in Fallback => ~canMove \/ handler[id].at \in Fallback)
<1> DEFINE Ends == \E answer, h : Answers(id, answer, h)
           Continues == \E at : Goes(id, at) /\ (at \in Fallback => ~canMove \/ handler[id].at \in Fallback)
           Goal == canMove' = canMove /\ (Ends \/ Continues)
<1>1. ASSUME NEW at, Looks(id, at), at \in Fallback => ~canMove \/ handler[id].at \in Fallback PROVE Goal
  BY <1>1 DEF Looks, opfs
<1>2. ASSUME NEW at, NEW fs, Goes(id, at), Changes(fs),
             at \in Fallback => ~canMove \/ handler[id].at \in Fallback
      PROVE  Goal
  BY <1>2 DEF Changes
<1>3. ASSUME NEW errno, Throws(id, errno) PROVE Goal
  BY <1>3 DEF Throws, AnswersError, opfs
<1>4. ASSUME NEW type, Registers(id, type), canMove' = canMove PROVE Goal
  BY <1>4 DEF Registers
<1>5. ASSUME NEW answer, NEW h, NEW fs, Answers(id, answer, h), Changes(fs) PROVE Goal
  BY <1>5 DEF Changes
<1>6. ASSUME NEW errno, AnswersError(id, errno), canMove' = canMove PROVE Goal
  BY <1>6 DEF AnswersError
<1> HIDE DEF Goal
<1> SUFFICES Goal
  BY DEF Goal
<1>7. ASSUME NEW dir, NEW next, Navigates(id, dir, next), next \notin Fallback PROVE Goal
  BY <1>1, <1>3, <1>7 DEF Navigates
<1>8. First(handler[id].message) \notin Fallback /\ "find" \notin Fallback
  BY DEF First, Fallback
<1>9. CASE Navigate(id) \/ RenameNavigate(id)
  BY <1>7, <1>8, <1>9 DEF Navigate, RenameNavigate
<1>10. CASE OpenDir(id) \/ OpenLock(id)
  BY <1>3, <1>4, <1>6, <1>10 DEF OpenDir, OpenLock, opfs
<1>11. CASE OpenPrecheck(id) \/ OpenCreate(id)
  <2>1. "create" \notin Fallback /\ "lock" \notin Fallback
    BY DEF Fallback
  <2> QED BY <1>1, <1>2, <1>3, <1>11, <2>1 DEF OpenPrecheck, OpenCreate
<1>12. CASE MkdirFind(id) \/ FindToRemove(id) \/ RmdirEmpty(id)
  <2>1. "make" \notin Fallback /\ "empty" \notin Fallback /\ "remove" \notin Fallback
    BY DEF Fallback
  <2> QED BY <1>1, <1>3, <1>12, <2>1 DEF MkdirFind, FindToRemove, RmdirEmpty
<1>13. CASE MkdirMake(id) \/ RemoveEntry(id) \/ RenameMove(id)
  BY <1>5, <1>13 DEF MkdirMake, RemoveEntry, RenameMove
<1>14. CASE RenameFind(id)
  <2>1. "move" \notin Fallback
    BY DEF Fallback
  <2> QED BY <1>1, <1>3, <1>14, <2>1 DEF RenameFind
<1>15. CASE RenameSource(id) \/ RenameTarget(id) \/ RenameWritable(id) \/ RenameCopy(id)
  <2>1. handler[id].at \in Fallback
    BY <1>15 DEF RenameSource, RenameTarget, RenameWritable, RenameCopy, At, Fallback
  <2> QED BY <1>1, <1>2, <1>15, <2>1 DEF RenameSource, RenameTarget, RenameWritable, RenameCopy
<1>16. CASE IoFails(id)
  BY <1>3, <1>16 DEF IoFails
<1> QED BY <1>9, <1>10, <1>11, <1>12, <1>13, <1>14, <1>15, <1>16 DEF HandlerStep

LEMMA HandlerFallsBack ==
    ASSUME TreeInv, NEW id \in DOMAIN handler, HandlerStep(id)
    PROVE  MovesIfItCan'
<1>1. canMove' = canMove /\ \A i \in DOMAIN handler : handler[i].at \in Fallback => ~canMove
  BY GoesToFallback DEF TreeInv, MovesIfItCan
<1>2. ASSUME NEW answer, NEW h, Answers(id, answer, h) PROVE MovesIfItCan'
  BY <1>1, <1>2 DEF Answers, Without, MovesIfItCan
<1>3. ASSUME NEW at, Goes(id, at), at \in Fallback => ~canMove \/ handler[id].at \in Fallback
      PROVE  MovesIfItCan'
  <2>1. handler = [i \in DOMAIN handler |-> handler[i]] /\ IsStep(handler[id])
    BY DEF TreeInv, IInv, Frames
  <2>2. /\ DOMAIN handler' = DOMAIN handler
        /\ \A i \in DOMAIN handler : i # id => handler'[i] = handler[i]
        /\ handler'[id].at = at
    <3>1. handler' = [handler EXCEPT ![id] = [handler[id] EXCEPT !.at = at]]
      BY <1>3 DEF Goes
    <3>2. [handler[id] EXCEPT !.at = at] = [message |-> handler[id].message, at |-> at]
      BY <2>1 DEF IsStep
    <3> QED BY <2>1, <3>1, <3>2
  <2> QED BY <1>1, <1>3, <2>2 DEF MovesIfItCan
<1> QED BY <1>2, <1>3, GoesToFallback

LEMMA HandlerCountsOn ==
    ASSUME TreeInv, NEW id \in DOMAIN handler, HandlerStep(id)
    PROVE  FromOne'
<1>1. UNCHANGED client
  BY HandlerStepKinds
<1>2. entries' = entries \/ entries' = With(entries, nextId, [type |-> TypeFor(handler[id].message), path |-> PathOf(id)])
  BY HandlerStepKinds DEF GoesOn, JustAnswers, GivesHandle, Registers, FreshId
<1>3. nextId # 0
  BY DEF TreeInv, IInv, Frames
<1> QED BY <1>1, <1>2, <1>3 DEF TreeInv, FromOne, With, client

\* The other steps: a call on an open file writes it or closes it, and nothing else
\* touches OPFS.
LEMMA OthersKeepTree ==
    ASSUME TreeInv, \/ Boot \/ BootFails \/ Deliver \/ Receive \/ UNCHANGED vars
                    \/ \E c \in Client, m \in Message : Rpc(c, m)
    PROVE  IsTree' /\ OpenedAreFiles'  /\ FromOne'
<1>1. CASE UNCHANGED <<dirs, files, entries>>
  <2>1. IsTree' /\ OpenedAreFiles'
    BY <1>1, TreeAsItWas
  <2>2. nextRequest' # 0 /\ 0 \notin DOMAIN pending'
    <3>1. CASE nextRequest' = nextRequest /\ pending' = pending
      BY <3>1 DEF TreeInv, FromOne
    <3>2. CASE Receive
      BY <3>2 DEF Receive, Without, TreeInv, FromOne
    <3>3. ASSUME NEW c, NEW m, Rpc(c, m) PROVE nextRequest' # 0 /\ 0 \notin DOMAIN pending'
      BY <3>3 DEF Rpc, With, TreeInv, FromOne, IInv, Frames
    <3> QED BY <3>1, <3>2, <3>3 DEF Boot, BootFails, Deliver, vars, client
  <2> QED BY <1>1, <2>1, <2>2 DEF TreeInv, FromOne
<1>2. ASSUME NEW id, NEW m, FileCall(id, m), Deliver PROVE IsTree' /\ OpenedAreFiles' /\ FromOne'
  <2>1. dirs' = dirs /\ nextRequest' = nextRequest /\ pending' = pending
    BY <1>2 DEF FileCall, Deliver, client
  <2>2. \/ files' = files
        \/ files' = [files EXCEPT ![entries[m.handle].path] = m.op = "file_write"]
    BY <1>2 DEF FileCall
  <2>3. DOMAIN files' = DOMAIN files /\ \A r \in DOMAIN files : files'[r] \in BOOLEAN
    <3>1. (m.op = "file_write") \in BOOLEAN
      OBVIOUS
    <3> QED BY <2>2, <3>1 DEF TreeInv, IsTree
  <2>4. \A i \in DOMAIN entries' : i \in DOMAIN entries /\ entries'[i] = entries[i]
    <3>1. entries' = entries \/ entries' = Without(entries, {m.handle})
      BY <1>2 DEF FileCall
    <3> QED BY <3>1 DEF Without
  <2>5. IsTree'
    BY <2>1, <2>3 DEF TreeInv, IsTree, IsDir
  <2>6. OpenedAreFiles'
    BY <2>3, <2>4 DEF TreeInv, OpenedAreFiles, IsFile
  <2> QED BY <2>1, <2>4, <2>5, <2>6 DEF TreeInv, FromOne
<1> QED BY <1>1, <1>2 DEF Boot, BootFails, Deliver, Receive, vars, Rpc, opfs, backend

\* A call on a handle, and everything before and after a handler, leaves the files that
\* a handler is about to write.
LEMMA OthersKeepWritten ==
    ASSUME TreeInv, \/ Boot \/ BootFails \/ Deliver \/ Receive \/ UNCHANGED vars
                    \/ \E c \in Client, m \in Message : Rpc(c, m)
    PROVE  WrittenAreFiles'
<1>1. DOMAIN files' = DOMAIN files
  <2>1. files' = files \/ \E p, v : files' = [files EXCEPT ![p] = v]
    BY DEF Boot, BootFails, Deliver, Receive, vars, Rpc, opfs, FileCall
  <2> QED BY <2>1
<1>2. handler' = handler \/ \E requests : handler' = Started(requests)
  BY DEF Boot, BootFails, Deliver, Receive, vars, Rpc, backend, FileCall
<1>3. \A i \in DOMAIN handler' : handler'[i].at = "copy" => i \in DOMAIN handler /\ handler'[i] = handler[i]
  <2>1. ASSUME NEW requests, handler' = Started(requests), NEW i \in DOMAIN handler', i \notin DOMAIN handler
        PROVE  handler'[i].at # "copy"
    BY <2>1 DEF Started
  <2>2. ASSUME NEW requests, handler' = Started(requests), NEW i \in DOMAIN handler
        PROVE  handler'[i] = handler[i]
    BY <2>2 DEF Started
  <2> QED BY <1>2, <2>1, <2>2
<1> QED BY <1>1, <1>3 DEF TreeInv, WrittenAreFiles, ToOf, IsFile

LEMMA OthersKeepTheRest ==
    ASSUME TreeInv, \/ Boot \/ BootFails \/ Deliver \/ Receive \/ UNCHANGED vars
                    \/ \E c \in Client, m \in Message : Rpc(c, m)
    PROVE  LeakedAreFiles' /\ MovesIfItCan'
<1>1. DOMAIN files' = DOMAIN files
  <2>1. files' = files \/ \E p, v : files' = [files EXCEPT ![p] = v]
    BY DEF Boot, BootFails, Deliver, Receive, vars, Rpc, opfs, FileCall
  <2> QED BY <2>1
<1>2. leaked' = leaked /\ canMove' = canMove
  BY DEF Boot, BootFails, Deliver, Receive, vars, Rpc, opfs, FileCall
<1>3. handler' = handler \/ \E requests : handler' = Started(requests)
  BY DEF Boot, BootFails, Deliver, Receive, vars, Rpc, backend, FileCall
<1>4. \A i \in DOMAIN handler' :
        handler'[i].at \in Fallback => i \in DOMAIN handler /\ handler'[i] = handler[i]
  <2>1. ASSUME NEW requests, handler' = Started(requests), NEW i \in DOMAIN handler', i \notin DOMAIN handler
        PROVE  handler'[i].at \notin Fallback
    BY <2>1 DEF Started, Fallback
  <2>2. ASSUME NEW requests, handler' = Started(requests), NEW i \in DOMAIN handler
        PROVE  handler'[i] = handler[i]
    BY <2>2 DEF Started
  <2> QED BY <1>3, <2>1, <2>2
<1> QED BY <1>1, <1>2, <1>4 DEF TreeInv, LeakedAreFiles, MovesIfItCan

LEMMA TreeBegins == Init => TreeInv
<1> SUFFICES ASSUME Init PROVE TreeInv
  OBVIOUS
<1>1. IInv
  BY Begins
<1>2. IsTree
  BY OpfsAssumption DEF Init, IsTree, IsDir, Parent
<1>3. OpenedAreFiles /\ WrittenAreFiles /\ FromOne /\ LeakedAreFiles /\ MovesIfItCan
  BY DEF Init, OpenedAreFiles, WrittenAreFiles, FromOne, LeakedAreFiles, MovesIfItCan, NoOne
<1> QED BY <1>1, <1>2, <1>3 DEF TreeInv

LEMMA NextIs ==
    ASSUME TreeInv, [Next]_vars
    PROVE  \/ Boot \/ BootFails \/ Deliver \/ Receive \/ UNCHANGED vars
           \/ \E c \in Client, m \in Message : Rpc(c, m)
           \/ \E id \in DOMAIN handler : HandlerStep(id)
<1>1. ASSUME NEW c \in Client, OnHandle(c) PROVE \E m \in Message : Rpc(c, m)
  <2>1. PICK h \in known, op \in FileOp \union {"dir_close"} : Rpc(c, [op |-> op, handle |-> h.id])
    BY <1>1 DEF OnHandle
  <2>2. h.id \in Nat
    BY DEF TreeInv, IInv, Handles
  <2>3. [op |-> op, handle |-> h.id] \in Message
    BY <2>2 DEF Message
  <2> QED BY <2>1, <2>3
<1>2. Request \subseteq Message
  BY OpfsAssumption DEF Message
<1> QED BY <1>1, <1>2 DEF Next

LEMMA TreeKept ==
    ASSUME TreeInv, [Next]_vars
    PROVE  TreeInv'
<1>1. IInv'
  BY NextKeeps DEF TreeInv
<1>2. ASSUME NEW id \in DOMAIN handler, HandlerStep(id)
      PROVE  /\ IsTree' /\ OpenedAreFiles' /\ WrittenAreFiles' /\ FromOne'
             /\ LeakedAreFiles' /\ MovesIfItCan'
  BY <1>2, HandlerKeepsTree, HandlerKeepsWritten, HandlerCountsOn, HandlerLeaks, HandlerFallsBack
<1>3. CASE \/ Boot \/ BootFails \/ Deliver \/ Receive \/ UNCHANGED vars
           \/ \E c \in Client, m \in Message : Rpc(c, m)
  BY <1>1, <1>3, OthersKeepTree, OthersKeepWritten, OthersKeepTheRest DEF TreeInv
<1> QED BY <1>1, <1>2, <1>3, NextIs DEF TreeInv

LEMMA AlwaysATree == Spec => []TreeInv
BY TreeBegins, TreeKept, PTL DEF Spec

\* However the steps of the backend's handlers interleave at their awaits, OPFS stays a
\* tree, and what has an access handle (openFile, fileClose) is a file in it.
THEOREM OpfsStaysATree == Spec => []TypeInvariant
<1> SUFFICES ASSUME TreeInv PROVE TypeInvariant
  BY AlwaysATree, PTL
<1>1. DOMAIN entries \subseteq 1..nextId - 1
  BY DEF TreeInv, IInv, Frames, Handles, FromOne
<1>2. DOMAIN pending \subseteq 1..nextRequest - 1
  BY DEF TreeInv, IInv, Frames, FromOne
<1>3. \A k \in DOMAIN replies : replies[k].answer \in Errno \union {"ok"}
  <2>1. \A k \in DOMAIN replies : replies[k] \in Reply
    BY Element DEF TreeInv, IInv, Frames
  <2> QED BY <2>1 DEF Reply
<1>4. \A i \in DOMAIN handler : handler[i].message \in PathMessage
  BY DEF TreeInv, IInv, Frames, IsStep
<1>5. \A c \in Client : asked[c] \in Message \union {Nothing}
  BY DEF TreeInv, IInv, Frames
<1> QED BY <1>1, <1>2, <1>3, <1>4, <1>5 DEF TreeInv, IsTree, OpenedAreFiles, LeakedAreFiles, TypeInvariant

-----------------------------------------------------------------------------
(* Nothing is lost but what somebody asked to lose.                          *)

Lost(p) == files[p] /\ ~(p \in DOMAIN files' /\ files'[p])

\* What costs a file its bytes: a call that asks for it, and the two that do not.
Costs(m, p) == Asks(m, p) \/ RmdirFindsAFile(m, p) \/ RenamedOntoItself(m, p)

LostAsAsked(p) ==
    \/ \E i \in DOMAIN handler : handler[i].at = "copy" /\ handler[i].message.to = p
    \/ \E r \in Range(replies') :
         replies' = Append(replies, r) /\ r.answer = "ok" /\ Costs(r.message, p)

LEMMA AnsweredOk ==
    ASSUME TreeInv, NEW i \in Nat, NEW m \in Message, NEW h \in Nat, Posts(i, m, "ok", h), NEW p, Costs(m, p)
    PROVE  LostAsAsked(p)
<1> DEFINE r == [id |-> i, message |-> m, answer |-> "ok", handle |-> h]
<1>1. replies' = Append(replies, r)
  BY DEF Posts
<1>2. r \in Reply /\ replies \in Seq(Reply)
  BY DEF Reply, TreeInv, IInv, Frames
<1>3. r.answer = "ok" /\ r.message = m
  OBVIOUS
<1> HIDE DEF r
<1>4. Append(replies, r)[Len(replies) + 1] = r /\ Len(replies) + 1 \in DOMAIN Append(replies, r)
  BY <1>2
<1>5. r \in Range(replies')
  BY <1>1, <1>4 DEF Range
<1> QED BY <1>1, <1>3, <1>5 DEF LostAsAsked

LEMMA HandlerLoses ==
    ASSUME TreeInv, NEW id \in DOMAIN handler, HandlerStep(id),
           NEW p \in DOMAIN files, Lost(p)
    PROVE  LostAsAsked(p)
<1> PICK m : m = handler[id].message
  OBVIOUS
<1>1. /\ m \in Message /\ m.path \in Path /\ m.to \in Path /\ id \in Nat
      /\ p \in Path /\ PathOf(id) = m.path /\ ToOf(id) = m.to
  <2>1. m \in PathMessage /\ id \in DOMAIN pending
    BY DEF TreeInv, IInv, Frames, IsStep, InOnePlace
  <2> QED BY <2>1 DEF Message, PathMessage, PathOf, ToOf, TreeInv, IInv, Frames, IsTree
<1>2. ASSUME files' = files PROVE FALSE
  BY <1>2 DEF Lost
<1>3. ASSUME NEW h \in Nat, Answers(id, "ok", h), Costs(m, p) PROVE LostAsAsked(p)
  BY <1>1, <1>3, AnsweredOk DEF Answers
<1>4. ASSUME NEW q, NEW b, Changes(WithFile(q, b)) PROVE p = q /\ ~b
  <2>1. files' = With(files, q, b)
    BY <1>4, Zenon DEF Changes, WithFile
  <2> QED BY <2>1 DEF With, Lost
<1>5. ASSUME NEW at, Looks(id, at) PROVE FALSE
  BY <1>2, <1>5 DEF Looks, opfs
<1>6. ASSUME NEW errno, Throws(id, errno) PROVE FALSE
  BY <1>2, <1>6 DEF Throws, opfs
<1>7. CASE Navigate(id) \/ RenameNavigate(id)
  BY <1>5, <1>6, <1>7 DEF Navigate, RenameNavigate, Navigates
<1>8. CASE OpenDir(id)
  BY <1>2, <1>6, <1>8 DEF OpenDir, opfs
<1>9. CASE OpenPrecheck(id)
  BY <1>5, <1>6, <1>9 DEF OpenPrecheck
<1>10. CASE OpenCreate(id)
  <2>1. ASSUME Changes(WithFile(m.path, Kept(id, "create"))) PROVE FALSE
    <3>1. p = m.path /\ ~Kept(id, "create")
      BY <1>4, <2>1
    <3> QED BY <1>1, <3>1 DEF Kept, Lost
  <2>2. ASSUME ~Exists(m.path), Changes(WithFile(m.path, FALSE)) PROVE FALSE
    <3>1. p = m.path
      BY <1>4, <2>2
    <3> QED BY <2>2, <3>1 DEF Exists, IsFile
  <2> QED BY <1>1, <1>6, <1>10, <2>1, <2>2 DEF OpenCreate
<1>11. CASE OpenLock(id)
  <2>0. files' # files
    BY <1>2
  <2>1. /\ files' = [files EXCEPT ![m.path] = Kept(id, "lock")] /\ m.op = "open"
        /\ Answers(id, "ok", nextId) /\ nextId \in Nat
    BY <1>1, <1>11, <2>0 DEF OpenLock, At, Registers, FreshId, TreeInv, IInv, Frames
  <2>2. p = m.path /\ ~Kept(id, "lock")
    BY <2>1 DEF Lost
  <2>3. m.truncate
    BY <1>1, <2>2 DEF Kept, Lost
  <2> QED BY <1>3, <2>1, <2>2, <2>3 DEF Asks, Costs
<1>12. CASE MkdirFind(id) \/ FindToRemove(id) \/ RmdirEmpty(id) \/ RenameFind(id)
  BY <1>5, <1>6, <1>12 DEF MkdirFind, FindToRemove, RmdirEmpty, RenameFind
<1>13. CASE MkdirMake(id)
  BY <1>2, <1>13 DEF MkdirMake, Changes
<1>14. CASE RemoveEntry(id)
  <2>1. files' = Without(files, {m.path}) /\ Answers(id, "ok", 0)
    BY <1>1, <1>14, Zenon DEF RemoveEntry, Changes, WithoutEntry
  <2>2. p = m.path
    BY <2>1 DEF Without, Lost
  <2>3. \/ m.op \in {"unlink", "rmdir"}
        \/ m.op = "rename" /\ handler[id].at = "copied"
    BY <1>14 DEF RemoveEntry, At
  <2>4. CASE m.op \in {"unlink", "rmdir"}
    <3>1. Costs(m, p)
      BY <2>2, <2>4, SMT DEF Costs, Asks, RmdirFindsAFile
    <3> QED BY <1>3, <2>1, <3>1
  <2>5. CASE m.op = "rename" /\ handler[id].at = "copied"
    <3>1. IsPrefix(p, p)
      BY <1>1, BelowIsChild
    <3>2. ~canMove
      BY <2>5 DEF TreeInv, MovesIfItCan, Fallback
    <3>3. Costs(m, p)
      BY <2>2, <2>5, <3>1, <3>2 DEF Costs, Asks, RenamedOntoItself
    <3> QED BY <1>3, <2>1, <3>3
  <2> QED BY <2>3, <2>4, <2>5
<1>15. CASE RenameMove(id)
  <2> PICK q : q = m.to
    OBVIOUS
  <2>1. Moves(m.path, q) /\ Movable(m.path, q) /\ Answers(id, "ok", 0) /\ m.op = "rename"
    BY <1>1, <1>15, MoveMoves DEF RenameMove, At
  <2>4. m.path # m.to
    <3>1. IsPrefix(m.path, m.path)
      BY <1>1, BelowIsChild
    <3> QED BY <2>1, <3>1 DEF Movable
  <2>2. CASE p \in Gone(m.path)
    <3>1. IsPrefix(m.path, p)
      BY <1>1, <2>2, BelowIsChild DEF Gone, Inside, IsStrictPrefix
    <3> QED BY <1>3, <2>1, <2>4, <3>1 DEF Asks, Costs
  <2>3. CASE p \notin Gone(m.path)
    <3>1. p \in DOMAIN files' /\ p \in Came(m.path, q, DOMAIN files)
      BY <2>1, <2>3 DEF Moves, Lost
    <3>2. PICK r \in Gone(m.path) \intersect DOMAIN files : p = Moved(m.path, q, r)
      BY <3>1, Zenon DEF Came
    <3>3. p = q \/ Parent(p) = q
      BY <1>1, <2>1, <3>2, GoesAlong
    <3>4. p = q
      <4>1. IsDir(Parent(p)) /\ ~IsDir(q)
        BY <2>1 DEF TreeInv, IsTree, Movable
      <4> QED BY <3>3, <4>1
    <3> QED BY <1>3, <2>1, <2>4, <3>4 DEF Asks, Costs
  <2> QED BY <2>2, <2>3
<1>16. CASE RenameSource(id) \/ RenameWritable(id)
  BY <1>5, <1>16 DEF RenameSource, RenameWritable
<1>17. CASE RenameTarget(id)
  <2>1. p = m.to /\ ~(IsFile(m.to) /\ files[m.to])
    BY <1>1, <1>4, <1>17 DEF RenameTarget
  <2> QED BY <2>1 DEF IsFile, Lost
<1>18. CASE RenameCopy(id)
  <2>1. p = m.to /\ handler[id].at = "copy"
    BY <1>1, <1>4, <1>18 DEF RenameCopy, At
  <2> QED BY <2>1 DEF LostAsAsked
<1>19. CASE IoFails(id)
  BY <1>6, <1>19 DEF IoFails
<1> QED BY <1>7, <1>8, <1>9, <1>10, <1>11, <1>12, <1>13, <1>14, <1>15, <1>16, <1>17, <1>18, <1>19
        DEF HandlerStep

LEMMA OthersLose ==
    ASSUME TreeInv, \/ Boot \/ BootFails \/ Deliver \/ Receive \/ UNCHANGED vars
                    \/ \E c \in Client, m \in Message : Rpc(c, m),
           NEW p \in DOMAIN files, Lost(p)
    PROVE  LostAsAsked(p)
<1>1. files' # files
  BY DEF Lost
<1>2. PICK r : r = Head(wire) /\ wire # << >> /\ FileCall(r.id, r.message)
  BY <1>1 DEF Boot, BootFails, Deliver, Receive, Rpc, vars, opfs
<1>3. r.id \in Nat /\ r.message \in Message
  <2>1. wire \in Seq(Post)
    BY DEF TreeInv, IInv, Frames
  <2>2. r \in Post
    BY <1>2, <2>1
  <2> QED BY <2>2 DEF Post
<1>4. /\ files' = [files EXCEPT ![entries[r.message.handle].path] = r.message.op = "file_write"]
      /\ Posts(r.id, r.message, "ok", 0) /\ r.message.op \in {"file_write", "file_truncate"}
  BY <1>1, <1>2 DEF FileCall
<1>5. p = entries[r.message.handle].path /\ r.message.op # "file_write"
  BY <1>4 DEF Lost
<1>6. Costs(r.message, p)
  BY <1>4, <1>5 DEF Asks, Costs
<1> QED BY <1>3, <1>4, <1>6, AnsweredOk

\* Whatever the guests ask for and however their handlers interleave, the bytes of a file
\* go only in the step that answers who asked for it, or under a rename's copy: but for a
\* rmdir that removes a file by the name of the directory it looked at, and a file copied
\* onto itself and removed, a handler of the backend that acts an await later on what it
\* saw costs nobody else's bytes.
THEOREM BytesAreKept == Spec => BytesGoOnlyAsAsked
<1>1. ASSUME TreeInv, [Next]_vars
      PROVE  \A p \in DOMAIN files :
                files[p] /\ ~(p \in DOMAIN files' /\ files'[p]) =>
                   \/ \E i \in DOMAIN handler : handler[i].at = "copy" /\ handler[i].message.to = p
                   \/ \E r \in Range(replies') :
                        /\ replies' = Append(replies, r) /\ r.answer = "ok"
                        /\ \/ Asks(r.message, p)
                           \/ RmdirFindsAFile(r.message, p) \/ RenamedOntoItself(r.message, p)
  <2> SUFFICES ASSUME NEW p \in DOMAIN files, Lost(p) PROVE LostAsAsked(p)
    BY DEF Lost, LostAsAsked, Costs
  <2> QED BY <1>1, NextIs, HandlerLoses, OthersLose
<1> QED BY <1>1, AlwaysATree, PTL DEF Spec, BytesGoOnlyAsAsked
=============================================================================
