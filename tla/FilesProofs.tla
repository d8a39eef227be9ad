---------------------------- MODULE FilesProofs ----------------------------
(* Theorems about Files, for any processes, files and bounds.  A process's   *)
(* descriptor leads to the entry of its own slot, and those entries that own *)
(* their handle own different ones.                                          *)
EXTENDS Files, SequenceTheorems, TLAPS

USE DEF FirstAllocFd

\* A descriptor leads to the entry made for it and is below those to come.
OwnSlots ==
    \A p \in Proc : \A fd \in DOMAIN fds[p] : fds[p][fd] = <<p, fd>> /\ fd < nextFd[p]

Owns(p, fd) == fd \in DOMAIN fds[p] /\ entry[<<p, fd>>].owned

\* No handle has two owners, and one that has an owner is open.
OneOwner ==
    /\ \A p, q \in Proc : \A f \in DOMAIN fds[p], g \in DOMAIN fds[q] :
          Owns(p, f) /\ Owns(q, g) /\ entry[<<p, f>>].handle = entry[<<q, g>>].handle
              => p = q /\ f = g
    /\ \A p \in Proc : \A f \in DOMAIN fds[p] :
          Owns(p, f) => handle[entry[<<p, f>>].handle].closes = 0
    /\ \A h \in DOMAIN handle : handle[h].closes <= 1

IInv == TypeInvariant /\ OwnSlots /\ OneOwner

\* Before anything is opened.
LEMMA Begins == Init => IInv
<1> SUFFICES ASSUME Init PROVE IInv
  OBVIOUS
<1>1. \A p \in Proc : DOMAIN fds[p] = {}
  BY DEF Init, NoFds
<1>2. DOMAIN entry = {} /\ handle = << >>
  BY DEF Init, NoEntries
<1>3. TypeInvariant
  BY <1>1, <1>2, FilesAssumption DEF Init, TypeInvariant
<1>4. OwnSlots /\ OneOwner
  BY <1>1, <1>2 DEF OwnSlots, OneOwner, Owns
<1> QED
  BY <1>3, <1>4 DEF IInv

\* The type invariant of the next state, part by part.
LEMMA TypesNext ==
    ASSUME phase' \in [Proc -> {"unborn", "running", "gone"}],
           nextFd' \in [Proc -> Nat],
           DOMAIN entry' \subseteq Proc \X Nat,
           \A s \in DOMAIN entry' : entry'[s] \in FdEntry',
           handle' \in Seq(FileHandle),
           content' \in [File -> Seq(Byte \union {0})],
           DOMAIN fds' = Proc,
           \A p \in Proc : /\ \A fd \in DOMAIN fds'[p] : fd \in Nat /\ fds'[p][fd] \in DOMAIN entry'
                           /\ phase'[p] # "running" => DOMAIN fds'[p] = {}
    PROVE  TypeInvariant'
BY DEF TypeInvariant

-----------------------------------------------------------------------------
(* Bytes.                                                                    *)

LEMMA ResizedIsBytes ==
    ASSUME NEW s \in Seq(Byte \union {0}), NEW n \in Nat
    PROVE  Resized(s, n) \in Seq(Byte \union {0})
BY DEF Resized

LEMMA PutIsBytes ==
    ASSUME NEW s \in Seq(Byte \union {0}), NEW at \in Nat, NEW b \in Byte
    PROVE  Put(s, at, b) \in Seq(Byte \union {0})
<1> DEFINE n == IF Len(s) > at THEN Len(s) ELSE at + 1
<1>1. n \in Nat /\ at + 1 \in 1..n
  OBVIOUS
<1>2. Resized(s, n) = [i \in 1..n |-> IF i <= Len(s) THEN s[i] ELSE 0]
  BY DEF Resized
<1>3. [Resized(s, n) EXCEPT ![at + 1] = b] \in [1..n -> Byte \union {0}]
  BY <1>1, <1>2
<1>4. Put(s, at, b) = [Resized(s, n) EXCEPT ![at + 1] = b]
  BY DEF Put
<1> HIDE DEF n
<1>5. \A f : f \in [1..n -> Byte \union {0}] => f \in Seq(Byte \union {0})
  BY <1>1, SeqDef
<1> QED
  BY <1>1, <1>3, <1>4, <1>5

-----------------------------------------------------------------------------
(* What the actions do to tables and objects.                                *)

\* A call that at most moves positions and changes bytes.
LEMMA CallKeeps ==
    ASSUME IInv,
           UNCHANGED <<phase, fds, nextFd, handle>>,
           content' \in [File -> Seq(Byte \union {0})],
           DOMAIN entry' = DOMAIN entry,
           \A s \in DOMAIN entry :
              entry'[s] \in FdEntry /\ entry'[s].handle = entry[s].handle
                                   /\ entry'[s].owned = entry[s].owned
    PROVE  IInv'
<1>1. TypeInvariant'
  BY DEF IInv, TypeInvariant, FdEntry, FileHandle
<1>2. OwnSlots'
  BY DEF IInv, OwnSlots
<1>3. \A p \in Proc : \A f \in DOMAIN fds[p] :
         <<p, f>> \in DOMAIN entry
  BY DEF IInv, TypeInvariant, OwnSlots
<1>4. OneOwner'
  BY <1>3 DEF IInv, OneOwner, Owns
<1> QED
  BY <1>1, <1>2, <1>4 DEF IInv

\* A position moved to a natural number leaves an entry an entry.
LEMMA MovesPosition ==
    ASSUME IInv, NEW p \in Proc, NEW fd \in DOMAIN fds[p], NEW to \in Nat,
           entry' = [entry EXCEPT ![fds[p][fd]].position = to]
    PROVE  /\ DOMAIN entry' = DOMAIN entry
           /\ \A s \in DOMAIN entry :
                 /\ entry'[s] \in [handle : 1..Len(handle), position : Nat, owned : BOOLEAN]
                 /\ entry'[s].handle = entry[s].handle
                 /\ entry'[s].owned = entry[s].owned
BY DEF IInv, TypeInvariant, FdEntry

-----------------------------------------------------------------------------
(* One lemma per action.                                                     *)

\* A descriptor's entry, its file and what the file holds.
LEMMA EntryTypes ==
    ASSUME IInv, NEW p \in Proc, NEW fd \in DOMAIN fds[p]
    PROVE  /\ Entry(p, fd) \in FdEntry
           /\ Entry(p, fd).handle \in DOMAIN handle
           /\ FileOf(p, fd) \in File
           /\ content[FileOf(p, fd)] \in Seq(Byte \union {0})
<1>1. Entry(p, fd) \in FdEntry
  BY DEF IInv, TypeInvariant, Entry
<1>2. Entry(p, fd).handle \in 1..Len(handle) /\ DOMAIN handle = 1..Len(handle)
  BY <1>1 DEF IInv, TypeInvariant, FdEntry
<1>3. handle[Entry(p, fd).handle] \in FileHandle
  BY <1>2 DEF IInv, TypeInvariant
<1>4. FileOf(p, fd) \in File
  BY <1>3 DEF FileOf, FileHandle
<1>5. content[FileOf(p, fd)] \in Seq(Byte \union {0})
  BY <1>4 DEF IInv, TypeInvariant
<1> QED
  BY <1>1, <1>2, <1>4, <1>5

LEMMA FdReadKeeps ==
    ASSUME IInv, NEW p \in Proc, NEW fd \in DOMAIN fds[p], FdRead(p, fd)
    PROVE  IInv'
<1>1. PICK n \in 1..MaxSize : Advance(p, fd, ReadCount(p, fd, n))
  BY DEF FdRead
<1>2. ReadCount(p, fd, n) \in Nat
  BY EntryTypes, FilesAssumption DEF ReadCount, FdEntry
<1> DEFINE to == Entry(p, fd).position + ReadCount(p, fd, n)
<1>3. to \in Nat
  BY <1>2, EntryTypes DEF FdEntry
<1>4. entry' = [entry EXCEPT ![fds[p][fd]].position = to]
  BY <1>1 DEF Advance, Entry
<1> HIDE DEF to
<1>5. UNCHANGED <<phase, fds, nextFd, handle, content>>
  BY DEF FdRead
<1>6. content' \in [File -> Seq(Byte \union {0})]
  BY <1>5 DEF IInv, TypeInvariant
<1> QED
  BY <1>3, <1>4, <1>5, <1>6, MovesPosition, CallKeeps DEF FdEntry

LEMMA FdWriteKeeps ==
    ASSUME IInv, NEW p \in Proc, NEW fd \in DOMAIN fds[p], NEW b \in Byte, FdWrite(p, fd, b)
    PROVE  IInv'
<1> DEFINE at == Entry(p, fd).position
<1>1. at \in Nat /\ at + 1 \in Nat
  BY EntryTypes DEF FdEntry
<1>2. entry' = [entry EXCEPT ![fds[p][fd]].position = at + 1]
  BY DEF FdWrite, Advance, Entry
<1>3. content' = [content EXCEPT ![FileOf(p, fd)] = Put(content[FileOf(p, fd)], at, b)]
  BY DEF FdWrite
<1> HIDE DEF at
<1>4. content' \in [File -> Seq(Byte \union {0})]
  BY <1>1, <1>3, EntryTypes, PutIsBytes DEF IInv, TypeInvariant
<1>5. UNCHANGED <<phase, fds, nextFd, handle>>
  BY DEF FdWrite
<1> QED
  BY <1>1, <1>2, <1>4, <1>5, MovesPosition, CallKeeps DEF FdEntry

\* pwrite and filestat_set_size touch only the bytes.
LEMMA BytesKeep ==
    ASSUME IInv, NEW f \in File, NEW bytes \in Seq(Byte \union {0}),
           content' = [content EXCEPT ![f] = bytes],
           UNCHANGED <<phase, fds, nextFd, entry, handle>>
    PROVE  IInv'
<1>1. content' \in [File -> Seq(Byte \union {0})]
  BY DEF IInv, TypeInvariant
<1>2. \A s \in DOMAIN entry : entry'[s] \in FdEntry
  BY DEF IInv, TypeInvariant
<1> QED
  BY <1>1, <1>2, CallKeeps

LEMMA FdPwriteKeeps ==
    ASSUME IInv, NEW p \in Proc, NEW fd \in DOMAIN fds[p], NEW b \in Byte,
           NEW at \in 0..MaxSize - 1, FdPwrite(p, fd, b, at)
    PROVE  IInv'
<1> at \in Nat
  BY FilesAssumption
<1>1. Put(content[FileOf(p, fd)], at, b) \in Seq(Byte \union {0})
  BY EntryTypes, PutIsBytes
<1>2. content' = [content EXCEPT ![FileOf(p, fd)] = Put(content[FileOf(p, fd)], at, b)]
  BY DEF FdPwrite
<1> QED
  BY <1>1, <1>2, EntryTypes, BytesKeep DEF FdPwrite

LEMMA SetSizeKeeps ==
    ASSUME IInv, NEW p \in Proc, NEW fd \in DOMAIN fds[p], NEW n \in 0..MaxSize, SetSize(p, fd, n)
    PROVE  IInv'
<1> n \in Nat
  BY FilesAssumption
<1>1. Resized(content[FileOf(p, fd)], n) \in Seq(Byte \union {0})
  BY EntryTypes, ResizedIsBytes
<1>2. content' = [content EXCEPT ![FileOf(p, fd)] = Resized(content[FileOf(p, fd)], n)]
  BY DEF SetSize
<1> QED
  BY <1>1, <1>2, EntryTypes, BytesKeep DEF SetSize

LEMMA FdSeekKeeps ==
    ASSUME IInv, NEW p \in Proc, NEW fd \in DOMAIN fds[p],
           NEW offset \in -MaxSize..MaxSize, NEW base \in {"set", "cur", "end"},
           FdSeek(p, fd, offset, base)
    PROVE  IInv'
<1> DEFINE from == CASE base = "set" -> 0
                     [] base = "cur" -> Entry(p, fd).position
                     [] base = "end" -> Len(content[FileOf(p, fd)])
<1>1. from \in Nat
  BY EntryTypes DEF FdEntry
<1>2. SeeksTo(from + offset) /\ entry' = [entry EXCEPT ![fds[p][fd]].position = from + offset]
  BY DEF FdSeek
<1>3. from + offset \in Nat
  BY <1>1, <1>2, FilesAssumption DEF SeeksTo
<1> HIDE DEF from
<1>4. UNCHANGED <<phase, fds, nextFd, handle, content>>
  BY DEF FdSeek
<1>5. content' \in [File -> Seq(Byte \union {0})]
  BY <1>4 DEF IInv, TypeInvariant
<1> QED
  BY <1>2, <1>3, <1>4, <1>5, MovesPosition, CallKeeps DEF FdEntry

\* No process gets a descriptor and those it keeps stay what they are.
Fewer(p) ==
    /\ UNCHANGED <<nextFd, entry, content>>
    /\ DOMAIN fds' = Proc
    /\ \A q \in Proc : DOMAIN fds'[q] \subseteq DOMAIN fds[q]
    /\ \A q \in Proc : \A g \in DOMAIN fds'[q] : fds'[q][g] = fds[q][g]
    /\ phase' \in [Proc -> {"unborn", "running", "gone"}]
    /\ \A q \in Proc : phase'[q] # "running" => phase[q] # "running" \/ DOMAIN fds'[q] = {}

\* The handles are as many as before and still handles.
SameHandles ==
    handle' \in Seq(FileHandle) /\ Len(handle') = Len(handle)

LEMMA FewerKeepsTypes ==
    ASSUME IInv, NEW p \in Proc, Fewer(p), SameHandles
    PROVE  TypeInvariant' /\ OwnSlots'
<1>1. \A s \in DOMAIN entry' : entry'[s] \in FdEntry'
  BY DEF IInv, TypeInvariant, FdEntry, Fewer, SameHandles
<1>2. \A q \in Proc : \A g \in DOMAIN fds'[q] : g \in Nat /\ fds'[q][g] \in DOMAIN entry'
  BY DEF IInv, TypeInvariant, Fewer
<1>3. \A q \in Proc : phase'[q] # "running" => DOMAIN fds'[q] = {}
  BY DEF IInv, TypeInvariant, Fewer
<1>4. TypeInvariant'
  BY <1>1, <1>2, <1>3 DEF IInv, TypeInvariant, Fewer, SameHandles, FileHandle
<1>5. OwnSlots'
  BY DEF IInv, OwnSlots, Fewer
<1> QED
  BY <1>4, <1>5

\* close: only the owner's close reaches the handle, and there is no other owner.
LEMMA FdCloseKeeps ==
    ASSUME IInv, NEW p \in Proc, NEW fd \in DOMAIN fds[p], FdClose(p, fd)
    PROVE  IInv'
<1> DEFINE e == Entry(p, fd)
           h == e.handle
<1>1. fds' = [fds EXCEPT ![p] = [f \in DOMAIN fds[p] \ {fd} |-> fds[p][f]]]
  BY DEF FdClose, Forgets
<1>2. UNCHANGED <<phase, nextFd, entry, content>>
  BY DEF FdClose
<1>3. DOMAIN fds = Proc
  BY DEF IInv, TypeInvariant
<1>4. /\ DOMAIN fds'[p] = DOMAIN fds[p] \ {fd}
      /\ \A g \in DOMAIN fds'[p] : fds'[p][g] = fds[p][g]
      /\ \A q \in Proc : q # p => fds'[q] = fds[q]
      /\ DOMAIN fds' = Proc
  BY <1>1, <1>3
<1>5. Fewer(p)
  BY <1>2, <1>4 DEF Fewer, IInv, TypeInvariant
<1>6. e = entry[<<p, fd>>] /\ e \in FdEntry /\ h \in DOMAIN handle
  BY EntryTypes DEF Entry, IInv, OwnSlots
<1>7. handle \in Seq(FileHandle) /\ handle[h] \in FileHandle
  BY <1>6 DEF IInv, TypeInvariant
<1>8. /\ SameHandles
      /\ DOMAIN handle' = DOMAIN handle
      /\ \A k \in DOMAIN handle :
            handle'[k].closes = IF k = h /\ e.owned THEN handle[k].closes + 1 ELSE handle[k].closes
  <2>1. CASE e.owned
    <3>1. handle' = [handle EXCEPT ![h].closes = @ + 1]
      BY <2>1 DEF FdClose, ClosesHandle, Closes
    <3>2. [handle[h] EXCEPT !.closes = @ + 1] \in FileHandle
      BY <1>7 DEF FileHandle
    <3>3. handle' = [handle EXCEPT ![h] = [handle[h] EXCEPT !.closes = handle[h].closes + 1]]
      BY <3>1
    <3> HIDE DEF e, h
    <3>4. handle' \in Seq(FileHandle) /\ Len(handle') = Len(handle) /\ DOMAIN handle' = DOMAIN handle
      BY <1>6, <1>7, <3>2, <3>3
    <3>5. \A k \in DOMAIN handle : k # h => handle'[k] = handle[k]
      BY <3>3
    <3>6. handle'[h].closes = handle[h].closes + 1
      BY <1>6, <1>7, <3>3 DEF FileHandle
    <3> QED
      BY <2>1, <3>4, <3>5, <3>6 DEF SameHandles
  <2>2. CASE ~e.owned
    BY <1>7, <2>2 DEF FdClose, ClosesHandle, SameHandles
  <2> QED
    BY <2>1, <2>2
<1> HIDE DEF e, h
<1>9. \A q \in Proc : \A g \in DOMAIN fds'[q] :
         g \in DOMAIN fds[q] /\ (Owns(q, g)' => Owns(q, g)) /\ (q # p \/ g # fd)
  BY <1>4, <1>5 DEF Owns, Fewer
<1>10. \A q \in Proc : \A g \in DOMAIN fds'[q] :
         Owns(q, g)' => handle'[entry'[<<q, g>>].handle].closes = 0
  <2> SUFFICES ASSUME NEW q \in Proc, NEW g \in DOMAIN fds'[q], Owns(q, g)'
               PROVE  handle'[entry[<<q, g>>].handle].closes = 0
    BY <1>2
  <2> DEFINE k == entry[<<q, g>>].handle
  <2>1. g \in DOMAIN fds[q] /\ Owns(q, g) /\ (q # p \/ g # fd)
    BY <1>9
  <2>2. k \in DOMAIN handle
    BY <2>1, EntryTypes DEF Entry, IInv, OwnSlots
  <2>3. handle[k].closes = 0
    BY <2>1 DEF IInv, OneOwner
  <2>4. e.owned => k # h
    BY <1>6, <2>1 DEF IInv, OneOwner, Owns, h
  <2> QED
    BY <1>8, <2>2, <2>3, <2>4
<1>11. \A k \in DOMAIN handle' : handle'[k].closes <= 1
  <2>1. e.owned => handle[h].closes = 0
    BY <1>6 DEF IInv, OneOwner, Owns, h
  <2>2. \A k \in DOMAIN handle : handle[k] \in FileHandle
    BY <1>7
  <2>3. \A k \in DOMAIN handle : handle[k].closes \in Nat
    BY <2>2 DEF FileHandle
  <2> QED
    BY <1>8, <2>1, <2>3 DEF IInv, OneOwner
<1>12. OneOwner'
  <2>1. \A q, r \in Proc : \A f \in DOMAIN fds'[q], g \in DOMAIN fds'[r] :
           Owns(q, f)' /\ Owns(r, g)' /\ entry'[<<q, f>>].handle = entry'[<<r, g>>].handle
              => q = r /\ f = g
    BY <1>2, <1>9 DEF IInv, OneOwner
  <2> QED
    BY <1>10, <1>11, <2>1 DEF OneOwner
<1> QED
  BY <1>5, <1>8, <1>12, FewerKeepsTypes DEF IInv

\* The end of a process only makes descriptors fewer.
LEMMA ExitKeeps ==
    ASSUME IInv, NEW p \in Proc, Exit(p)
    PROVE  IInv'
<1>1. fds' = [fds EXCEPT ![p] = NoFds] /\ phase' = [phase EXCEPT ![p] = "gone"]
  BY DEF Exit
<1>2. UNCHANGED <<nextFd, entry, handle, content>>
  BY DEF Exit
<1>3. DOMAIN fds = Proc /\ DOMAIN NoFds = {}
  BY DEF IInv, TypeInvariant, NoFds
<1>4. /\ DOMAIN fds'[p] = {}
      /\ \A q \in Proc : q # p => fds'[q] = fds[q]
      /\ DOMAIN fds' = Proc
  BY <1>1, <1>3
<1>5. phase' \in [Proc -> {"unborn", "running", "gone"}] /\ \A q \in Proc : q # p => phase'[q] = phase[q]
  BY <1>1 DEF IInv, TypeInvariant
<1>6. Fewer(p)
  BY <1>2, <1>4, <1>5 DEF Fewer
<1>7. SameHandles
  BY <1>2 DEF SameHandles, IInv, TypeInvariant
<1>8. \A q \in Proc : \A g \in DOMAIN fds'[q] : g \in DOMAIN fds[q] /\ (Owns(q, g)' => Owns(q, g))
  BY <1>2, <1>6 DEF Fewer, Owns
<1>9. OneOwner'
  BY <1>2, <1>8 DEF IInv, OneOwner
<1> QED
  BY <1>6, <1>7, <1>9, FewerKeepsTypes DEF IInv

\* open: a new descriptor, a new entry and a new handle.
LEMMA PathOpenKeeps ==
    ASSUME IInv, NEW p \in Proc, NEW f \in File, NEW flags \in Flags, PathOpen(p, f, flags)
    PROVE  IInv'
<1> DEFINE fd == nextFd[p]
           h  == Len(handle) + 1
           e  == [handle |-> h, position |-> 0, owned |-> TRUE]
<1>1. /\ handle' = Append(handle, [file |-> f, flags |-> flags, closes |-> 0])
      /\ content' = [content EXCEPT ![f] = IF flags.truncate /\ flags.write THEN << >> ELSE @]
      /\ phase' = phase /\ phase[p] = "running"
      /\ entry' = Over([s \in {<<p, fd>>} |-> e], entry)
      /\ fds' = [fds EXCEPT ![p] = Over([g \in {fd} |-> <<p, g>>], fds[p])]
      /\ nextFd' = [nextFd EXCEPT ![p] = fd + 1]
  BY DEF PathOpen, Allocates, Calling
<1>2. /\ fd \in Nat /\ DOMAIN fds = Proc /\ handle \in Seq(FileHandle)
      /\ nextFd \in [Proc -> Nat] /\ content \in [File -> Seq(Byte \union {0})]
  BY DEF IInv, TypeInvariant
<1>3. /\ DOMAIN entry' = DOMAIN entry \union {<<p, fd>>}
      /\ entry'[<<p, fd>>] = e
      /\ \A s \in DOMAIN entry : s # <<p, fd>> => entry'[s] = entry[s]
  BY <1>1 DEF Over
<1>4. /\ DOMAIN fds' = Proc
      /\ \A q \in Proc : q # p => fds'[q] = fds[q]
      /\ DOMAIN fds'[p] = DOMAIN fds[p] \union {fd}
      /\ fds'[p][fd] = <<p, fd>>
      /\ \A g \in DOMAIN fds[p] : g # fd => fds'[p][g] = fds[p][g]
  BY <1>1, <1>2 DEF Over
<1>5. nextFd' \in [Proc -> Nat] /\ nextFd'[p] = fd + 1 /\ \A q \in Proc : q # p => nextFd'[q] = nextFd[q]
  BY <1>1, <1>2
<1>6. [file |-> f, flags |-> flags, closes |-> 0] \in FileHandle
  BY DEF FileHandle
<1>7. /\ handle' \in Seq(FileHandle) /\ Len(handle') = h
      /\ handle'[h] = [file |-> f, flags |-> flags, closes |-> 0]
      /\ \A k \in DOMAIN handle : handle'[k] = handle[k] /\ k \in 1..Len(handle)
  BY <1>1, <1>2, <1>6
<1>8. content' \in [File -> Seq(Byte \union {0})]
  BY <1>1, <1>2
<1>9. h \in 1..Len(handle') /\ 1..Len(handle) \subseteq 1..Len(handle')
  BY <1>2, <1>7
<1>10. \A s \in DOMAIN entry' : entry'[s] \in [handle : 1..Len(handle'), position : Nat, owned : BOOLEAN]
  <2>1. e \in [handle : 1..Len(handle'), position : Nat, owned : BOOLEAN]
    BY <1>9
  <2> HIDE DEF e, h
  <2> QED
    BY <1>3, <1>9, <2>1 DEF IInv, TypeInvariant, FdEntry
<1> HIDE DEF e, h, fd
<1>11. DOMAIN entry' \subseteq Proc \X Nat
  BY <1>2, <1>3 DEF IInv, TypeInvariant
<1>12. \A q \in Proc : /\ \A g \in DOMAIN fds'[q] : g \in Nat /\ fds'[q][g] \in DOMAIN entry'
                       /\ phase'[q] # "running" => DOMAIN fds'[q] = {}
  BY <1>1, <1>2, <1>3, <1>4 DEF IInv, TypeInvariant
<1>13. TypeInvariant'
  <2>1. \A s \in DOMAIN entry' : entry'[s] \in FdEntry'
    BY <1>10 DEF FdEntry
  <2>2. phase' \in [Proc -> {"unborn", "running", "gone"}]
    BY <1>1 DEF IInv, TypeInvariant
  <2>3. handle' \in Seq(FileHandle)
    BY <1>7 DEF FileHandle
  <2>4. DOMAIN fds' = Proc /\ nextFd' \in [Proc -> Nat]
    BY <1>4, <1>5
  <2> QED
    BY <1>8, <1>11, <1>12, <2>1, <2>2, <2>3, <2>4, TypesNext
<1>14. \A g \in DOMAIN fds[p] : g \in Nat /\ g < fd
  BY DEF IInv, TypeInvariant, OwnSlots, fd
<1>15. OwnSlots'
  <2>1. \A g \in DOMAIN fds'[p] : fds'[p][g] = <<p, g>> /\ g < nextFd'[p]
    BY <1>2, <1>4, <1>5, <1>14 DEF IInv, OwnSlots
  <2>2. \A q \in Proc : q # p => \A g \in DOMAIN fds'[q] : fds'[q][g] = <<q, g>> /\ g < nextFd'[q]
    BY <1>4, <1>5 DEF IInv, OwnSlots
  <2> QED
    BY <2>1, <2>2 DEF OwnSlots
<1>16. \A q \in Proc : \A g \in DOMAIN fds'[q] :
          \/ q = p /\ g = fd
          \/ /\ g \in DOMAIN fds[q] /\ <<q, g>> \in DOMAIN entry
             /\ entry'[<<q, g>>] = entry[<<q, g>>] /\ entry[<<q, g>>].handle \in DOMAIN handle
             /\ Owns(q, g)' => Owns(q, g)
  <2> SUFFICES ASSUME NEW q \in Proc, NEW g \in DOMAIN fds'[q], q # p \/ g # fd
               PROVE  /\ g \in DOMAIN fds[q] /\ <<q, g>> \in DOMAIN entry
                      /\ entry'[<<q, g>>] = entry[<<q, g>>] /\ entry[<<q, g>>].handle \in DOMAIN handle
                      /\ Owns(q, g)' => Owns(q, g)
    OBVIOUS
  <2>1. g \in DOMAIN fds[q]
    BY <1>4
  <2>2. <<q, g>> \in DOMAIN entry /\ entry[<<q, g>>] = Entry(q, g)
    BY <2>1 DEF IInv, TypeInvariant, OwnSlots, Entry
  <2>3. entry'[<<q, g>>] = entry[<<q, g>>]
    BY <1>3, <2>2
  <2> QED
    BY <2>1, <2>2, <2>3, EntryTypes DEF Owns
<1>17. e.owned /\ e.handle = h /\ h \notin DOMAIN handle /\ handle'[h].closes = 0
  BY <1>2, <1>7 DEF e, h
<1>18. OneOwner'
  <2>1. \A q, r \in Proc : \A i \in DOMAIN fds'[q], j \in DOMAIN fds'[r] :
           Owns(q, i)' /\ Owns(r, j)' /\ entry'[<<q, i>>].handle = entry'[<<r, j>>].handle
              => q = r /\ i = j
    BY <1>3, <1>16, <1>17 DEF IInv, OneOwner
  <2>2. \A q \in Proc : \A i \in DOMAIN fds'[q] :
           Owns(q, i)' => handle'[entry'[<<q, i>>].handle].closes = 0
    BY <1>3, <1>7, <1>16, <1>17 DEF IInv, OneOwner
  <2>3. \A k \in DOMAIN handle' : k = h \/ k \in DOMAIN handle
    BY <1>2, <1>7 DEF h
  <2>4. \A k \in DOMAIN handle' : handle'[k].closes <= 1
    BY <1>7, <1>17, <2>3 DEF IInv, OneOwner
  <2> QED
    BY <2>1, <2>2, <2>4 DEF OneOwner
<1> QED
  BY <1>13, <1>15, <1>18 DEF IInv

\* proc_spawn: what a child is lent it does not own.
LEMMA ProcSpawnKeeps ==
    ASSUME IInv, NEW p \in Proc, NEW q \in Proc, NEW fdmap \in Maps(p), ProcSpawn(p, q, fdmap)
    PROVE  IInv'
<1> DEFINE given == DOMAIN fdmap
<1>1. given \subseteq Nat /\ \A c \in given : fdmap[c] \in DOMAIN fds[p]
  BY FilesAssumption DEF Maps
<1>2. PICK next \in {FirstAllocFd} \union {g + 1 : g \in given} :
         IsNext(given, next) /\ nextFd' = [nextFd EXCEPT ![q] = next]
  BY DEF ProcSpawn
<1>3. next \in Nat /\ \A g \in given : g < next
  BY <1>1, <1>2 DEF IsNext
<1>4. /\ entry' = Over([s \in {q} \X given |-> Borrow(Entry(p, fdmap[s[2]]))], entry)
      /\ fds' = [fds EXCEPT ![q] = [c \in given |-> <<q, c>>]]
      /\ phase' = [phase EXCEPT ![q] = "running"]
      /\ UNCHANGED <<handle, content>>
      /\ phase[p] = "running" /\ phase[q] = "unborn"
  BY DEF ProcSpawn, ChildEntry, Calling
<1>5. /\ DOMAIN fds = Proc /\ nextFd \in [Proc -> Nat]
      /\ phase \in [Proc -> {"unborn", "running", "gone"}]
      /\ DOMAIN entry \subseteq Proc \X Nat
  BY DEF IInv, TypeInvariant
<1> HIDE DEF given
<1>6. /\ DOMAIN entry' = DOMAIN entry \union ({q} \X given)
      /\ \A c \in given : entry'[<<q, c>>] = Borrow(Entry(p, fdmap[c]))
      /\ \A s \in DOMAIN entry : s \notin {q} \X given => entry'[s] = entry[s]
  BY <1>4 DEF Over
<1>7. /\ DOMAIN fds' = Proc
      /\ DOMAIN fds'[q] = given /\ \A c \in given : fds'[q][c] = <<q, c>>
      /\ \A r \in Proc : r # q => fds'[r] = fds[r]
  BY <1>4, <1>5
<1>8. \A c \in given : Borrow(Entry(p, fdmap[c])) \in FdEntry /\ ~Borrow(Entry(p, fdmap[c])).owned
  BY <1>1, EntryTypes DEF Borrow, FdEntry, given
<1>9. TypeInvariant'
  <2>1. \A s \in DOMAIN entry' : entry'[s] \in FdEntry
    BY <1>6, <1>8 DEF IInv, TypeInvariant
  <2>2. \A s \in DOMAIN entry' : entry'[s] \in FdEntry'
    BY <1>4, <2>1 DEF FdEntry
  <2>3. DOMAIN entry' \subseteq Proc \X Nat
    BY <1>1, <1>5, <1>6 DEF given
  <2>4. phase' \in [Proc -> {"unborn", "running", "gone"}] /\ phase'[q] = "running"
        /\ \A r \in Proc : r # q => phase'[r] = phase[r]
    BY <1>4, <1>5
  <2>5. \A r \in Proc : /\ \A g \in DOMAIN fds'[r] : g \in Nat /\ fds'[r][g] \in DOMAIN entry'
                        /\ phase'[r] # "running" => DOMAIN fds'[r] = {}
    <3>1. \A g \in DOMAIN fds'[q] : g \in Nat /\ fds'[q][g] \in DOMAIN entry'
      <4>1. \A g \in DOMAIN fds'[q] : g \in Nat /\ fds'[q][g] = <<q, g>> /\ <<q, g>> \in {q} \X given
        BY <1>1, <1>7 DEF given
      <4> QED
        BY <1>6, <4>1
    <3>2. \A r \in Proc : r # q =>
             /\ \A g \in DOMAIN fds'[r] : g \in Nat /\ fds'[r][g] \in DOMAIN entry'
             /\ phase'[r] # "running" => DOMAIN fds'[r] = {}
      BY <1>6, <1>7, <2>4 DEF IInv, TypeInvariant
    <3> QED
      BY <2>4, <3>1, <3>2
  <2>6. nextFd' \in [Proc -> Nat]
    BY <1>2, <1>3, <1>5
  <2>7. handle' \in Seq(FileHandle) /\ content' \in [File -> Seq(Byte \union {0})]
    BY <1>4 DEF IInv, TypeInvariant, FileHandle
  <2> QED
    BY <1>7, <2>2, <2>3, <2>4, <2>5, <2>6, <2>7, TypesNext
<1>10. nextFd'[q] = next /\ \A r \in Proc : r # q => nextFd'[r] = nextFd[r]
  BY <1>2, <1>5
<1>11. OwnSlots'
  BY <1>3, <1>7, <1>10 DEF IInv, OwnSlots
<1>12. \A r \in Proc : \A g \in DOMAIN fds'[r] :
          Owns(r, g)' => r # q /\ g \in DOMAIN fds[r] /\ entry'[<<r, g>>] = entry[<<r, g>>] /\ Owns(r, g)
  <2>1. \A c \in DOMAIN fds'[q] : ~Owns(q, c)'
    BY <1>6, <1>7, <1>8 DEF Owns
  <2>2. ASSUME NEW r \in Proc, r # q, NEW g \in DOMAIN fds'[r]
        PROVE  g \in DOMAIN fds[r] /\ entry'[<<r, g>>] = entry[<<r, g>>]
    <3>1. g \in DOMAIN fds[r]
      BY <1>7, <2>2
    <3>1a. <<r, g>> \in DOMAIN entry
      BY <3>1, <2>2 DEF IInv, TypeInvariant, OwnSlots
    <3>2. <<r, g>> \notin {q} \X given
      BY <2>2
    <3> QED
      BY <1>6, <3>1, <3>1a, <3>2
  <2> QED
    BY <2>1, <2>2 DEF Owns
<1>13. OneOwner'
  <2>1. \A r, t \in Proc : \A f \in DOMAIN fds'[r], g \in DOMAIN fds'[t] :
           Owns(r, f)' /\ Owns(t, g)' /\ entry'[<<r, f>>].handle = entry'[<<t, g>>].handle
              => r = t /\ f = g
    BY <1>12 DEF IInv, OneOwner
  <2> handle' = handle
    BY <1>4
  <2>2. \A r \in Proc : \A f \in DOMAIN fds'[r] :
           Owns(r, f)' => handle'[entry'[<<r, f>>].handle].closes = 0
    BY <1>12 DEF IInv, OneOwner
  <2>3. \A k \in DOMAIN handle' : handle'[k].closes <= 1
    BY DEF IInv, OneOwner
  <2> QED
    BY <2>1, <2>2, <2>3 DEF OneOwner
<1> QED
  BY <1>9, <1>11, <1>13 DEF IInv

-----------------------------------------------------------------------------
(* The theorems.                                                             *)

LEMMA StepKeeps == IInv /\ [Next]_vars => IInv'
<1> SUFFICES ASSUME IInv, [Next]_vars PROVE IInv'
  OBVIOUS
<1>1. CASE UNCHANGED vars
  <2>1. \A s \in DOMAIN entry : entry'[s] \in FdEntry
    BY <1>1 DEF vars, IInv, TypeInvariant
  <2>2. content' \in [File -> Seq(Byte \union {0})]
    BY <1>1 DEF vars, IInv, TypeInvariant
  <2> QED
    BY <1>1, <2>1, <2>2, CallKeeps DEF vars
<1>2. ASSUME NEW p \in Proc, NEW f \in File, NEW flags \in Flags, PathOpen(p, f, flags)
      PROVE  IInv'
  BY <1>2, PathOpenKeeps
<1>3. ASSUME NEW p \in Proc, NEW fd \in DOMAIN fds[p], FdStep(p, fd)
      PROVE  IInv'
  BY <1>3, FdReadKeeps, FdWriteKeeps, FdPwriteKeeps, FdSeekKeeps, SetSizeKeeps, FdCloseKeeps DEF FdStep
<1>4. ASSUME NEW p \in Proc, NEW q \in Proc, NEW fdmap \in Maps(p), ProcSpawn(p, q, fdmap)
      PROVE  IInv'
  BY <1>4, ProcSpawnKeeps
<1>5. ASSUME NEW p \in Proc, Exit(p)
      PROVE  IInv'
  BY <1>5, ExitKeeps
<1> QED
  BY <1>1, <1>2, <1>3, <1>4, <1>5 DEF Next

LEMMA Inductive == Spec => []IInv
BY Begins, StepKeeps, PTL DEF Spec

\* Tables, entries and handles keep their types (FdTable, FdEntry, FileHandle).
THEOREM TypesHold == Spec => []TypeInvariant
<1>1. IInv => TypeInvariant
  BY DEF IInv
<1> QED
  BY <1>1, Inductive, PTL

\* Nobody moves the position of another's file, a parent's and its child's included
\* (ExtHandler.borrow copies the entry).
THEOREM PositionsArePrivate == Spec => []NoSharedPosition
<1>1. IInv => NoSharedPosition
  BY DEF IInv, OwnSlots, NoSharedPosition
<1> QED
  BY <1>1, Inductive, PTL

\* However descriptors are lent, closed and dropped, a handle is closed at most once and
\* stays open as long as its owner has it (SyscallHandler.fdClose).
THEOREM HandlesAreClosedOnce == Spec => []ClosedOnceByOwner
<1>1. IInv => ClosedOnceByOwner
  <2> SUFFICES ASSUME IInv PROVE ClosedOnceByOwner
    OBVIOUS
  <2>1. \A p \in Proc : \A fd \in DOMAIN fds[p] : Entry(p, fd) = entry[<<p, fd>>]
    BY DEF IInv, OwnSlots, Entry
  <2>2. \A p \in Proc : \A fd \in DOMAIN fds[p] :
           entry[<<p, fd>>].owned => handle[entry[<<p, fd>>].handle].closes = 0
    BY DEF IInv, OneOwner, Owns
  <2> QED
    BY <2>1, <2>2 DEF IInv, OneOwner, ClosedOnceByOwner, IsOpen
<1> QED
  BY <1>1, Inductive, PTL

-----------------------------------------------------------------------------
(* Descriptors over time.                                                    *)

\* What a step may do to a process's descriptors.
Stays(p) ==
    \A fd \in DOMAIN fds[p] \intersect DOMAIN fds'[p] :
        entry'[fds'[p][fd]].handle = Entry(p, fd).handle

\* The entries of all descriptors that are left are those they had.
LEMMA KeptStays ==
    ASSUME IInv, NEW p \in Proc, DOMAIN fds'[p] \subseteq DOMAIN fds[p],
           \A fd \in DOMAIN fds'[p] : fds'[p][fd] = fds[p][fd],
           \A fd \in DOMAIN fds[p] : entry'[fds[p][fd]].handle = entry[fds[p][fd]].handle
    PROVE  Stays(p)
BY DEF Stays, Entry

\* A call on a descriptor changes at most the position of its entry.
LEMMA FdStepStays ==
    ASSUME IInv, NEW p \in Proc, NEW fd \in DOMAIN fds[p], FdStep(p, fd), NEW q \in Proc
    PROVE  Stays(q)
<1>1. \A g \in DOMAIN fds[q] : fds[q][g] \in DOMAIN entry
  BY DEF IInv, TypeInvariant
<1>2. ASSUME NEW to, entry' = [entry EXCEPT ![fds[p][fd]].position = to], fds' = fds
      PROVE  Stays(q)
  <2>1. entry[fds[p][fd]] \in FdEntry
    BY DEF IInv, TypeInvariant
  <2>2. \A s \in DOMAIN entry : entry'[s].handle = entry[s].handle
    BY <1>2, <2>1 DEF FdEntry
  <2> QED BY <1>1, <1>2, <2>2, KeptStays
<1>3. CASE FdRead(p, fd)
  BY <1>2, <1>3 DEF FdRead, Advance
<1>4. ASSUME NEW b \in Byte, FdWrite(p, fd, b) PROVE Stays(q)
  BY <1>2, <1>4 DEF FdWrite, Advance
<1>5. ASSUME NEW b, NEW at, FdPwrite(p, fd, b, at) PROVE Stays(q)
  BY <1>1, <1>5, KeptStays DEF FdPwrite
<1>6. ASSUME NEW offset, NEW base, FdSeek(p, fd, offset, base) PROVE Stays(q)
  BY <1>2, <1>6 DEF FdSeek
<1>7. ASSUME NEW n, SetSize(p, fd, n) PROVE Stays(q)
  BY <1>1, <1>7, KeptStays DEF SetSize
<1>8. CASE FdClose(p, fd)
  <2>1. /\ fds' = [fds EXCEPT ![p] = [f \in DOMAIN fds[p] \ {fd} |-> fds[p][f]]]
        /\ entry' = entry /\ DOMAIN fds = Proc
    BY <1>8 DEF FdClose, Forgets, IInv, TypeInvariant
  <2>2. DOMAIN fds'[q] \subseteq DOMAIN fds[q] /\ \A g \in DOMAIN fds'[q] : fds'[q][g] = fds[q][g]
    BY <2>1
  <2> QED BY <2>1, <2>2, KeptStays
<1> QED BY <1>3, <1>4, <1>5, <1>6, <1>7, <1>8 DEF FdStep

\* A file that is opened gets the next descriptor, and an entry that nobody had.
LEMMA PathOpenStays ==
    ASSUME IInv, NEW p \in Proc, NEW f, NEW flags, PathOpen(p, f, flags), NEW q \in Proc
    PROVE  Stays(q)
<1> PICK fd, e : fd = nextFd[p] /\ e = [handle |-> Len(handle) + 1, position |-> 0, owned |-> TRUE]
  OBVIOUS
<1>1. /\ entry' = Over([s \in {<<p, fd>>} |-> e], entry)
      /\ fds' = [fds EXCEPT ![p] = Over([g \in {fd} |-> <<p, g>>], fds[p])]
      /\ DOMAIN fds = Proc /\ fd \in Nat
  BY DEF PathOpen, Allocates, IInv, TypeInvariant
<1>2. /\ \A r \in Proc : \A g \in DOMAIN fds[r] : fds[r][g] # <<p, fd>> /\ fds[r][g] \in DOMAIN entry
      /\ \A g \in DOMAIN fds[p] : g # fd
  BY <1>1 DEF IInv, TypeInvariant, OwnSlots
<1>3. \A s \in DOMAIN entry : s # <<p, fd>> => entry'[s] = entry[s]
  BY <1>1 DEF Over
<1>4. CASE q # p
  BY <1>1, <1>2, <1>3, <1>4, KeptStays
<1>5. CASE q = p
  <2>1. /\ DOMAIN fds'[p] = DOMAIN fds[p] \union {fd}
        /\ \A g \in DOMAIN fds[p] : fds'[p][g] = fds[p][g]
    BY <1>1, <1>2 DEF Over
  <2>2. \A g \in DOMAIN fds[p] : entry'[fds'[p][g]].handle = Entry(p, g).handle
    BY <1>2, <1>3, <2>1 DEF Entry
  <2> QED BY <1>5, <2>1, <2>2 DEF Stays
<1> QED BY <1>4, <1>5

\* A child gets its descriptors before it runs; nobody else's change.
LEMMA ProcSpawnStays ==
    ASSUME IInv, NEW p \in Proc, NEW q \in Proc, NEW fdmap \in Maps(p), ProcSpawn(p, q, fdmap),
           NEW r \in Proc
    PROVE  Stays(r)
<1>1. /\ phase[q] = "unborn" /\ DOMAIN fds[q] = {} /\ DOMAIN fds = Proc
      /\ entry' = Over([s \in {q} \X DOMAIN fdmap |-> Borrow(Entry(p, fdmap[s[2]]))], entry)
      /\ fds' = [fds EXCEPT ![q] = [c \in DOMAIN fdmap |-> <<q, c>>]]
  BY DEF ProcSpawn, ChildEntry, IInv, TypeInvariant
<1>2. CASE r = q
  BY <1>1, <1>2 DEF Stays
<1>3. CASE r # q
  <2>1. \A g \in DOMAIN fds[r] : fds[r][g] = <<r, g>> /\ fds[r][g] \in DOMAIN entry
    BY DEF IInv, TypeInvariant, OwnSlots
  <2>2. \A g \in DOMAIN fds[r] : fds[r][g] \notin {q} \X DOMAIN fdmap
    BY <1>3, <2>1
  <2>3. \A g \in DOMAIN fds[r] : entry'[fds[r][g]] = entry[fds[r][g]]
    BY <1>1, <2>1, <2>2 DEF Over
  <2>4. fds'[r] = fds[r]
    BY <1>1, <1>3
  <2> QED BY <2>3, <2>4, KeptStays
<1> QED BY <1>2, <1>3

LEMMA ExitStays ==
    ASSUME IInv, NEW p \in Proc, Exit(p), NEW q \in Proc
    PROVE  Stays(q)
<1>1. fds' = [fds EXCEPT ![p] = NoFds] /\ entry' = entry /\ DOMAIN fds = Proc /\ DOMAIN NoFds = {}
  BY DEF Exit, IInv, TypeInvariant, NoFds
<1>2. DOMAIN fds'[q] \subseteq DOMAIN fds[q] /\ \A g \in DOMAIN fds'[q] : fds'[q][g] = fds[q][g]
  BY <1>1
<1> QED BY <1>1, <1>2, KeptStays

\* A descriptor stays what it is until it is closed, and none that is open is given out
\* (FdTable.allocate), whatever the process was born with (FdTable's constructor).
THEOREM DescriptorsStay == Spec => DescriptorsAreStable
<1> DEFINE A == \A p \in Proc : Stays(p)
<1>1. IInv /\ [Next]_vars => [A]_vars
  <2> SUFFICES ASSUME IInv, Next, NEW q \in Proc PROVE Stays(q)
    OBVIOUS
  <2>1. PICK p \in Proc :
            \/ \E f \in File, flags \in Flags : PathOpen(p, f, flags)
            \/ \E fd \in DOMAIN fds[p] : FdStep(p, fd)
            \/ \E r \in Proc, fdmap \in Maps(p) : ProcSpawn(p, r, fdmap)
            \/ Exit(p)
    BY DEF Next
  <2> QED BY <2>1, PathOpenStays, FdStepStays, ProcSpawnStays, ExitStays
<1>2. [A]_vars <=> [\A p \in Proc : \A fd \in DOMAIN fds[p] \intersect DOMAIN fds'[p] :
          entry'[fds'[p][fd]].handle = Entry(p, fd).handle]_vars
  BY DEF Stays
<1> QED BY <1>1, <1>2, Inductive, PTL DEF Spec, DescriptorsAreStable
=============================================================================
