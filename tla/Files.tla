------------------------------- MODULE Files -------------------------------
(* A process's open files: FdTable, the file half of SyscallHandler, the     *)
(* borrowing of proc_spawn, and what LocalKernel does, and does not do, with *)
(* them when a process ends.                                                 *)
(*                                                                           *)
(* A guest is suspended until its call is answered and no entry is in two    *)
(* tables, so a call is one step even where the handler awaits the backend.  *)
(* FdEntry and FileHandle objects have identities: an entry that of the slot *)
(* it was made for, a handle its number.  The directory is flat: the tree is *)
(* the concern of MemoryFs and of the OPFS backend.                          *)
EXTENDS Integers, Sequences, SequencesExt

CONSTANTS
    Proc,        \* processes
    Shell,       \* the one that is running at the beginning
    File,        \* the files, by name
    ChildFd,     \* descriptors a child may be given
    Flags,       \* the flags a guest opens with: records of read, write, append, truncate
    Byte,        \* what a guest writes, 0 apart
    MaxSize,     \* bound on offsets and sizes
    MaxHandles   \* bound on the number of FileHandle objects made

ASSUME FilesAssumption ==
    /\ Shell \in Proc
    /\ ChildFd \subseteq Nat
    /\ Flags \subseteq [read : BOOLEAN, write : BOOLEAN, append : BOOLEAN, truncate : BOOLEAN]
    /\ MaxSize \in Nat /\ MaxHandles \in Nat

VARIABLES
    opfs,     \* the kernel's file system is OpfsFs, not MemoryFs
    phase,    \* unborn, running or gone
    fds,      \* FdTable.entries: descriptor -> entry
    nextFd,   \* FdTable.nextFd
    entry,    \* the FdEntry objects made: handle, position, owned
    handle,   \* the FileHandle objects made: file, flags, how often close() was called
    content   \* bytes of each file

vars == <<opfs, phase, fds, nextFd, entry, handle, content>>

NoFds        == [f \in {} |-> <<Shell, 0>>]
NoEntries    == [s \in {} |-> [handle |-> 0, position |-> 0, owned |-> FALSE]]
FirstAllocFd == 16

Init ==
    /\ opfs \in BOOLEAN
    /\ phase = [p \in Proc |-> IF p = Shell THEN "running" ELSE "unborn"]
    /\ fds = [p \in Proc |-> NoFds]
    /\ nextFd = [p \in Proc |-> FirstAllocFd]
    /\ entry = NoEntries
    /\ handle = << >>
    /\ content = [f \in File |-> << >>]

-----------------------------------------------------------------------------
(* FdTable.                                                                  *)

\* The constructor: `next` is the first descriptor above all those given.
IsFirst(given, next) == next = FirstAllocFd
IsNext(given, next) == next >= FirstAllocFd /\ \A g \in given : next > g

\* Entries of f, and of g where f has none.
Over(f, g) == [x \in DOMAIN f \union DOMAIN g |-> IF x \in DOMAIN f THEN f[x] ELSE g[x]]

\* allocate.
Allocates(p, e) ==
    /\ entry' = Over([s \in {<<p, nextFd[p]>>} |-> e], entry)
    /\ fds' = [fds EXCEPT ![p] = Over([fd \in {nextFd[p]} |-> <<p, fd>>], @)]
    /\ nextFd' = [nextFd EXCEPT ![p] = @ + 1]

Forgets(p, fd) == fds' = [fds EXCEPT ![p] = [f \in DOMAIN @ \ {fd} |-> @[f]]]

-----------------------------------------------------------------------------
(* The backend.  A MemoryFileHandle's close() does nothing; OpfsFs closes    *)
(* the access handle, which is exclusive while it is open.                   *)

IsOpen(h) == handle[h].closes = 0
Locked(f) == opfs /\ \E h \in DOMAIN handle : handle[h].file = f /\ IsOpen(h)

Works(h) == opfs => IsOpen(h)

\* Only MemoryFileHandle asks how the file was opened.
MayRead(h)  == Works(h) /\ (opfs \/ handle[h].flags.read)
MayWrite(h) == Works(h) /\ (opfs \/ handle[h].flags.write)

Closes(h) == handle' = [handle EXCEPT ![h].closes = @ + 1]

Resized(s, n) == [i \in 1..n |-> IF i <= Len(s) THEN s[i] ELSE 0]

\* One byte at offset `at`, with zeros before it when the file is shorter.
Put(s, at, b) == [Resized(s, IF Len(s) > at THEN Len(s) ELSE at + 1) EXCEPT ![at + 1] = b]

-----------------------------------------------------------------------------
(* System calls.  One that is refused changes nothing.                       *)

Calling(p)   == phase[p] = "running"
Has(p, fd)   == Calling(p) /\ fd \in DOMAIN fds[p]
Entry(p, fd) == entry[fds[p][fd]]
FileOf(p, fd) == handle[Entry(p, fd).handle].file

\* pathOpen: on OPFS a second access handle to a file is refused with EIO.
PathOpen(p, f, flags) ==
    /\ Calling(p)
    /\ Len(handle) < MaxHandles
    /\ ~Locked(f)
    /\ handle' = Append(handle, [file |-> f, flags |-> flags, closes |-> 0])
    /\ content' = [content EXCEPT ![f] = IF flags.truncate /\ flags.write THEN << >> ELSE @]
    /\ Allocates(p, [handle |-> Len(handle) + 1, position |-> 0, owned |-> TRUE])
    /\ UNCHANGED phase

Advance(p, fd, n) == entry' = [entry EXCEPT ![fds[p][fd]].position = @ + n]

\* How many bytes a read of n returns.
ReadCount(p, fd, n) ==
    LET left == Len(content[FileOf(p, fd)]) - Entry(p, fd).position
    IN  IF left <= 0 THEN 0 ELSE IF n < left THEN n ELSE left

FdRead(p, fd) ==
    /\ Has(p, fd)
    /\ MayRead(Entry(p, fd).handle)
    /\ \E n \in 1..MaxSize : Advance(p, fd, ReadCount(p, fd, n))
    /\ UNCHANGED <<phase, fds, nextFd, handle, content>>

\* fdWrite: at the descriptor's position, whatever flags.append says.
FdWrite(p, fd, b) ==
    LET at == Entry(p, fd).position
    IN  /\ Has(p, fd)
        /\ MayWrite(Entry(p, fd).handle)
        /\ at < MaxSize
        /\ content' = [content EXCEPT ![FileOf(p, fd)] = Put(@, at, b)]
        /\ Advance(p, fd, 1)
        /\ UNCHANGED <<phase, fds, nextFd, handle>>

FdPwrite(p, fd, b, at) ==
    /\ Has(p, fd)
    /\ MayWrite(Entry(p, fd).handle)
    /\ content' = [content EXCEPT ![FileOf(p, fd)] = Put(@, at, b)]
    /\ UNCHANGED <<phase, fds, nextFd, entry, handle>>

SeeksTo(to) == to >= 0 /\ to <= MaxSize

\* fdSeek, from the start, the position or the end; never below zero.
FdSeek(p, fd, offset, base) ==
    LET from == CASE base = "set" -> 0
                  [] base = "cur" -> Entry(p, fd).position
                  [] base = "end" -> Len(content[FileOf(p, fd)])
    IN  /\ Has(p, fd)
        /\ base = "end" => Works(Entry(p, fd).handle)
        /\ SeeksTo(from + offset)
        /\ entry' = [entry EXCEPT ![fds[p][fd]].position = from + offset]
        /\ UNCHANGED <<phase, fds, nextFd, handle, content>>

\* fdFilestatSetSize: neither backend asks for the write flag.
SetSize(p, fd, n) ==
    /\ Has(p, fd)
    /\ Works(Entry(p, fd).handle)
    /\ content' = [content EXCEPT ![FileOf(p, fd)] = Resized(@, n)]
    /\ UNCHANGED <<phase, fds, nextFd, entry, handle>>

\* fdClose: the descriptor goes first; only the owner closes the handle.
ClosesHandle(e) == e.owned

FdClose(p, fd) ==
    LET e == Entry(p, fd)
    IN  /\ Has(p, fd)
        /\ Forgets(p, fd)
        /\ IF ClosesHandle(e) THEN Closes(e.handle) ELSE UNCHANGED handle
        /\ UNCHANGED <<phase, nextFd, entry, content>>

BorrowOwned(e) == [e EXCEPT !.position = 0]
Borrow(e) == [e EXCEPT !.owned = FALSE, !.position = 0]

SameEntry(p, q, fdmap, c) == fds[p][fdmap[c]]
ChildEntry(p, q, fdmap, c) == <<q, c>>

\* procSpawn: a child with a borrowed copy of each of the parent's entries in `fdmap`.
ProcSpawn(p, q, fdmap) ==
    LET given == DOMAIN fdmap
    IN  /\ Calling(p)
        /\ phase[q] = "unborn"
        /\ \A c \in given : fdmap[c] \in DOMAIN fds[p]
        /\ entry' = Over([s \in {q} \X given |-> Borrow(Entry(p, fdmap[s[2]]))], entry)
        /\ fds' = [fds EXCEPT ![q] = [c \in given |-> ChildEntry(p, q, fdmap, c)]]
        /\ \E next \in {FirstAllocFd} \union {g + 1 : g \in given} :
              IsNext(given, next) /\ nextFd' = [nextFd EXCEPT ![q] = next]
        /\ phase' = [phase EXCEPT ![q] = "running"]
        /\ UNCHANGED <<handle, content>>

\* spawnWithEntries closes the pipe ends of a process that ended; its table is garbage,
\* and the file handles in it stay as they are.
Exit(p) ==
    /\ Calling(p)
    /\ phase' = [phase EXCEPT ![p] = "gone"]
    /\ fds' = [fds EXCEPT ![p] = NoFds]
    /\ UNCHANGED <<nextFd, entry, handle, content>>

-----------------------------------------------------------------------------
Maps(p) == UNION {[given -> DOMAIN fds[p]] : given \in SUBSET ChildFd}

FdStep(p, fd) ==
    \/ FdRead(p, fd)
    \/ \E b \in Byte : FdWrite(p, fd, b) \/ \E at \in 0..MaxSize - 1 : FdPwrite(p, fd, b, at)
    \/ \E offset \in -MaxSize..MaxSize, base \in {"set", "cur", "end"} : FdSeek(p, fd, offset, base)
    \/ \E n \in 0..MaxSize : SetSize(p, fd, n)
    \/ FdClose(p, fd)

Next ==
    /\ \E p \in Proc :
          \/ \E f \in File, flags \in Flags : PathOpen(p, f, flags)
          \/ \E fd \in DOMAIN fds[p] : FdStep(p, fd)
          \/ \E q \in Proc, fdmap \in Maps(p) : ProcSpawn(p, q, fdmap)
          \/ Exit(p)
    /\ UNCHANGED opfs

Spec == Init /\ [][Next]_vars

-----------------------------------------------------------------------------
(* Properties.                                                               *)

FdEntry    == [handle : 1..Len(handle), position : Nat, owned : BOOLEAN]
FileHandle == [file : File, flags : Flags, closes : Nat]

\* The types of the tables and of the objects they refer to.
TypeInvariant ==
    /\ phase \in [Proc -> {"unborn", "running", "gone"}]
    /\ nextFd \in [Proc -> Nat]
    /\ DOMAIN entry \subseteq Proc \X Nat
    /\ \A s \in DOMAIN entry : entry[s] \in FdEntry
    /\ handle \in Seq(FileHandle)
    /\ content \in [File -> Seq(Byte \union {0})]
    /\ DOMAIN fds = Proc
    /\ \A p \in Proc :
          /\ \A fd \in DOMAIN fds[p] : fd \in Nat /\ fds[p][fd] \in DOMAIN entry
          /\ phase[p] # "running" => DOMAIN fds[p] = {}

\* An entry is in one table, under one descriptor: nobody moves the position of another's
\* file, a parent's and its child's included.
NoSharedPosition ==
    \A p, q \in Proc : \A f \in DOMAIN fds[p], g \in DOMAIN fds[q] :
        fds[p][f] = fds[q][g] => p = q /\ f = g

\* Whatever is lent to whom, a handle has one owner: it is closed at most once, and not
\* while the descriptor that owns it is open.
ClosedOnceByOwner ==
    /\ \A h \in DOMAIN handle : handle[h].closes <= 1
    /\ \A p \in Proc : \A fd \in DOMAIN fds[p] : Entry(p, fd).owned => IsOpen(Entry(p, fd).handle)

\* A descriptor stays what it is until it is closed: an open one is never given out again,
\* those the process was born with included.  What becomes of a closed one is left open:
\* FdTable never gives it out again, docs/ROADMAP.md:278 wants it reused in the end.
DescriptorsAreStable ==
    [][\A p \in Proc : \A fd \in DOMAIN fds[p] \intersect DOMAIN fds'[p] :
          entry'[fds'[p][fd]].handle = Entry(p, fd).handle]_vars

Wrote(i) == entry'[i].position > entry[i].position

\* What `>>` asks for (main.zig:361-363, FDFLAG_APPEND): what is written through a
\* descriptor that was opened for append comes after what the file holds.
AppendsAtEnd ==
    [][\A i \in DOMAIN entry :
          LET h == handle[entry[i].handle]
          IN  Wrote(i) /\ h.flags.append => IsPrefix(content[h.file], content'[h.file])]_vars
=============================================================================
