------------------------------- MODULE Kernel -------------------------------
(* Processes and the pipes between them: LocalKernel.spawnWithEntries,       *)
(* JSPITransport's table of pipe ends, and the calls a guest makes through   *)
(* ExtHandler, ProcessTable, FdTable and SyscallHandler.                     *)
(*                                                                           *)
(* The pipe itself is the bounded stream that module PipeBuffer implements,  *)
(* reduced to how full it is: a blocked call is an action that is not yet    *)
(* enabled.  Files are not in these tables: a descriptor that is an open file *)
(* is one that needs no default pipe.                                        *)
EXTENDS Integers, FiniteSets

CONSTANTS
    Proc,       \* processes
    Root,       \* the one the host spawns
    Std,        \* the standard descriptors in play, a subset of 0..2
    HostFds,    \* those of them for which the host gives Root a pipe
    MaxPipes,   \* bound on the number of pipes made
    Capacity    \* capacity of a pipe

ASSUME KernelAssumption ==
    /\ IsFiniteSet(Proc)
    /\ Root \in Proc
    /\ Std \subseteq 0..2
    /\ HostFds \subseteq Std
    /\ MaxPipes \in Nat
    /\ Cardinality(HostFds) <= MaxPipes
    /\ Capacity \in Nat \ {0}

VARIABLES
    made,      \* pipes 1..made exist; transport.nextEndId
    ends,      \* JSPITransport.ends: the <<side, pipe>> that have a record
    holders,   \* EndRecord.holders of each pipe's write end
    closed,    \* the buffer's closeWrite() has been called
    level,     \* bytes in the buffer
    drain,     \* drainBuffer on the pipe: none, running or ended
    phase,     \* where spawnWithEntries stands
    given,     \* the descriptors `provided` to it
    merged,    \* its map `merged`
    owned,     \* its list `ownedEnds`, by pipe
    fds,       \* the process's FdTable
    nextFd,    \* FdTable.nextFd
    children,  \* its ProcessTable: children not joined yet
    op         \* the system call the guest is suspended in

pipeVars == <<made, ends, holders, closed, level, drain>>
procVars == <<phase, given, merged, owned, fds, nextFd, children, op>>
vars     == <<pipeVars, procVars>>

Pipe == 1..MaxPipes

End(side, k) == [dir |-> side, pipe |-> k]
NoFds        == [f \in {} |-> End("read", 0)]
Idle         == [call |-> "none", pipe |-> 0, child |-> Root]

\* Entries of f, and of g where f has none.
Over(f, g) == [x \in DOMAIN f \union DOMAIN g |-> IF x \in DOMAIN f THEN f[x] ELSE g[x]]

WriteFds(p) == {f \in DOMAIN merged[p] : merged[p][f].dir = "write"}
HeldBy(p, k) == Cardinality({f \in WriteFds(p) : merged[p][f].pipe = k})

Init ==
    /\ made = Cardinality(HostFds)
    /\ ends = {"read", "write"} \X (1..Cardinality(HostFds))
    /\ holders = [k \in Pipe |-> 0]
    /\ closed = [k \in Pipe |-> FALSE]
    /\ level = [k \in Pipe |-> 0]
    /\ drain = [k \in Pipe |-> "none"]
    /\ phase = [p \in Proc |-> "unborn"]
    /\ given = [p \in Proc |-> {}]
    /\ merged = [p \in Proc |-> NoFds]
    /\ owned = [p \in Proc |-> {}]
    /\ fds = [p \in Proc |-> NoFds]
    /\ nextFd = [p \in Proc |-> 16]
    /\ children = [p \in Proc |-> {}]
    /\ op = [p \in Proc |-> Idle]

-----------------------------------------------------------------------------
(* spawnWithEntries, in the four stretches its awaits cut it into.           *)

\* Lines 50-78: a default pipe for each standard descriptor not provided, the default
\* stdin closed at once, the others drained; then `await fs.opendir('/')`.  The
\* descriptors in `files` are provided too, and are open files.
Begin(p, provided, files) ==
    LET missing    == Std \ (DOMAIN provided \union files)
        Default(f) == made + Cardinality({g \in missing : g <= f})
        fresh      == {Default(f) : f \in missing}
    IN  /\ phase[p] = "unborn"
        /\ made + Cardinality(missing) <= MaxPipes
        /\ made' = made + Cardinality(missing)
        /\ ends' = ends \union ({"read", "write"} \X fresh)
        /\ closed' = [k \in Pipe |-> closed[k] \/ (0 \in missing /\ k = Default(0))]
        /\ drain' = [k \in Pipe |-> IF \E f \in missing \ {0} : k = Default(f)
                                    THEN "running" ELSE drain[k]]
        /\ phase' = [phase EXCEPT ![p] = "opening"]
        /\ given' = [given EXCEPT ![p] = DOMAIN provided]
        /\ merged' = [merged EXCEPT ![p] =
              Over(provided, [f \in missing |-> End(IF f = 0 THEN "read" ELSE "write", Default(f))])]
        /\ owned' = [owned EXCEPT ![p] = fresh]
        /\ UNCHANGED <<holders, level, fds, nextFd>>

\* `merged` is walked in insertion order: what was provided, then the defaults.
Before(p, f, g) ==
    IF (f \in given[p]) = (g \in given[p]) THEN f < g ELSE f \in given[p]

Unknown(p) == {f \in WriteFds(p) : <<"write", merged[p][f].pipe>> \notin ends}

\* acquireWriteEnd, once per write end in `merged`, up to the first it does not know.
Acquired(p) == {f \in WriteFds(p) : \A g \in Unknown(p) : Before(p, f, g)}

NoneAcquired(p, k) == 0
Acquires(p, k) == Cardinality({f \in Acquired(p) : merged[p][f].pipe = k})

\* Lines 79-100: opendir has answered, the write ends are acquired, the worker starts.
Start(p) ==
    /\ phase[p] = "opening"
    /\ Unknown(p) = {}
    /\ holders' = [k \in Pipe |-> holders[k] + Acquires(p, k)]
    /\ phase' = [phase EXCEPT ![p] = "running"]
    /\ fds' = [fds EXCEPT ![p] = merged[p]]
    /\ UNCHANGED <<made, ends, closed, level, drain,
                   given, merged, owned, nextFd, children, op>>

\* The maps and the descriptor table of a process that has ended are garbage.
TablesGo(p) ==
    /\ merged' = [merged EXCEPT ![p] = NoFds]
    /\ given' = [given EXCEPT ![p] = {}]
    /\ fds' = [fds EXCEPT ![p] = NoFds]
    /\ nextFd' = [nextFd EXCEPT ![p] = 16]

\* acquireWriteEnd throws before the `try`: what was acquired is never given back.  Those
\* entries stay in `merged`, as the record of what is left behind (LeftBehind).
AcquireFails(p) ==
    /\ phase[p] = "opening"
    /\ Unknown(p) # {}
    /\ holders' = [k \in Pipe |-> holders[k] + Acquires(p, k)]
    /\ phase' = [phase EXCEPT ![p] = "failed"]
    /\ merged' = [merged EXCEPT ![p] = [f \in Acquired(p) |-> @[f]]]
    /\ given' = [given EXCEPT ![p] = {}]
    /\ fds' = [fds EXCEPT ![p] = NoFds]
    /\ nextFd' = [nextFd EXCEPT ![p] = 16]
    /\ UNCHANGED <<made, ends, closed, level, drain, owned, children, op>>

\* opendir rejects, or binaryResolver throws.
StartFails(p) ==
    /\ phase[p] = "opening"
    /\ phase' = [phase EXCEPT ![p] = "failed"]
    /\ TablesGo(p)
    /\ UNCHANGED <<pipeVars, owned, children, op>>

\* closeWriteEnd for each write end in `merged`: a holder less, and the buffer is
\* closed when none is left.
LastHolderUnchecked(k, left) == TRUE
LastHolderTooSoon(k, left) == holders[k] = 0
LastHolder(k, left) == left = 0

CloseWriteEnds(p) ==
    LET Closes(k) == IF <<"write", k>> \in ends THEN HeldBy(p, k) ELSE 0
        Left(k)   == IF holders[k] > Closes(k) THEN holders[k] - Closes(k) ELSE 0
    IN  /\ holders' = [k \in Pipe |-> Left(k)]
        /\ closed' = [k \in Pipe |-> closed[k] \/ (Closes(k) > 0 /\ LastHolder(k, Left(k)))]
        /\ UNCHANGED <<made, ends, level, drain>>

\* The worker posts `exit`: the ends are closed and the drains awaited (line 110).
Exit(p) ==
    /\ phase[p] = "running"
    /\ op[p] = Idle
    /\ CloseWriteEnds(p)
    /\ TablesGo(p)
    /\ phase' = [phase EXCEPT ![p] = "draining"]
    /\ UNCHANGED <<owned, children, op>>

\* The worker posts `error`: the ends are closed and the promise rejects; ownedEnds
\* stay in the table.
Crash(p) ==
    /\ phase[p] = "running"
    /\ op[p] = Idle
    /\ CloseWriteEnds(p)
    /\ TablesGo(p)
    /\ phase' = [phase EXCEPT ![p] = "failed"]
    /\ UNCHANGED <<owned, children, op>>

\* Lines 110-114: both drains have ended, so the owned ends are released.
DrainsUnawaited(p) == TRUE
DrainsEnded(p) == \A k \in owned[p] : drain[k] # "running"

Finish(p) ==
    /\ phase[p] = "draining"
    /\ DrainsEnded(p)
    /\ ends' = ends \ ({"read", "write"} \X owned[p])
    /\ phase' = [phase EXCEPT ![p] = "done"]
    /\ UNCHANGED <<made, holders, closed, level, drain,
                   given, merged, owned, fds, nextFd, children, op>>

\* drainBuffer takes all there is, and ends on a closed empty pipe.
Drain(k) ==
    /\ drain[k] = "running"
    /\ \/ level[k] > 0 /\ level' = [level EXCEPT ![k] = 0] /\ UNCHANGED drain
       \/ level[k] = 0 /\ closed[k] /\ drain' = [drain EXCEPT ![k] = "ended"] /\ UNCHANGED level
    /\ UNCHANGED <<made, ends, holders, closed, procVars>>

-----------------------------------------------------------------------------
(* System calls.  The guest's one thread is suspended until the answer.  A   *)
(* call that is refused (EBADF, EIO, ECHILD) changes nothing here.           *)

Calling(p) == phase[p] = "running" /\ op[p] = Idle

procButOp == <<phase, given, merged, owned, fds, nextFd, children>>

\* ExtHandler.fdPipe: a pipe in two fresh descriptors.  The caller is not registered as
\* a holder of the write end.
FdPipe(p) ==
    /\ Calling(p)
    /\ made < MaxPipes
    /\ made' = made + 1
    /\ ends' = ends \union ({"read", "write"} \X {made + 1})
    /\ fds' = [fds EXCEPT ![p] =
          Over([f \in {nextFd[p], nextFd[p] + 1} |->
                   End(IF f = nextFd[p] THEN "read" ELSE "write", made + 1)], @)]
    /\ nextFd' = [nextFd EXCEPT ![p] = @ + 2]
    /\ UNCHANGED <<holders, closed, level, drain, phase, given, merged, owned, children, op>>

FdCloseEnds(p, fd) ==
    LET e == fds[p][fd]
    IN  /\ Calling(p)
        /\ fd \in DOMAIN fds[p]
        /\ fds' = [fds EXCEPT ![p] = [f \in DOMAIN @ \ {fd} |-> @[f]]]
        /\ closed' = [k \in Pipe |-> closed[k] \/ (e = End("write", k) /\ holders[k] = 0)]
        /\ UNCHANGED <<made, ends, holders, level, drain, phase, given, merged, owned,
                       nextFd, children, op>>

\* SyscallHandler.fdClose on a pipe: the descriptor goes, the end stays as it was.
FdClose(p, fd) ==
    /\ Calling(p)
    /\ fd \in DOMAIN fds[p]
    /\ fds' = [fds EXCEPT ![p] = [f \in DOMAIN @ \ {fd} |-> @[f]]]
    /\ UNCHANGED <<pipeVars, phase, given, merged, owned, nextFd, children, op>>

\* fdRead and fdWrite: look the descriptor up, then its buffer.  A descriptor of the
\* wrong direction is EBADF; an end with no record any more is EIO.
Usable(p, fd, side) ==
    /\ fd \in DOMAIN fds[p]
    /\ fds[p][fd].dir = side
    /\ <<side, fds[p][fd].pipe>> \in ends

FdCall(p, fd, side) ==
    /\ Calling(p)
    /\ Usable(p, fd, side)
    /\ op' = [op EXCEPT ![p] = [call |-> side, pipe |-> fds[p][fd].pipe, child |-> p]]
    /\ UNCHANGED <<pipeVars, procButOp>>

FdRead(p, fd)  == FdCall(p, fd, "read")
FdWrite(p, fd) == FdCall(p, fd, "write")

\* What a read leaves in the buffer: it takes some of what is there, as far as it fits the
\* caller's buffer.
Remains(k) == {n \in 0..level[k] : n < level[k] \/ level[k] = 0}

\* The buffer answers a read: with data, or with end of file.
ReadReturns(p) ==
    LET k == op[p].pipe
    IN  /\ op[p].call = "read"
        /\ level[k] > 0 \/ closed[k]
        /\ \E n \in Remains(k) : level' = [level EXCEPT ![k] = n]
        /\ op' = [op EXCEPT ![p] = Idle]
        /\ UNCHANGED <<made, ends, holders, closed, drain, procButOp>>

RoomUnchecked(k) == TRUE
Room(k) == level[k] < Capacity

\* The buffer answers a write of one byte: there is room, or the pipe is closed and the
\* exception reaches the guest as EIO.
WriteReturns(p) ==
    LET k == op[p].pipe
    IN  /\ op[p].call = "write"
        /\ \/ closed[k] /\ UNCHANGED level
           \/ ~closed[k] /\ Room(k) /\ level' = [level EXCEPT ![k] = @ + 1]
        /\ op' = [op EXCEPT ![p] = Idle]
        /\ UNCHANGED <<made, ends, holders, closed, drain, procButOp>>

\* ExtHandler.procSpawn: the child gets the parent's entries, spawnWithEntries runs to
\* its first await, and the child is registered.
ProcSpawn(p, q, fdmap, files) ==
    /\ Calling(p)
    /\ DOMAIN fdmap \intersect files = {}
    /\ \A c \in DOMAIN fdmap : fdmap[c] \in DOMAIN fds[p]
    /\ Begin(q, [c \in DOMAIN fdmap |-> fds[p][fdmap[c]]], files)
    /\ children' = [children EXCEPT ![p] = @ \union {q}]
    /\ UNCHANGED op

\* ExtHandler.procJoin takes the child out of the table before it waits for it.
ProcJoin(p, q) ==
    /\ Calling(p)
    /\ q \in children[p]
    /\ children' = [children EXCEPT ![p] = @ \ {q}]
    /\ op' = [op EXCEPT ![p] = [call |-> "join", pipe |-> 0, child |-> q]]
    /\ UNCHANGED <<pipeVars, phase, given, merged, owned, fds, nextFd>>

\* The child's promise settles: its exit code, or EIO for a rejection.
SettledOnExit(q) == phase[q] \in {"draining", "done", "failed"}
Settled(q) == phase[q] \in {"done", "failed"}

JoinReturns(p) ==
    /\ op[p].call = "join"
    /\ Settled(op[p].child)
    /\ op' = [op EXCEPT ![p] = Idle]
    /\ UNCHANGED <<pipeVars, procButOp>>

-----------------------------------------------------------------------------
(* The host: it gives Root the first pipes made (app.ts).                    *)

HostPipe(f) == Cardinality({g \in HostFds : g <= f})

HostSpawn ==
    /\ Begin(Root, [f \in HostFds |-> End(IF f = 0 THEN "read" ELSE "write", HostPipe(f))], {})
    /\ UNCHANGED <<children, op>>

-----------------------------------------------------------------------------
\* What goes on without the guests.
KernelStep ==
    \/ HostSpawn
    \/ \E p \in Proc : Start(p) \/ AcquireFails(p) \/ StartFails(p) \/ Finish(p)
    \/ \E k \in Pipe : Drain(k)
    \/ \E p \in Proc : ReadReturns(p) \/ WriteReturns(p) \/ JoinReturns(p)

\* A guest may make any call at any time, and end at any time.
FdMaps(p) == UNION {[D -> DOMAIN fds[p]] : D \in SUBSET Std}

GuestStep(p) ==
    \/ FdPipe(p)
    \/ \E fd \in Std \union DOMAIN fds[p] : FdClose(p, fd) \/ FdRead(p, fd) \/ FdWrite(p, fd)
    \/ \E q \in Proc \ {Root}, fdmap \in FdMaps(p), files \in SUBSET Std :
          ProcSpawn(p, q, fdmap, files)
    \/ \E q \in Proc : ProcJoin(p, q)
    \/ Exit(p)
    \/ Crash(p)

Next == KernelStep \/ \E p \in Proc : GuestStep(p)

Spec == Init /\ [][Next]_vars

\* The event loop runs every promise that has settled; what the guests do is their own.
Fairness ==
    /\ \A k \in Pipe : WF_vars(Drain(k))
    /\ \A p \in Proc : WF_vars(Finish(p)) /\ WF_vars(JoinReturns(p))

FairSpec == Spec /\ Fairness

-----------------------------------------------------------------------------
(* Properties.                                                               *)

Phase == {"unborn", "opening", "running", "draining", "done", "failed"}
FdEntry == [dir : {"read", "write"}, pipe : 1..made]

\* The types of the transport's table and of each process's state.
TypeInvariant ==
    /\ made \in Cardinality(HostFds)..MaxPipes
    /\ ends \subseteq {"read", "write"} \X (1..made)
    /\ holders \in [Pipe -> Nat]
    /\ closed \in [Pipe -> BOOLEAN]
    /\ level \in [Pipe -> 0..Capacity]
    /\ drain \in [Pipe -> {"none", "running", "ended"}]
    /\ phase \in [Proc -> Phase]
    /\ given \in [Proc -> SUBSET Std]
    /\ owned \in [Proc -> SUBSET (1..made)]
    /\ nextFd \in [Proc -> Nat]
    /\ children \in [Proc -> SUBSET Proc]
    /\ op \in [Proc -> [call : {"none", "read", "write", "join"}, pipe : 0..made, child : Proc]]
    /\ DOMAIN merged = Proc
    /\ DOMAIN fds = Proc
    /\ \A p \in Proc :
          /\ DOMAIN merged[p] \subseteq Std
          /\ \A f \in DOMAIN merged[p] : merged[p][f] \in FdEntry
          /\ \A f \in DOMAIN fds[p] : fds[p][f] \in FdEntry

Running == {p \in Proc : phase[p] = "running"}
LiveRefs(k) == {r \in Running \X Std : r[2] \in WriteFds(r[1]) /\ merged[r[1]][r[2]].pipe = k}
LiveHolds(k) == Cardinality(LiveRefs(k))

\* No live holder of a write end is forgotten: the count never falls below the number of
\* references the running processes were started with, whatever order they start, borrow
\* and end in.
NoHolderForgotten == \A k \in Pipe : <<"write", k>> \in ends => holders[k] >= LiveHolds(k)

\* A write end is closed by its last holder only: the step that closes a pipe leaves no
\* running process that was started with its write end (Transport.ts: "only EOF'd once
\* every holder has closed it").
ClosedByLastHolder ==
    [][\A k \in Pipe : closed'[k] /\ ~closed[k] => LiveHolds(k)' = 0]_vars

\* A result is complete: once spawn() has resolved, the pipes it captured output from are
\* closed and empty, so that no byte of the process's output can still come.
ResultIsComplete ==
    \A p \in Proc : phase[p] = "done" =>
        \A k \in owned[p] : closed[k] /\ level[k] = 0 /\ drain[k] # "running"

\* A child whose acquire loop failed half-way is a holder of k that does not exist.
LeftBehind(k) == \E q \in Proc : phase[q] = "failed" /\ \E f \in WriteFds(q) : merged[q][f].pipe = k

\* A result arrives: a process that has exited is not left draining for ever once nobody
\* alive was started with the write ends its output is captured from.  Excepted is an end
\* on which a failed acquire loop has left its count (LocalKernel.ts:92-96, before the
\* `try`): nothing closes that one any more, and the result does not arrive.
ResultArrives ==
    \A p \in Proc :
        []<>(phase[p] = "draining" => \E k \in owned[p] : LiveHolds(k) > 0 \/ LeftBehind(k))

Joining(p) == IF op[p].call = "join" THEN {op[p].child} ELSE {}

\* proc_join is a barrier: a child nobody can join any more, and nobody is waiting for,
\* has ended, and its pipes are its own no longer.
JoinIsBarrier ==
    \A q \in Proc \ {Root} :
        phase[q] # "unborn" =>
            \/ \E p \in Proc : q \in children[p] \union Joining(p)
            \/ phase[q] = "failed"
            \/ phase[q] = "done" /\ owned[q] \intersect {e[2] : e \in ends} = {}

\* What Transport.ts:24-26 says: a write end is EOF'd only once every holder has closed it.
\* The running processes whose map `merged` has the end are its holders.
HeldEndStaysOpen ==
    \A p \in Running : \A f \in WriteFds(p) : ~closed[merged[p][f].pipe]
=============================================================================
