# A verification of browser-agent-os in TLA+

browser-agent-os runs WebAssembly guests in web workers on a small kernel written in
TypeScript.  The guests are written in Zig: a shell and the coreutils.  The kernel gives them
WASI Preview 1 system calls, processes, pipes and a file system in memory or on the browser's
OPFS.  Nothing in it uses threads with shared memory.  What makes it hard is the other kind of
concurrency: everything the kernel does is cut at its `await`s, and between two of them anything
else may run.

This directory holds modules that model the kernel, the shell and the file systems, TLC
configurations that check them, and proofs of what matters most.  `PROJECT.json` lists the
components, the runs, the hazards and, for every definition, the lines of source it models.

## The system and its parts

| component | source | state it keeps | operations | module |
|---|---|---|---|---|
| pipe buffer | `pipe/PipeBuffer.ts` | chunks, size, closed flag, two lists of waiters | write, read, closeWrite, drain | `PipeBuffer`, `ByteStream` |
| processes and pipe ends | `LocalKernel.ts`, `transport/JSPITransport.ts`, `ext/` | table of ends with holder counts, a process table and descriptor table per process | spawn and its end, fd_pipe, proc_spawn, proc_join, fd_read, fd_write, fd_close on pipes | `Kernel` |
| shell pipelines | `packages/shell/src/main.zig` | the stages, their pipes and pids, the last exit code | executePipeline, openRedirect | `Shell` (on `Kernel`) |
| file system in memory | `fs/MemoryFs.ts` | a tree of nodes with bytes | open, mkdir, rmdir, unlink, rename, write, truncate | `MemoryFs`, `FileTree` |
| descriptors and file calls | `fd/`, `syscall/SyscallHandler.ts`, `ext/ExtHandler.ts` | descriptor -> entry with position and owner | path_open, fd_read, fd_write, fd_seek, fd_close, lending in proc_spawn, exit | `Files` |
| OPFS file system | `fs/OpfsFs.ts`, `fs/opfsBackend.ts` | pending calls; open handles, a boot queue; the files the browser keeps | one asynchronous handler per call | `OpfsBackend` |
| worker side of the calls | `worker/` | the loop over a call's iovecs, the guest's buffers | vectored reads and writes, filling of readdir's buffer | `WasiCalls`; readdir in `DirScan` |
| line reader, main loop, builtins | `packages/shell/src/main.zig` | the bytes of an unfinished line, end of file | read a line, run it, prompt, exit | `Terminal` (on `WasiCalls`) |
| terminal | `host-browser/src/app.ts`, `lineDiscipline.ts` | the line being edited | keys, send on Enter, drain to the screen | `Terminal`; the drain also in `Shell` |
| coreutils | `packages/coreutils` | a directory cookie and a stack of directories; std.Io's buffers | scans by rm, cp, ls; copying by cat | `DirScan`; cat in `Terminal`; cat, echo and head as stages in `Shell` |
| parser of lines | `packages/shell/src/main.zig` | none | tokenize, parse | not modelled |
| paths | `fs/Path.ts` | none | normalize, resolve, dirname, basename | not modelled |
| servers, bundling, build | `server.ts`, `bundle.ts`, `build.zig`, ... | none | start-up | not modelled |

(Kernel sources are under `src/packages/kernel/src/`.)

How they interact:

- A guest makes a system call by a message to the kernel and is suspended until the answer
  comes, so a process has at most one call in flight.  `SyscallHandler` and `ExtHandler` run the
  call; on a pipe they call `PipeBuffer`, on a file a `FileHandle`.
- `proc_spawn` returns a pid at once.  The child's `spawnWithEntries` goes on behind it: it
  awaits the file system and the worker, takes references to the write ends it was given, runs
  the guest, and gives the references up when the worker has ended.  The last one to do so closes
  the pipe.  That, and nothing else, is how a reader downstream sees end of file.
- The shell is a guest.  It makes its pipes with `fd_pipe`, spawns the stages, closes its
  descriptors and joins the stages in order.
- `OpfsFs` turns each file system call into a numbered message to a worker.  That worker starts a
  handler for each message, whether or not the handlers before it have ended.
- A guest's `fd_read` and `fd_write` take several buffers.  The shim in its worker makes one
  request of each and stops at the first that comes back short.
- The terminal and the guests meet in two pipes.  A key edits the line in the browser; Enter writes the
  line to stdin without awaiting the write; the shell reads it in chunks; what is written to stdout
  waits in the pipe for the drain.
- `fd_readdir` keeps nothing between two calls but the number that the guest hands back.

Which behaviours are hard, and what would make each part correct:

| part | hard because | correct if |
|---|---|---|
| pipe buffer | waiters are woken by microtasks and find the pipe changed by whoever ran before them; a close overtakes half-done writes | no byte is lost, doubled or out of order; nobody sleeps on a pipe that could serve him; it is a bounded byte stream |
| pipe ends | holders come and go in any order, by start failure and by crash, across awaits | an end is open as long as somebody alive holds it, and closed after |
| join and result | the child leaves the table before it has ended; the result waits for drains | a joined child has let go of everything; a resolved spawn has all the output; it does resolve |
| pipelines | end of file must travel through processes that start late, end early or never start | every pipeline of programs that read to the end does end |
| memory tree | rename relinks nodes onto, over and below others | the nodes stay a tree and every call does what a map from paths to files would do |
| descriptors | a child works on handles of its parent; positions are copied | nobody moves another's position; a handle is closed once, by its owner |
| terminal | lines, reads, iovecs and pipe capacity cut one stream of bytes at unrelated places; two programs read it in turn | every byte typed is read once; lines are run whole and in order; all that is printed is shown; end of input ends the session |
| directory scans | each page is a new listing, of a directory that the scan itself or others change | a scan misses nothing that stays; rm and cp do what they say or fail; a walk stays inside and ends |
| OPFS | what a handler saw is acted on an await later; answers come back in any order; handles are numbers | bytes go only when somebody asked for it; each answer is for him who asked; a handle denotes what was opened |

The places in the code where each of these bites are listed under "hazards" in `PROJECT.json`,
each with the properties that watch it, or with the reason why none does.

## The modules

`ByteStream` and `FileTree` are specifications of what is promised; the others are translations of code.

    ByteStream   <---refines---  PipeBuffer       the pipe, to the microtask
                                     : (justifies: a pipe is its fill level)
                                 Kernel           processes and pipe ends
                                     |  EXTENDS
                                 Shell            pipelines on that kernel

    ByteStream   <...rests on... WasiCalls        vectored calls on two pipes
                                     |  EXTENDS
                                 Terminal         keys, line reader, cat, screen

    FileTree     <---refines---  MemoryFs         the tree in memory
                                 Files            descriptors on either backend
                                 OpfsBackend      the OPFS worker and its client
                                 DirScan          ls, rm -r and cp -r over fd_readdir

**PipeBuffer.**  A macrotask is an action guarded by an empty microtask queue, `jobs`; resolving
a waiter appends a job.  The variables are the fields of `JsPipeBuffer`, a frame per caller for the
locals of `write` and `read`, and two histories (`accepted`, `delivered`) that the code does not
have.  Chunk boundaries are flattened: `copyOut` hides them from readers.  `ByteStream` is
the promise: a queue of at most `Capacity` bytes that writers append to and readers take from, and
that once closed accepts nothing.

**Kernel.**  `spawnWithEntries` is cut at its awaits into the phases opening, running, draining,
done and failed, one action for each step and one for each way to fail.  `ends`, `holders`
and `closed` are the transport's table; `fds` and `children` belong to each process.  A pipe is
reduced to `level`, its fill, and a blocked call is an action that is not enabled:
`ImplementsStream` of `PipeBuffer` is what justifies both.  What a guest calls next is free, so
`Kernel` by itself says what holds for every guest.

**Shell** extends `Kernel`: it takes its actions and decides which calls are made.  `pc` follows
`executePipeline`; a program of the line is a source, a filter that reads to the end, or one that
stops early (head), with its data counted in chunks.  A redirect stands for an open file and
replaces the pipe descriptor, as in the code.

**MemoryFs.**  One action per method, with each errno in the order in which the code tests.
Nodes are objects with identities, so an open handle keeps an unlinked file.  `call` and `answer`
record the last call, so that the refinement can compare answers.  `FileTree` knows no nodes: a
map from paths to directories and files, on which rename is the moving of a set of paths.  Its measure is
POSIX, as `docs/ARCHITECTURE.md:30` claims for the code; where the code departs from it, the module has the departure as a
named exception beside what POSIX says.  There are two: `RefusedOntoItself` (a directory with entries renamed onto itself is
refused with ENOTEMPTY, MemoryFs.ts:127, where POSIX has a success that changes nothing) and a truncate through a
handle that was opened for reading (MemoryFs.ts:191, where POSIX refuses it).
The constant `MayNest` says whether callers may rename a directory below itself.  With
`MayNest = FALSE` everything else is examined; with TRUE `memfs_nest` shows what that call does.

**Files.**  `FdTable`, the entries' positions and owners, and the handles with the number of
times they were closed.  `opfs` is chosen at the start and selects how handles of that backend
behave (exclusive locks; EBADF on a closed handle).  A call is one step although its handler awaits:
the guest is suspended, and no other process can reach its entry (`NoSharedPosition`).

**OpfsBackend.**  One action per await of each handler: the await's effect and the code
up to the next one.  Between two of them the other handlers run.  The browser's side (locks,
`removeEntry`, `move`, permissions) is modelled from how the code uses it and marked external
in the map.  Any await of a handler may fail (`IoFails`: quota, a lock, a vanished parent), and then the `catch` in
`handle` answers EIO.  So may the one await of the boot (`BootFails`), which nothing catches: `refused` then stays true
and no request is answered any more.  The truncate that follows an open's last await may throw after the access
handle was made; the handle then stays open and in no entry (`leaked`).
Calls on an open handle do not await and are done at delivery; write and truncate may throw there and are answered EIO.  `stat`, `read` and
`readdir` change nothing and are left out.

**WasiCalls** has one frame, `call`: the iovecs still to do, where the request for the first of them
stands, what came back, what lies in the guest's buffers and the total.  The guest is suspended, so
there is no second frame.  The pipes are the streams of `ByteStream`.  Because writers that wait for room are served in call
order (`InCallOrder` of `PipeBuffer`), stdin's buffer and the writes queued behind it are one
sequence, `inBuf`, whose first `Capacity` bytes can be read.

**Terminal** extends `WasiCalls` with the line discipline, the shell's `LineReader` and main loop, and the
program a line may start: one that prints, or cat with the buffers of Zig's `std.Io` reader and
writer.  What a line means is left open, so a line may also start nothing or be `exit`.
`entered`, `sent`, `ran`, `ranBytes`, `copied`, `printed` and `screen` are histories; `pending`, `eof`,
`hold`, `ended` and `buffered` are fields of the code.

**DirScan.**  `listing` maps each directory to its entries in the order of MemoryFs's maps.  A scan is a directory, a
cookie and the page being worked through; `stack` and `post` are the lists of the walks in `rm/main.zig`
and `cp/main.zig`.  A name has a length, an entry the length of its header and name, and a page holds the entries
that are whole in the buffer.  Others may create and remove entries at any point.

## The runs

Every constant that bounds something is named in its module; the instances are in the `.cfg` files.

| run | instance | what it shows |
|---|---|---|
| `pipe` | three writers, a guest reader and a drain; capacity 2; writes of 0, 1 and 3 bytes; 4 calls | the pipe refines `ByteStream`; no wake-up is lost; no byte is lost and end of file is final; bytes stand in call order; a call's result tells how many went in; calls return if a drain reads or the pipe is closed |
| `kernel` | a root and two processes, two standard descriptors (so two inherited write ends each), three pipes, any guests within the limits below | a write end's count covers every live holder; a step that closes a pipe leaves no running holder; a join is a barrier; the result is complete, and it arrives unless a failed acquire has left its count on its pipe |
| `kernel_late_acquire` | the same | violation, see below |
| `shell` | two lines of nine kinds, up to three stages, pipes of one chunk, programs absent, redirects anywhere, starts that fail | end of file means that the writer is done; a pipeline is a barrier; a line of programs that read to the end does end |
| `shell_head_hangs` | `echo \| head`, three chunks | violation, see below |
| `memfs_tree` | four nodes, two names, depth 2, files of up to two bytes of two values, all offsets | one name per node, nothing falls out of the tree, each call is the call of `FileTree`, writes and truncates through handles that outlive the name included |
| `memfs_nest` | depth 3, `MayNest` | violation, see below |
| `files_safety` | a shell and a child, one file, both backends | private positions, one owner per handle, stable descriptors |
| `files_append` | the same, append only | violation, see below |
| `opfs` | two guests, three calls from ten kinds and those on handles; two trees of a directory and a file left by an earlier session; with and without `move()`; before and after the boot, or with a boot that is refused | answers go to who asked; handles denote what was opened; bytes go only as asked, with two calls excepted; every call is answered, unless the boot was refused |
| `terminal` | up to five bytes typed over two letters and newline, pipes of two bytes, a line reader's chunk of three, cat's of two and buffers of one | every byte typed is read once, by the shell or by the program it runs; lines are run whole and in order; the screen shows what was printed; each line is run and end of input ends the session |
| `dirscan` | three names, one of them too long for a page; pages of one entry; five changes by others before or during one ls, rm -r or cp -r | ls and cp miss nothing that stays; rm alone succeeds if a directory fits a page; a walk stays inside, and ends, unless it is a cp that traps |

Why the bounds are enough.  In `pipe`, three writers on two bytes is the least at which a woken
writer can find the space taken by another while a third still sleeps; a write of three bytes
needs two rounds, one of zero bytes returns without waiting.  In `kernel` a
parent, a child and a grandchild or sibling are enough to share, hand on and outlive an end; with two
write ends and three pipes, a child's acquire can fail on its second end with the first already counted.  The guests of
`MCKernel` keep the number of a descriptor they hand on, unless it comes from `fd_pipe`, have files on descriptor 1 only, close nothing, and read and write at
standard descriptors only, which for a child may be the ends of an `fd_pipe`: `fd_close` takes an entry from the caller's own
table and does nothing else to a pipe.  The run of `Shell` closes descriptors too.  `memfs_tree` needs four nodes for a rename over a directory
that is not empty.  In `files_safety` two entries on two handles are enough to confuse them.  In
`opfs` two handlers overlap while the third call is one on a handle, or one that came in during the boot.
In `terminal` every two of the sizes (line, pipe, chunk, buffer) are out of step, and five bytes make a line over two reads,
two lines in one, and one typed ahead of a program; a smaller pipe would never hold two of them.
In `dirscan` a page holds one entry, so that a directory of two takes three calls with changes in
between, and two levels of directories are what the walks' two stacks need.
`memfs_tree` has a `VIEW` that leaves out the history of the last call: two states with the
same tree differ in nothing that a later step reads.
Deadlock is not checked anywhere: guests may stop, and the counters of calls and objects run
out.  The liveness properties do that work.

### What the violations show

1. `kernel_late_acquire`: a child counts as a holder of the pipe ends it inherits only after
   `await opendir('/')` in `spawnWithEntries`.  If the parent exits in between, the pipe is closed under the child.
   `NoHolderForgotten` is what does hold: no *running* holder is forgotten.
2. `shell_head_hangs`: readers are not counted.  A writer blocked on a full pipe, whose reader has
   stopped, waits for ever, and the shell with it.
3. `memfs_nest`: `rename /x /x/x` succeeds and cuts the directory off the tree.
4. `files_append`: `>>` opens with the append flag, which no part of the kernel looks at; the
   write starts at the descriptor's position.  In the trace a positional write puts a byte into the file and the next
   `fd_write` overwrites it from position 0; so does the first write after a second open for append.

Also seen in the models, and not made into a run of their own.  Where one of them would break a property, the property
names it as an exception, and the run reaches it:

- `echo a > f | cat` never ends (a redirect replaces the descriptor, and nobody closes the pipe);
  `PipelineEnds` is about lines without such a redirect;
- a start that fails before its `try` leaves the ends that the child was to hold open for ever
  (`NotStarted` in `PipelineEnds`);
- an acquire that fails in the middle of its loop (LocalKernel.ts:92-96, before the `try`) keeps the counts of those before it.  The
  result of the parent that captured such an end never arrives: without the exception `LeftBehind`, `ResultArrives` fails
  in the run, though Transport.ts:24 says that an acquire is balanced;
- `fd_close` on an end that is not held closes nothing, so a reader waits for the exit of the process;
- handles of a guest that exits are never closed, which on OPFS locks the file;
- OPFS writes through a descriptor opened for reading, MemoryFs refuses;
- MemoryFs refuses to rename a directory with entries onto itself and truncates through a handle opened for reading; both
  are against `docs/ARCHITECTURE.md:30` (the two exceptions of `FileTree`);
- numbers of descriptors are not used again: `FdTable` only counts up.  `docs/ROADMAP.md:278` lists, among property tests,
  "freed fds eventually reused".  `DescriptorsAreStable` takes no side and is about descriptors that are open;
- on OPFS two concurrent mkdirs of a path both succeed;
- an OPFS rmdir removes by name, an await after its look, and takes a file that has come to the directory's place
  (opfsBackend.ts:216-221; `RmdirFindsAFile` in `BytesGoOnlyAsAsked`);
- on OPFS without `move()`, renaming a file onto itself removes it (opfsBackend.ts:275-280; `RenamedOntoItself`);
- an open for truncation whose truncate throws (opfsBackend.ts:147) leaves an access handle that nobody can close;
- a `getDirectory` that rejects (opfsBackend.ts:83) leaves all calls unanswered (`refused` in `EveryCallIsAnswered`);
- `docs/ROADMAP.md:211` and `:224` and `cp.test.ts:38-42` say that cp's error returns trap, through an unreachable stub of the build, that
  `proc_join` then never returns and that later commands hang.  cp's source ends them with exit 1.  `DirScan` has both
  outcomes (`CpFails`), and `WalkEnds` says nothing of a cp that traps (`CpTrapped`).  The kernel's own code does
  return from that join: a worker that fails is `Crash` of `Kernel`, after which the spawn rejects and
  `JoinReturns` is enabled.  If a join hangs all the same, the worker has
  reported neither exit nor error, which the models do not have;
- `rm -r` of a directory that needs more than one page fails, because it unlinks what it lists
  (rm/main.zig:148): `docs/ROADMAP.md:210` lists tree removal via `fd_readdir` without that limit.  `RmAlone` is about directories that fit a page.

### Fairness

Safety is checked under `Spec` or `FairSpec` alike.  Liveness uses weak fairness only, and
only for what the platform promises.

- `pipe`: a queued microtask runs; a drain that was attached starts.  Nothing is assumed of the
  guests, so `CallsReturn` says that a writer returns if a drain reads, and that all calls return once
  the pipe is closed.
- `kernel`: `drainBuffer`'s loop goes on, a worker that has ended is noticed, a settled join
  returns.  Guests need do nothing: `ResultArrives` begins where nobody alive holds the output and no failed acquire has left its count on it.
- `shell`: the shell and the stages run when they can (they are compiled loops with no other wait
  than a system call), the kernel's promises settle and the host drains its terminal.  No user
  has to type.  `PipelineEnds` makes an exception for a start that failed, after which the
  pipeline may hang, see above.
- `opfs`: messages are delivered, `getDirectory` settles (`Boot` or `BootFails`), and each awaited operation of the browser
  settles, with success or with failure.  Nothing more: neither the boot nor a handler needs a success.
- `terminal`: the event loop serves requests and drains stdout, and the shell and the program run.  Nobody
  has to type, to press Enter or to close the input.
- `dirscan`: the command runs on.  The others need do nothing, and may do nothing but five changes;
  without that bound somebody who adds entries for ever would keep a scan from ending.

## The proofs

The theorems hold for every value of the constants that the named assumptions allow
(`PipeAssumption`, `KernelAssumption`, `ShellAssumption`, `MemoryFsAssumption`, `FilesAssumption`,
`OpfsAssumption`, `WasiCallsAssumption`, `TerminalAssumption`, `DirScanAssumption`): types of the constants; finiteness of `Proc`
and of `Node`; that the root is one of the nodes, and that no node is taken for an errno or for the word
"directory"; that the trees a run of `OpfsBackend` starts from are trees; that names have a length.  Two theorems
about `MemoryFs` have a hypothesis of their own, `~MayNest`: that no directory is moved below itself.  The code
allows it, `ImplementsTree` is false then, and the run `memfs_nest` shows how.

- **PipeBufferProofs.**  `TypesHold`, `SizeIsExact`, `NoWakeupIsLost`, `NothingIsLost`, `EndIsFinal`,
  `ClosedPipeIsFrozen`, `RefinesStream`.  Each of them needs the
  others: a wake-up is not lost because the counter is right, the counter is right because a round
  never writes past its call.  So `IInv` is their conjunction with the types of all frames
  and `FramesFit` (no writer has written more than its call).  A write round and a read
  round are a lemma each, with what they need to know about concatenation and sub-sequences;
  each action is one of these rounds, or a close, or a wait.  The refinement maps the
  buffered chunks and the closed flag to the stream's and uses `IInv` in both states.
  In the same module `ResultsTellBytes`: `Queued` says that a blocked call stands once among the waiters and
  the jobs together, and is half-way; `Counted` that each number of a call belongs to one writer and that the
  bytes of that number in the stream are those its frame counts.  And `CallsAreInOrder`: it is not obvious that
  several readers cannot mix the writers up, since one that ran between two woken writers would put those who wait
  again behind the second.  `Few` rules it out: a writer blocks on a full pipe, on which no reader waits, so while
  two writers are blocked the only reader about is one drain, queued behind both.  `InLine` is the order of
  jobs and waiters (who waits again goes before who was woken and has not run), and `Reached` says that the
  stream has come no further than each of them.
- **KernelProofs.**  `TypesHold`, `NoHolderIsForgotten`, `ClosedByTheLast`, `ResultsAreComplete`,
  `JoinsAreBarriers`.  The first invariant is
  `TypeInvariant /\ NoHolderForgotten`: holders[k] is at least the number of live processes
  that list k among their ends.  It is an inequality because the code leaks counts on a failed
  start; the lemmas count finite sets before and after a process joins or leaves.  That a closing
  step has no live holder left follows from the same inequality: it closes at 0.  On it rest two
  more: `Captured` (a pipe that a spawn captures is being drained, or is closed and empty, and a
  drain ends in no other way) gives `ResultIsComplete`; `Barrier` (a child that nobody registers or waits for has
  failed or is done, and who is done has released his ends) gives `JoinIsBarrier`.  The ends that a failed acquire leaves behind belong to a
  process that is not alive, so the inequality is untouched by them.
- **ShellProofs.**  `NothingStraggles`: `NoStragglers`, for lines of any length.  The shell's steps are steps of the kernel
  (and a drain by the host), so the kernel's `IInv` holds under it; the steps of the programs and of the event loop
  leave the shell's own entries alone (`Aside`).  What remains is the shell's bookkeeping, as an invariant `SInv` at each
  place of executePipeline: who has been started and not joined are the pids from `done` on, and they are the shell's
  children (`Family`); its descriptors are the standard ones and the pipe ends from `done` on, all
  different and none below 16 (`Descriptors`).  At the prompt both lists are empty.
  `ShellKeepsTypes` and `EofIsTheEnd` need where the data is, `Flow`: `Mid(i)` names the pipe between the
  i-th stage and the next, and `Stream` says of each of them that what was sent is what was got and what is in
  the pipe, that it is closed only when its writer has ended, and that the terminal's own pipes stay open while
  the shell runs.  That a filter found the end then means that its pipe is closed and empty.
- **MemoryFsProofs.**  `TypesHold`, `NothingHasTwoNames`: each method adds an entry for a
  fresh node, removes an entry, or moves one; a lemma for each of the three, and a lemma that
  `Lookup` ends at a node.  With that `TypeInvariant /\ OneName` is inductive.
  `NothingIsOrphaned`: `Located` goes down the tree level by level, which induction over the levels turns into
  `Rooted`, that every set that has the root and what its directories list has every entry; that form is
  kept by an added, a removed and a moved entry.  `ImplementsTheTree`: every node that is listed has one path
  (`Leads`, `OnePath`), so `Listing` is the map from paths to what they lead to; `AddsLeads`, `RemovesLeads` and
  `MovesLeads` say how an entry that comes, goes or moves changes the paths (after a move, r leads to what
  `Was(from, to, r)` led to), and each method is then compared with `FileTree`'s operation case by case, the errors by
  one lemma about what is wrong with a parent; the two exceptions of `FileTree` are cases of their own.  The invariant is `RInv == IInv /\ Blank`.
- **FilesProofs.**  `TypesHold`, `PositionsArePrivate`, `HandlesAreClosedOnce`.  `OwnSlots`
  (an entry is that of its own slot, below `nextFd`) gives privacy of positions at once; `OneOwner` (two entries that
  own one handle are one entry; an owned handle is not closed) is what keeps a handle from being closed twice.
  `DescriptorsStay`, an action property, needs the first of them: a slot is fresh because all descriptors in use are below `nextFd`.
- **OpfsBackendProofs.**  `AnswersReachTheirCall`, `HandlesKeepTheirFile`.  A request is in one of four places
  (`InOnePlace`: wire, boot queue, handlers, replies), and in each of them it is still the message that
  who waits for it asked (`AsWasAsked`).  `Booting` says that before the boot nothing is handled, so that
  draining the queue starts no handler twice.  `Handles` says of each handle given out, or on its way in a
  reply, that its number is below `nextId` and that an entry under that number, if there is one, is what was opened: entries go but never
  change, and numbers are not used again.  The seventeen steps of the handlers are reduced to
  three kinds first (goes on, answers, answers with a new handle), and each kind is proved once.
  `OpfsStaysATree` and `BytesAreKept` rest on `TreeInv`: directories and files are a tree (`IsTree`), an open
  access handle is on a file (`OpenedAreFiles`), one that leaked too (`LeakedAreFiles`), and so is the target of a copy that is under way
  (`WrittenAreFiles`: the handler holds its lock, so nobody can have removed it in between).  Whoever looked
  before the await may have seen something else; what the step does it does to what is there now.  That a rename of a file onto itself
  costs its bytes only without `move()` needs `MovesIfItCan`: a handler that copies runs where there is none.  The two exceptions of
  `BytesGoOnlyAsAsked` are in the theorem as they are in the run.
- **TerminalProofs.**  `TerminalKeepsTypes`, `EveryByteIsReadOnce`, `ScreenShowsAll`, `LinesRunWhole`, for all
  alphabets, prompts, outputs and sizes.  `CallInv` is the frame of the call in progress (`ReadFrame`: until
  a buffer comes back short the count is all that was laid out, and an answer of nothing is the end of the input;
  `WriteFrame`: what was put into the pipe is the start of the slice it is on).  `Control` says who may be in which call at each place of the session, and when a program is
  known to have found the end (`Dry`: stdin is closed and empty): the reading of what was typed is in order
  because the shell gets nothing after a cat that copied something and ended.  Each step then moves
  bytes from one place to the next or leaves them, which is an equation between concatenations.
  `LinesAreWhole` needs more than itself: `LinesInv` says that what was sent is the lines entered with a newline after
  each, up to where a close cut it, and that what the shell made lines of is a whole number of them.  What it
  has not made a line of then starts with the next line that was entered (`NextLine`), so its first newline is that
  line's (`FirstLine`), however many reads brought it.
- **DirScanProofs.**  `ListingsStayATree`, `WalksStayInside`, `EntriesAreListedOnce`, `CopiesAreComplete`, `RemovesAll`, for trees, names,
  buffers and numbers of changes of any size, renames left out.  `WInv` is the tree (`IsTree`, in the form "has an entry of that name"
  rather than by index), what each place of the walks requires of the stack and the page (`Control`), and that what is on
  rm's stack or in post_dirs is below its operand (`Inside`).  A lemma each says what an entry that is added, or removed,
  does to the tree and to what is there under every path.  `NothingGone`: while nothing is removed each listing
  only grows at its end; so a cookie stays where it was, and `LsInv` says that what ls has printed and the page it has read are
  together the first entries of its directory.  `CpInv` is a cover: each directory that was below the source is on the stack (or below
  one that is), or ahead in the open directory (below an entry at or after the cookie), or `Done`: at the destination, with its files.
  Once nothing is ahead and the stack is empty, all are done.  That an empty page is the end of a directory needs that every entry
  fits the buffer, and there it needs the sizes: `Sizes` proves of the recursive `Size` what the shim's packing relies on.
  `RmInv`, for an rm that is alone: what is below a path on the stack is as it was (`Intact`), no such path is above
  one of post_dirs, and its parent is one of them (`OnStack`), so of two paths on the stack none is above the other; what a directory of
  post_dirs still lists is a directory on the stack or later in post_dirs (`InPost`); and the open directory lists what is left of the page and what
  has been put on the stack (`InScan`).  The last of post_dirs is then empty when the stack is.

Recursive functions (`NonEmpty`, `Size`, the community module's `FlattenSeq`) are no obstacle: `NatSetInduction`, induction for
a set of numbers, follows from what the library proves of finite sets and needs no operator as a parameter; with it
`Recursion` shows that a function defined by its value one step before exists, and `Joins` that
`FlattenSeq` is one.

Only model-checked:

- liveness (`CallsReturn`, `ResultArrives`, `PipelineEnds`, `EveryCallIsAnswered`, `EveryLineRuns`,
  `CloseEndsSession`, `WalkEnds`): fairness and ENABLED are beyond the prover.

Every invariant of the runs is now a theorem, and every action property and refinement; two of them under a hypothesis
of their own (`~MayNest`, above).

## The plan

In the order of how much of the system's behaviour rests on each:

1. done: `PipeBuffer` with `ByteStream`; `Kernel`; `Shell` on it; `MemoryFs` with `FileTree`;
   `Files`; `OpfsBackend`; `WasiCalls` and `Terminal`; `DirScan`; the proofs above.
2. Proofs: none of the properties is left that the prover can reach.
3. `Path`: normalize, resolve, dirname, basename and split as operators against a reference definition by folds.
4. Runs of their own for behaviours that are exceptions of a property now: mkdir twice, rename onto itself and the removed file on
   OPFS, the end left behind in `Kernel`, a removal of several pages in `DirScan`.
5. File contents in `DirScan`, for cp of a file onto itself, and renames by the others.

## Not modelled, and why

The shell's `tokenize`, `parsePipeline` and `cd`, and `fs/Path.ts`: sequential functions of one string, without state
of their own.  In `Terminal` the echo of keys, escape sequences and the decoding of bytes into characters; stderr,
which is a second stream like stdout.  In `DirScan` what files hold, renames by others, and cp into a
directory below its source, which never ends (the tree has no bound then).  Calls of the WASI shim other
than those on streams and directories, which are one message and one answer each.
Formatting, logging, times and permissions bits; the encodings of the WASI structures (pure
functions of one message); the browser's storage below its interface (a full disk is "any await may fail");
start-up and wiring code, servers and bundling, which keep no state after they ran; the build scripts.
Web workers' message channels are taken as reliable and ordered, which is what the platform says of them.
A guest's memory is its own and is not modelled; it meets the kernel only in the calls.
