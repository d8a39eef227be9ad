------------------------------- MODULE Shell -------------------------------
(* The shell's executePipeline and the programs it runs, on the kernel of    *)
(* module Kernel: what a user sees of a command line.                        *)
(*                                                                           *)
(* Root is the shell.  A program is what its reads and writes make of it: a  *)
(* source (echo, or cat of a file), a filter that reads to end of file       *)
(* (cat), one that stops at what it wanted (head), or a binary that is not   *)
(* there.  Data is counted in chunks.                                        *)
EXTENDS Kernel, Sequences

CONSTANTS
    Lines,          \* the command lines a user may type: sequences of Stage
    MaxLines,       \* bound on the number of lines typed
    Chunks,         \* what a source produces
    MayNotStart     \* the programs at whose start opendir('/') may reject

Stage == [prog : {"echo", "cat", "head", "absent"},
          in   : {"inherit", "file", "missing"},
          out  : {"inherit", "file"}]

NoStage == [prog |-> "none", in |-> "inherit", out |-> "inherit"]

ASSUME ShellAssumption ==
    /\ Lines \subseteq Seq(Stage) \ {<<>>}
    /\ MaxLines \in Nat
    /\ Chunks \in Nat \ {0}
    /\ MayNotStart \subseteq {"echo", "cat", "head", "absent"}
    /\ {0, 1} \subseteq Std
    /\ HostFds = Std

VARIABLES
    pc,         \* where the shell stands in executePipeline
    typed,      \* lines typed so far
    line,       \* the stages of the pipeline
    reads,      \* pipe_reads
    writes,     \* pipe_writes
    pids,       \* pids
    done,       \* how far the loop at pc has come
    last_exit,  \* last_exit
    stage,      \* the stage each process runs
    pending,    \* chunks a program has to write before it reads again
    ended,      \* it reads no more
    took,       \* chunks it has read
    moved,      \* chunks it has written
    code        \* its exit code

shellVars == <<pc, typed, line, reads, writes, pids, done, last_exit>>
progVars  == <<stage, pending, ended, took, moved, code>>
allVars   == <<vars, shellVars, progVars>>

ShellInit ==
    /\ Init
    /\ pc = "boot"
    /\ typed = 0
    /\ line = <<>>
    /\ reads = <<>> /\ writes = <<>> /\ pids = <<>>
    /\ done = 0
    /\ last_exit = 0
    /\ stage = [p \in Proc |-> NoStage]
    /\ pending = [p \in Proc |-> 0]
    /\ ended = [p \in Proc |-> FALSE]
    /\ took = [p \in Proc |-> 0]
    /\ moved = [p \in Proc |-> 0]
    /\ code = [p \in Proc |-> 0]

-----------------------------------------------------------------------------
(* The shell.                                                                *)

At(where) == pc = where /\ Calling(Root)

Boot ==
    /\ pc = "boot"
    /\ Start(Root)
    /\ pc' = "prompt"
    /\ UNCHANGED <<typed, line, reads, writes, pids, done, last_exit, progVars>>

Unborn == {p \in Proc \ {Root} : phase[p] = "unborn"}

\* runLine: the line is parsed.  n - 1 pipes come first.  The last two guards are the
\* bounds of the instance.
Types(l) ==
    /\ At("prompt")
    /\ typed < MaxLines
    /\ Len(l) <= Cardinality(Unborn) /\ made + Len(l) - 1 <= MaxPipes
    /\ typed' = typed + 1
    /\ line' = l
    /\ reads' = <<>> /\ writes' = <<>> /\ pids' = <<>>
    /\ pc' = IF Len(l) > 1 THEN "piping" ELSE "spawning"
    /\ UNCHANGED <<vars, done, last_exit, progVars>>

MakesPipe ==
    /\ At("piping")
    /\ FdPipe(Root)
    /\ reads' = Append(reads, nextFd[Root])
    /\ writes' = Append(writes, nextFd[Root] + 1)
    /\ pc' = IF Len(reads') = Len(line) - 1 THEN "spawning" ELSE pc
    /\ UNCHANGED <<typed, line, pids, done, last_exit, progVars>>

\* The descriptors of stage i: the shell's own at the two ends, the pipes between.
StdinFd(i) == IF i = 1 THEN 0 ELSE reads[i - 1]
StdoutFdOffByOne(i) == IF i = Len(line) THEN 1 ELSE writes[1]
StdoutFd(i) == IF i = Len(line) THEN 1 ELSE writes[i]

Files(s) == {f \in {0} : s.in # "inherit"} \union {f \in {1} : s.out # "inherit"}

\* A program is a source when what it reads is a file, or nothing.
IsSource(s) == s.prog = "echo" \/ s.in = "file"

\* openRedirect and proc_spawn, for the next stage.  proc_spawn refuses only a parent
\* descriptor that is not open (ExtHandler.ts:43); those passed here are the standard ones,
\* the pipes just made and the file just opened.  So the branch that records a refusal
\* (lines 485-490) is not taken, and a program that is missing is found at its start.
SpawnsStage ==
    LET i == Len(pids) + 1
        s == line[i]
        q == CHOOSE p \in Unborn : TRUE
        fdmap == [f \in Std \ Files(s) |->
                     IF f = 0 THEN StdinFd(i) ELSE IF f = 1 THEN StdoutFd(i) ELSE f]
    IN  /\ At("spawning")
        /\ s.in # "missing"
        /\ ProcSpawn(Root, q, fdmap, Files(s))
        /\ pids' = Append(pids, q)
        /\ stage' = [stage EXCEPT ![q] = s]
        /\ pending' = [pending EXCEPT ![q] = IF IsSource(s) THEN Chunks ELSE 0]
        /\ ended' = [ended EXCEPT ![q] = IsSource(s)]
        /\ pc' = IF i = Len(line) THEN IF i > 1 THEN "closing" ELSE "joining" ELSE pc
        /\ UNCHANGED <<typed, line, reads, writes, done, last_exit, took, moved, code>>

\* `try openRedirect`: the error leaves main, with the stages before this one running.
RedirectFails ==
    /\ At("spawning")
    /\ line[Len(pids) + 1].in = "missing"
    /\ Exit(Root)
    /\ pc' = "dead"
    /\ UNCHANGED <<typed, line, reads, writes, pids, done, last_exit, progVars>>

ClosesPipeFd ==
    LET all == reads \o writes
    IN  /\ At("closing")
        /\ FdClose(Root, all[done + 1])
        /\ done' = IF done + 1 = Len(all) THEN 0 ELSE done + 1
        /\ pc' = IF done + 1 = Len(all) THEN "joining" ELSE pc
        /\ UNCHANGED <<typed, line, reads, writes, pids, last_exit, progVars>>

\* proc_join, pipeline order.
Joins ==
    /\ At("joining")
    /\ ProcJoin(Root, pids[done + 1])
    /\ UNCHANGED <<shellVars, progVars>>

LastJoinedEarly(n) == n + 1 >= Len(pids)
LastJoined(n) == n = Len(pids)

\* The child's exit code, or 1 for an error.
StatusOf(q) == IF phase[q] = "failed" THEN 1 ELSE code[q]
LastExit(q) == StatusOf(q)

\* Back at the prompt, the files of the redirects are closed too (line 511).  They are opened
\* and closed within a line and never in `fds`, which has the pipe ends.
Joined ==
    /\ pc = "joining"
    /\ JoinReturns(Root)
    /\ last_exit' = LastExit(op[Root].child)
    /\ done' = IF LastJoined(done + 1) THEN 0 ELSE done + 1
    /\ pc' = IF LastJoined(done + 1) THEN "prompt" ELSE pc
    /\ UNCHANGED <<typed, line, reads, writes, pids, progVars>>

\* `exit`, or end of file on the shell's input.
ShellExits ==
    /\ At("prompt")
    /\ Exit(Root)
    /\ pc' = "dead"
    /\ UNCHANGED <<typed, line, reads, writes, pids, done, last_exit, progVars>>

ShellRuns ==
    \/ Boot \/ MakesPipe \/ SpawnsStage \/ RedirectFails
    \/ ClosesPipeFd \/ Joins \/ Joined

-----------------------------------------------------------------------------
(* The programs.                                                             *)

Program(p) == stage[p].prog
IsFile(p, fd) == fd \in Files(stage[p])

Reads(p) ==
    /\ Program(p) # "absent"
    /\ pending[p] = 0 /\ ~ended[p]
    /\ FdRead(p, 0)
    /\ UNCHANGED progVars

\* The answer: chunks to write, or end of file.  head wants one and stops.
ReadAnswered(p) ==
    LET n == level[op[p].pipe] - level'[op[p].pipe]
        wanted == IF Program(p) = "head" /\ n > 0 THEN 1 ELSE n
    IN  /\ ReadReturns(p)
        /\ pending' = [pending EXCEPT ![p] = wanted]
        /\ ended' = [ended EXCEPT ![p] = n = 0 \/ Program(p) = "head"]
        /\ took' = [took EXCEPT ![p] = @ + n]
        /\ UNCHANGED <<stage, moved, code>>

Writes(p) ==
    /\ Program(p) # "absent"
    /\ pending[p] > 0
    /\ ~IsFile(p, 1)
    /\ FdWrite(p, 1)
    /\ UNCHANGED progVars

\* A write to a file is answered by the file system.
WritesFile(p) ==
    /\ Calling(p)
    /\ Program(p) # "absent"
    /\ pending[p] > 0
    /\ IsFile(p, 1)
    /\ pending' = [pending EXCEPT ![p] = @ - 1]
    /\ moved' = [moved EXCEPT ![p] = @ + 1]
    /\ UNCHANGED <<vars, stage, ended, took, code>>

\* A write that succeeds.  One that failed would end the program with exit code 1.
WriteAnswered(p) ==
    /\ WriteReturns(p)
    /\ LET ok == ~closed[op[p].pipe]
       IN  /\ pending' = [pending EXCEPT ![p] = IF ok THEN @ - 1 ELSE 0]
           /\ moved' = [moved EXCEPT ![p] = IF ok THEN @ + 1 ELSE @]
           /\ ended' = [ended EXCEPT ![p] = @ \/ ~ok]
           /\ code' = [code EXCEPT ![p] = IF ok THEN @ ELSE 1]
    /\ UNCHANGED <<stage, took>>

Exits(p) ==
    /\ Program(p) # "absent"
    /\ pending[p] = 0 /\ ended[p]
    /\ Exit(p)
    /\ UNCHANGED progVars

\* The runner cannot fetch or compile the binary.
NotThere(p) ==
    /\ Program(p) = "absent"
    /\ Crash(p)
    /\ UNCHANGED progVars

StageRuns(p) ==
    /\ p # Root
    /\ \/ Reads(p) \/ ReadAnswered(p) \/ Writes(p) \/ WritesFile(p) \/ WriteAnswered(p)
       \/ Exits(p) \/ NotThere(p)
    /\ UNCHANGED shellVars

-----------------------------------------------------------------------------
KernelRuns(p) ==
    /\ \/ p # Root /\ (Start(p) \/ AcquireFails(p))
       \/ Finish(p)
    /\ UNCHANGED <<shellVars, progVars>>

\* drainToTerminal takes what the host's output pipes hold.
HostDrains(f) ==
    /\ f \in HostFds \ {0}
    /\ level[HostPipe(f)] > 0
    /\ level' = [level EXCEPT ![HostPipe(f)] = 0]
    /\ UNCHANGED <<made, ends, holders, closed, drain, procVars>>

HostRuns ==
    /\ HostSpawn \/ \E f \in Std : HostDrains(f)
    /\ UNCHANGED <<shellVars, progVars>>

StageStartFails(p) ==
    /\ p # Root
    /\ Program(p) \in MayNotStart
    /\ StartFails(p)
    /\ UNCHANGED <<shellVars, progVars>>

ShellNext ==
    \/ \E l \in Lines : Types(l)
    \/ ShellExits
    \/ ShellRuns
    \/ \E p \in Proc : StageRuns(p) \/ KernelRuns(p) \/ StageStartFails(p)
    \/ HostRuns

ShellSpec == ShellInit /\ [][ShellNext]_allVars

\* The programs run, the event loop runs, and the host drains its terminal; nobody has to
\* type, and nothing has to fail.
ShellFairSpec ==
    /\ ShellSpec
    /\ WF_allVars(ShellRuns) /\ WF_allVars(HostRuns)
    /\ \A p \in Proc : WF_allVars(StageRuns(p)) /\ WF_allVars(KernelRuns(p))

-----------------------------------------------------------------------------
(* Properties.                                                               *)

\* The types of the shell's and the programs' state; a filter holds at most a pipeful.
ShellTypes ==
    /\ pc \in {"boot", "prompt", "piping", "spawning", "closing", "joining", "dead"}
    /\ typed \in 0..MaxLines
    /\ line \in Seq(Stage)
    /\ Len(reads) = Len(writes) /\ Len(reads) < Len(line) + 1
    /\ pids \in Seq(Proc \ {Root}) /\ Len(pids) <= Len(line)
    /\ stage \in [Proc -> Stage \union {NoStage}]
    /\ took \in [Proc -> Nat] /\ moved \in [Proc -> Nat]
    /\ pending \in [Proc -> Nat]
    /\ \A p \in Proc : pending[p] <= IF IsSource(stage[p]) THEN Chunks ELSE Capacity
    /\ ended \in [Proc -> BOOLEAN]
    /\ last_exit \in {0, 1} /\ code \in [Proc -> {0, 1}]

Ended(p) == phase[p] \in {"draining", "done", "failed"}

\* End of file means that the writer is gone and that everything it wrote was read: a
\* filter of the line stops reading only then, and its writer's output goes to nobody else.
EofMeansDone ==
    \A i \in 1..Len(pids) - 1 :
        LET up == pids[i]  down == pids[i + 1]
        IN  ended[down] /\ Program(down) = "cat" /\ ~IsFile(up, 1) /\ ~IsFile(down, 0) =>
                Ended(up) /\ took[down] = moved[up]

\* A pipeline is a barrier: back at the prompt no process of any line is alive or can still
\* be joined, and the shell has no descriptor left but those it started with.
NoStragglers ==
    pc = "prompt" =>
        /\ \A p \in Proc \ {Root} : phase[p] \in {"unborn", "done", "failed"}
        /\ children[Root] = {}
        /\ DOMAIN fds[Root] = Std

\* Its first stage produces, the others read what it produces to the end.
ReadToTheEnd(l) ==
    /\ IsSource(l[1]) \/ l[1].prog = "absent"
    /\ \A i \in 2..Len(l) : l[i].prog = "cat" /\ l[i].in = "inherit"
    /\ \A i \in 1..Len(l) - 1 : l[i].out = "inherit"

NotStarted(p) == phase[p] = "failed" /\ Program(p) # "absent"

\* A pipeline of programs that read to the end comes to an end, whatever was typed before
\* it, unless opendir('/') failed: then the ends its child was to hold stay open for ever.
PipelineEnds ==
    pc = "spawning" /\ ReadToTheEnd(line) ~> pc = "prompt" \/ \E p \in Proc : NotStarted(p)

\* A pipeline ends, whatever its programs do: the shell comes back to its prompt.
EveryPipelineEnds == pc = "spawning" ~> pc = "prompt"
=============================================================================
