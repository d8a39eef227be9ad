---------------------------- MODULE ShellProofs ----------------------------
(* For any number of processes and lines of any length: a command line       *)
(* leaves nothing behind (the shell joins every process it started and       *)
(* closes every pipe end it made before it prompts again), and end of file   *)
(* means the end (a filter that reads no more has all its writer wrote).     *)
EXTENDS Shell, KernelProofs, SequenceTheorems

Distinct(f) == \A i, j \in DOMAIN f : f[i] = f[j] => i = j
Within(f, top) == \A i \in DOMAIN f : f[i] \in 16..top
Elements(f) == {f[i] : i \in DOMAIN f}

\* The processes of the line that are not joined.
Open ==
    IF pc = "joining" THEN {pids[i] : i \in done + 1..Len(pids)}
    ELSE IF pc \in {"spawning", "closing"} THEN Elements(pids)
    ELSE {}

\* The ends of the line's pipes that are not closed, in the order they are closed.
All == reads \o writes
Held ==
    IF pc = "closing" THEN {All[i] : i \in done + 1..Len(All)}
    ELSE IF pc \in {"piping", "spawning"} THEN Elements(All)
    ELSE {}

\* How far executePipeline has come.
Stand ==
    /\ line \in Seq(Stage) /\ done \in Nat
    /\ pids \in Seq(Proc \ {Root})
    /\ reads \in Seq(Nat) /\ writes \in Seq(Nat) /\ Len(reads) = Len(writes)
    /\ pc \in {"boot", "prompt", "piping", "spawning"} => done = 0
    /\ pc = "piping" => pids = << >> /\ Len(reads) + 1 < Len(line)
    /\ pc = "spawning" => Len(pids) < Len(line) /\ Len(reads) + 1 = Len(line)
    /\ pc = "closing" => Len(pids) > 0 /\ done < Len(reads) + Len(writes)
    /\ pc = "joining" => done < Len(pids)

\* Who was started and is not joined is one of the line's processes, and the shell's child.
Family ==
    /\ \A p \in Proc \ {Root} : phase[p] \in {"unborn", "done", "failed"} \/ p \in Open
    /\ \A i \in DOMAIN pids : phase[pids[i]] # "unborn"
    /\ Distinct(pids)
    /\ children[Root] = IF pc = "joining" /\ op[Root].call = "join"
                        THEN Open \ {op[Root].child} ELSE Open
    /\ pc = "joining" /\ op[Root].call = "join" => op[Root].child = pids[done + 1]
    /\ pc \in {"piping", "spawning"} => Cardinality(Unborn) >= Len(line) - Len(pids)

\* The shell's descriptors are those it started with and those of the line's pipes.
Descriptors ==
    /\ nextFd[Root] >= 16
    /\ Within(All, nextFd[Root] - 1) /\ Distinct(All)
    /\ pc # "boot" => DOMAIN fds[Root] = Std \union Held

\* The host starts the shell with all its descriptors.
Boots ==
    /\ pc = "boot" =>
          /\ phase[Root] \in {"unborn", "opening"}
          /\ phase[Root] = "opening" => DOMAIN merged[Root] = Std
    /\ pc # "boot" => phase[Root] = "running"

Working == {"boot", "prompt", "piping", "spawning", "closing", "joining"}

Works == pc \in Working /\ Stand /\ Family /\ Descriptors /\ Boots

SInv == IInv /\ (pc = "dead" \/ Works)

-----------------------------------------------------------------------------
(* What the shell does to the kernel are the kernel's steps, and the host's. *)

LEMMA HostDrainsKeeps ==
    ASSUME KernelAssumption, IInv, NEW f, HostDrains(f)
    PROVE  IInv'
<1>1. level' \in [Pipe -> 0..Capacity]
  <2>1. level \in [Pipe -> 0..Capacity] /\ 0 \in 0..Capacity
    BY DEF IInv, TypeInvariant, KernelAssumption
  <2> QED BY <2>1 DEF HostDrains
<1>2. UNCHANGED <<made, ends, holders, closed, drain, procVars>>
  BY DEF HostDrains
<1>3. TypeInvariant'
  BY <1>1, <1>2 DEF procVars, IInv, TypeInvariant, FdEntry
<1>4. ASSUME NEW k PROVE LiveHolds(k)' = LiveHolds(k)
  BY <1>2, SameRefs DEF procVars, Running
<1> QED BY <1>2, <1>3, <1>4 DEF procVars, IInv, NoHolderForgotten

LEMMA ShellStepsAreKernelSteps ==
    ASSUME KernelAssumption, ShellAssumption, IInv, Root \in Proc, ShellNext,
           pc = "spawning" /\ ~RedirectFails => Unborn # {}
    PROVE  Next \/ (\E f \in Std : HostDrains(f)) \/ UNCHANGED vars
<1>1. CASE \E l \in Lines : Types(l)
  BY <1>1 DEF Types
<1>2. CASE ShellExits \/ RedirectFails
  BY <1>2 DEF ShellExits, RedirectFails, Next, GuestStep
<1>3. CASE Boot
  BY <1>3 DEF Boot, Next, KernelStep
<1>4. CASE MakesPipe
  BY <1>4 DEF MakesPipe, Next, GuestStep
<1>5. CASE SpawnsStage /\ ~RedirectFails
  <2> DEFINE i == Len(pids) + 1
             st == line[i]
             q == CHOOSE p \in Unborn : TRUE
             fdmap == [f \in Std \ Files(st) |->
                         IF f = 0 THEN StdinFd(i) ELSE IF f = 1 THEN StdoutFd(i) ELSE f]
  <2>1. ProcSpawn(Root, q, fdmap, Files(st)) /\ pc = "spawning"
    BY <1>5 DEF SpawnsStage, At
  <2>2. q \in Proc \ {Root}
    BY <1>5, <2>1 DEF Unborn
  <2>3. DOMAIN fdmap = Std \ Files(st)
    OBVIOUS
  <2> HIDE DEF fdmap
  <2>4. fdmap \in FdMaps(Root)
    <3>1. \A c \in DOMAIN fdmap : fdmap[c] \in DOMAIN fds[Root]
      BY <2>1 DEF ProcSpawn
    <3>2. fdmap = [c \in DOMAIN fdmap |-> fdmap[c]]
      BY <2>3 DEF fdmap
    <3>3. fdmap \in [DOMAIN fdmap -> DOMAIN fds[Root]]
      BY <3>1, <3>2
    <3> QED BY <2>3, <3>3 DEF FdMaps
  <2>5. Files(st) \in SUBSET Std
    BY DEF Files, ShellAssumption
  <2> HIDE DEF q, st
  <2> QED BY <2>1, <2>2, <2>4, <2>5 DEF Next, GuestStep
<1>6. CASE ClosesPipeFd
  BY <1>6 DEF ClosesPipeFd, FdClose, Next, GuestStep
<1>7. CASE Joins
  <2>1. pids[done + 1] \in Proc
    BY <1>7 DEF Joins, ProcJoin, IInv, TypeInvariant
  <2> QED BY <1>7, <2>1 DEF Joins, Next, GuestStep
<1>8. CASE Joined
  BY <1>8 DEF Joined, Next, KernelStep
<1>9. ASSUME NEW p \in Proc, StageRuns(p) PROVE Next \/ UNCHANGED vars
  BY <1>9 DEF StageRuns, Reads, ReadAnswered, Writes, WritesFile, WriteAnswered, Exits, NotThere,
              FdRead, FdWrite, FdCall, Usable, Next, KernelStep, GuestStep
<1>10. ASSUME NEW p \in Proc, KernelRuns(p) \/ StageStartFails(p) PROVE Next
  BY <1>10 DEF KernelRuns, StageStartFails, Next, KernelStep
<1>11. CASE HostRuns
  BY <1>11 DEF HostRuns, Next, KernelStep
<1> QED BY <1>1, <1>2, <1>3, <1>4, <1>5, <1>6, <1>7, <1>8, <1>9, <1>10, <1>11
        DEF ShellNext, ShellRuns

\* The kernel's invariant holds under the shell.
LEMMA KernelKept ==
    ASSUME KernelAssumption, ShellAssumption, IInv, [ShellNext]_allVars,
           pc = "spawning" /\ ~RedirectFails => Unborn # {}
    PROVE  IInv'
<1>1. Root \in Proc
  BY DEF KernelAssumption
<1>2. CASE [Next]_vars
  BY <1>2, NextIInv
<1>3. CASE \E f \in Std : HostDrains(f)
  BY <1>3, HostDrainsKeeps
<1>4. [Next]_vars \/ \E f \in Std : HostDrains(f)
  <2>1. CASE ShellNext
    BY <1>1, <2>1, ShellStepsAreKernelSteps
  <2>2. CASE UNCHANGED allVars
    BY <2>2 DEF allVars
  <2> QED BY <2>1, <2>2
<1> QED BY <1>2, <1>3, <1>4

-----------------------------------------------------------------------------
(* Steps of the others.                                                      *)

\* A step that leaves the shell's own entries alone, starts nobody and revives nobody.
Aside ==
    /\ UNCHANGED shellVars
    /\ phase'[Root] = phase[Root] /\ merged'[Root] = merged[Root]
    /\ fds'[Root] = fds[Root] /\ nextFd'[Root] = nextFd[Root]
    /\ children'[Root] = children[Root] /\ op'[Root] = op[Root]
    /\ \A p \in Proc \ {Root} :
          /\ phase'[p] = "unborn" <=> phase[p] = "unborn"
          /\ phase[p] \in {"done", "failed"} => phase'[p] \in {"done", "failed"}

LEMMA AsideKeeps ==
    ASSUME SInv, IInv', Aside
    PROVE  SInv'
<1>1. /\ pc' = pc /\ done' = done /\ pids' = pids /\ reads' = reads /\ writes' = writes
      /\ line' = line
  BY DEF Aside, shellVars
<1>2. Open' = Open /\ Held' = Held /\ All' = All /\ Unborn' = Unborn
  BY <1>1 DEF Open, Held, All, Unborn, Aside
<1>3. CASE pc # "dead"
  <2>1. Stand' /\ Descriptors' /\ Boots'
    BY <1>1, <1>2, <1>3 DEF SInv, Works, Stand, Descriptors, Boots, Aside
  <2>2. Family'
    <3>1. \A p \in Proc \ {Root} : phase'[p] \in {"unborn", "done", "failed"} \/ p \in Open
      BY <1>3 DEF SInv, Works, Family, Aside
    <3>2. \A i \in DOMAIN pids : phase'[pids[i]] # "unborn"
      <4>1. \A i \in DOMAIN pids : pids[i] \in Proc \ {Root}
        BY <1>3 DEF SInv, Works, Stand
      <4> QED BY <1>3, <4>1 DEF SInv, Works, Family, Aside
    <3> QED BY <1>1, <1>2, <1>3, <3>1, <3>2 DEF SInv, Works, Family, Aside
  <2> QED BY <1>1, <1>3, <2>1, <2>2 DEF SInv, Works
<1> QED BY <1>1, <1>3 DEF SInv

\* The programs.
LEMMA StageRunsAside ==
    ASSUME KernelAssumption, IInv, NEW p \in Proc, StageRuns(p)
    PROVE  Aside
<1>0. /\ p # Root /\ UNCHANGED shellVars
      /\ phase \in [Proc -> Phase] /\ DOMAIN merged = Proc /\ DOMAIN fds = Proc
      /\ nextFd \in [Proc -> Nat] /\ children \in [Proc -> SUBSET Proc] /\ DOMAIN op = Proc
      /\ Root \in Proc
  BY DEF KernelAssumption, StageRuns, IInv, TypeInvariant
<1>1. CASE \/ FdRead(p, 0) \/ FdWrite(p, 1) \/ ReadReturns(p) \/ WriteReturns(p)
  <2>1. UNCHANGED <<phase, merged, fds, nextFd, children>>
    BY <1>1 DEF FdRead, FdWrite, FdCall, ReadReturns, WriteReturns, procButOp
  <2>2. op'[Root] = op[Root]
    BY <1>0, <1>1 DEF FdRead, FdWrite, FdCall, ReadReturns, WriteReturns
  <2> QED BY <1>0, <2>1, <2>2 DEF Aside
<1>2. CASE Exit(p) \/ Crash(p)
  <2>1. UNCHANGED <<children, op>> /\ TablesGo(p) /\ phase[p] = "running"
    BY <1>2 DEF Exit, Crash
  <2>2. merged'[Root] = merged[Root] /\ fds'[Root] = fds[Root] /\ nextFd'[Root] = nextFd[Root]
    BY <1>0, <2>1 DEF TablesGo
  <2>3. \/ phase' = [phase EXCEPT ![p] = "draining"]
        \/ phase' = [phase EXCEPT ![p] = "failed"]
    BY <1>2 DEF Exit, Crash
  <2>4. /\ \A r \in Proc : r # p => phase'[r] = phase[r]
        /\ phase'[p] \in {"draining", "failed"}
    BY <1>0, <2>3
  <2>5. phase'[Root] = phase[Root]
    BY <1>0, <2>3
  <2> QED BY <1>0, <2>1, <2>2, <2>4, <2>5 DEF Aside
<1>3. CASE UNCHANGED vars
  BY <1>0, <1>3 DEF vars, procVars, Aside
<1> QED BY <1>1, <1>2, <1>3 DEF StageRuns, Reads, ReadAnswered, Writes, WritesFile, WriteAnswered,
                                Exits, NotThere

\* Starting, failing to start and finishing.
LEMMA KernelRunsAside ==
    ASSUME KernelAssumption, IInv, NEW p \in Proc, KernelRuns(p) \/ StageStartFails(p),
           p # Root \/ phase[Root] # "draining"
    PROVE  Aside
<1>0. /\ UNCHANGED shellVars
      /\ phase \in [Proc -> Phase] /\ DOMAIN merged = Proc /\ DOMAIN fds = Proc
      /\ nextFd \in [Proc -> Nat] /\ children \in [Proc -> SUBSET Proc] /\ DOMAIN op = Proc
      /\ Root \in Proc
  BY DEF KernelAssumption, KernelRuns, StageStartFails, IInv, TypeInvariant
<1>1. CASE p # Root /\ (Start(p) \/ AcquireFails(p) \/ StartFails(p))
  <2>1. UNCHANGED <<children, op>> /\ phase[p] = "opening"
    BY <1>1 DEF Start, AcquireFails, StartFails
  <2>2. merged'[Root] = merged[Root] /\ fds'[Root] = fds[Root] /\ nextFd'[Root] = nextFd[Root]
    BY <1>0, <1>1 DEF Start, AcquireFails, StartFails, TablesGo
  <2>3. \/ phase' = [phase EXCEPT ![p] = "running"]
        \/ phase' = [phase EXCEPT ![p] = "failed"]
    BY <1>1 DEF Start, AcquireFails, StartFails
  <2>4. /\ \A r \in Proc : r # p => phase'[r] = phase[r]
        /\ phase'[p] \in {"running", "failed"}
    BY <1>0, <2>3
  <2>5. phase'[Root] = phase[Root]
    BY <1>0, <1>1, <2>3
  <2> QED BY <1>0, <2>1, <2>2, <2>4, <2>5 DEF Aside
<1>2. CASE Finish(p)
  BY <1>0, <1>2 DEF Finish, Aside
<1> QED BY <1>1, <1>2 DEF KernelRuns, StageStartFails

LEMMA HostDrainsAside ==
    ASSUME NEW f, HostDrains(f), UNCHANGED shellVars
    PROVE  Aside
BY DEF HostDrains, procVars, Aside

-----------------------------------------------------------------------------
(* Steps of the shell.                                                       *)

\* What the types of the kernel's tables say of the shell's entries.
LEMMA Tables ==
    ASSUME KernelAssumption, IInv
    PROVE  /\ Root \in Proc /\ phase \in [Proc -> Phase]
           /\ DOMAIN merged = Proc /\ DOMAIN fds = Proc /\ nextFd \in [Proc -> Nat]
           /\ children \in [Proc -> SUBSET Proc] /\ DOMAIN op = Proc
           /\ Std \subseteq 0..2 /\ IsFiniteSet(Unborn) /\ Cardinality(Unborn) \in Nat
<1>1. IsFiniteSet(Unborn)
  <2>1. Unborn \in SUBSET Proc
    BY DEF Unborn
  <2> QED BY <2>1, FS_Subset DEF KernelAssumption
<1> QED BY <1>1, FS_CardinalityType DEF KernelAssumption, IInv, TypeInvariant

LEMMA AllOf ==
    ASSUME Stand
    PROVE  All \in Seq(Nat) /\ Len(All) = Len(reads) + Len(writes) /\ DOMAIN All = 1..Len(All)
<1>1. reads \in Seq(Nat) /\ writes \in Seq(Nat)
  BY DEF Stand
<1> QED BY <1>1, ConcatProperties, LenProperties DEF All

LEMMA InitWorks == KernelAssumption /\ ShellInit => SInv
<1> SUFFICES ASSUME KernelAssumption, ShellInit PROVE SInv
  OBVIOUS
<1>0. Root \in Proc /\ IInv
  BY InitIInv DEF KernelAssumption, ShellInit
<1>1. Stand /\ pc = "boot"
  BY DEF ShellInit, Stand
<1>2. All = << >>
  BY DEF ShellInit, All
<1>3. Open = {}
  BY <1>1 DEF Open
<1>4. Family
  BY <1>0, <1>1, <1>3 DEF ShellInit, Init, Family, Distinct
<1>5. Descriptors
  BY <1>0, <1>1, <1>2 DEF ShellInit, Init, Descriptors, Distinct, Within
<1>6. Boots
  BY <1>0, <1>1 DEF ShellInit, Init, Boots
<1> QED BY <1>0, <1>1, <1>4, <1>5, <1>6 DEF SInv, Works, Working

\* The host spawns the shell.
LEMMA SpawnWorks ==
    ASSUME KernelAssumption, ShellAssumption, IInv, Works, HostSpawn, UNCHANGED shellVars
    PROVE  Works'
<1>0. /\ pc' = pc /\ done' = done /\ pids' = pids /\ reads' = reads /\ writes' = writes
      /\ line' = line
  BY DEF shellVars
<1> DEFINE entries == [f \in HostFds |-> End(IF f = 0 THEN "read" ELSE "write", HostPipe(f))]
<1>1. Begin(Root, entries, {}) /\ UNCHANGED <<children, op>>
  BY DEF HostSpawn
<1>2. DOMAIN entries = Std /\ Std \ (Std \union {}) = {}
  BY DEF ShellAssumption
<1> HIDE DEF entries
<1>3. /\ phase[Root] = "unborn" /\ phase' = [phase EXCEPT ![Root] = "opening"]
      /\ UNCHANGED <<fds, nextFd>>
      /\ DOMAIN merged'[Root] = Std
  <2> DEFINE missing == Std \ (DOMAIN entries \union {})
             dflt == [f \in missing |-> End(IF f = 0 THEN "read" ELSE "write",
                                            made + Cardinality({g \in missing : g <= f}))]
  <2>1. /\ phase[Root] = "unborn" /\ phase' = [phase EXCEPT ![Root] = "opening"]
        /\ UNCHANGED <<fds, nextFd>>
        /\ merged' = [merged EXCEPT ![Root] = Over(entries, dflt)]
    BY <1>1 DEF Begin
  <2>2. DOMAIN dflt = {}
    BY <1>2
  <2> HIDE DEF missing, dflt
  <2>3. DOMAIN Over(entries, dflt) = Std
    BY <1>2, <2>2 DEF Over
  <2> QED BY <2>1, <2>3, Tables
<1>4. pc = "boot"
  BY <1>3 DEF Works, Boots
<1>5. phase'[Root] = "opening" /\ \A p \in Proc : p # Root => phase'[p] = phase[p]
  BY <1>3, Tables
<1>6. Open' = {} /\ Open = {} /\ All' = All
  BY <1>0, <1>4 DEF Open, All
<1>7. Stand' /\ Descriptors'
  BY <1>0, <1>3, <1>4, <1>6 DEF Works, Stand, Descriptors
<1>8. Family'
  <2>1. \A i \in DOMAIN pids : pids[i] \in Proc \ {Root}
    BY DEF Works, Stand
  <2> QED BY <1>0, <1>1, <1>4, <1>5, <1>6, <2>1 DEF Works, Family
<1> QED BY <1>0, <1>3, <1>4, <1>5, <1>7, <1>8 DEF Works, Boots

LEMMA BootWorks ==
    ASSUME KernelAssumption, IInv, Works, Boot
    PROVE  Works'
<1>0. /\ pc = "boot" /\ pc' = "prompt"
      /\ done' = done /\ pids' = pids /\ reads' = reads /\ writes' = writes /\ line' = line
      /\ UNCHANGED <<nextFd, children, op>>
      /\ phase[Root] = "opening" /\ phase' = [phase EXCEPT ![Root] = "running"]
      /\ fds' = [fds EXCEPT ![Root] = merged[Root]]
  BY DEF Boot, Start
<1>1. /\ phase'[Root] = "running" /\ fds'[Root] = merged[Root]
      /\ \A p \in Proc : p # Root => phase'[p] = phase[p]
  BY <1>0, Tables
<1>2. Open' = {} /\ Open = {} /\ All' = All /\ Held' = {}
  BY <1>0 DEF Open, All, Held
<1>3. Stand'
  BY <1>0 DEF Works, Stand
<1>4. Family'
  <2>1. \A i \in DOMAIN pids : pids[i] \in Proc \ {Root}
    BY DEF Works, Stand
  <2> QED BY <1>0, <1>1, <1>2, <2>1 DEF Works, Family
<1>5. Descriptors'
  BY <1>0, <1>1, <1>2 DEF Works, Descriptors, Boots
<1> QED BY <1>0, <1>1, <1>3, <1>4, <1>5 DEF Boots, Works, Working

LEMMA TypesWorks ==
    ASSUME KernelAssumption, ShellAssumption, IInv, Works, NEW l \in Lines, Types(l)
    PROVE  Works'
<1>0. /\ pc = "prompt" /\ pc' = IF Len(l) > 1 THEN "piping" ELSE "spawning"
      /\ done' = done /\ pids' = << >> /\ reads' = << >> /\ writes' = << >> /\ line' = l
      /\ UNCHANGED <<nextFd, children, op, phase, fds, merged>>
      /\ Len(l) <= Cardinality(Unborn) /\ op[Root] = Idle
  BY DEF Types, At, Calling, vars, procVars
<1>1. l \in Seq(Stage) /\ l # << >>
  BY DEF ShellAssumption
<1>2. Len(l) \in Nat /\ Len(l) > 0
  BY <1>1, EmptySeq, LenProperties
<1>3. Open' = {} /\ Open = {} /\ Held = {} /\ Unborn' = Unborn
  BY <1>0 DEF Open, Held, Elements, Unborn
<1>4. All' = << >>
  BY <1>0 DEF All
<1>5. Held' = {}
  BY <1>0, <1>4 DEF Held, Elements
<1>6. Stand'
  <2>1. /\ pids' \in Seq(Proc \ {Root}) /\ reads' \in Seq(Nat) /\ writes' \in Seq(Nat)
        /\ Len(pids') = 0 /\ Len(reads') = 0 /\ Len(writes') = 0
    BY <1>0, EmptySeq
  <2>2. done' = 0 /\ done' \in Nat
    BY <1>0 DEF Works, Stand
  <2>3. (pc' = "piping" /\ Len(l) > 1) \/ (pc' = "spawning" /\ Len(l) = 1)
    <3>0. \A n \in Nat : n > 0 => n > 1 \/ n = 1
      OBVIOUS
    <3>1. Len(l) > 1 \/ Len(l) = 1
      BY <1>2, <3>0, Zenon
    <3> QED BY <1>0, <3>1
  <2> QED BY <1>0, <1>1, <1>2, <2>1, <2>2, <2>3 DEF Stand
<1>7. Family'
  <2>1. Cardinality(Unborn) >= Len(l) - 0
    BY <1>0, <1>2, Tables
  <2> QED BY <1>0, <1>3, <2>1 DEF Works, Family, Distinct
<1>8. Descriptors'
  BY <1>0, <1>3, <1>4, <1>5 DEF Works, Descriptors, Distinct, Within
<1> QED BY <1>0, <1>6, <1>7, <1>8 DEF Boots, Works, Working

\* Where the elements of two sequences of one length stand in their concatenation.
LEMMA Halves ==
    ASSUME NEW rs \in Seq(Nat), NEW ws \in Seq(Nat), NEW n \in Nat, Len(rs) = n, Len(ws) = n
    PROVE  /\ DOMAIN (rs \o ws) = 1..n + n
           /\ \A i \in 1..n : (rs \o ws)[i] = rs[i] /\ (rs \o ws)[n + i] = ws[i]
<1>0. /\ rs \o ws \in Seq(Nat) /\ Len(rs \o ws) = Len(rs) + Len(ws)
      /\ \A i \in 1..Len(rs) + Len(ws) :
            (rs \o ws)[i] = IF i <= Len(rs) THEN rs[i] ELSE ws[i - Len(rs)]
  BY ConcatProperties, Zenon
<1>1. /\ rs \o ws \in Seq(Nat) /\ Len(rs \o ws) = n + n
      /\ \A i \in 1..n + n : (rs \o ws)[i] = IF i <= n THEN rs[i] ELSE ws[i - n]
  BY <1>0, Zenon
<1>2. ASSUME NEW i \in 1..n PROVE (rs \o ws)[i] = rs[i] /\ (rs \o ws)[n + i] = ws[i]
  <2>1. i \in 1..n + n /\ i <= n /\ n + i \in 1..n + n /\ ~(n + i <= n) /\ (n + i) - n = i
    OBVIOUS
  <2> QED BY <1>1, <2>1
<1>3. DOMAIN (rs \o ws) = 1..n + n
  BY <1>1, LenProperties
<1> QED BY <1>2, <1>3

\* `new` has the elements of `old`, and a and a + 1 at the end of the halves.
OnePipeMore(n, a, old, new) ==
    /\ DOMAIN old = 1..n + n /\ DOMAIN new = 1..n + n + 2
    /\ \A i \in 1..n : new[i] = old[i] /\ new[n + 1 + i] = old[n + i]
    /\ new[n + 1] = a /\ new[n + n + 2] = a + 1

\* The ends of one pipe more, at the end of each half, are different from those before.
LEMMA MoreEnds ==
    ASSUME NEW n \in Nat, NEW a \in Nat, a >= 16, NEW old, NEW new,
           OnePipeMore(n, a, old, new), Distinct(old), Within(old, a - 1)
    PROVE  /\ Distinct(new) /\ Within(new, a + 1)
           /\ Elements(new) = Elements(old) \union {a, a + 1}
<1>0. /\ DOMAIN old = 1..n + n /\ DOMAIN new = 1..n + n + 2
      /\ \A i \in 1..n : new[i] = old[i] /\ new[n + 1 + i] = old[n + i]
      /\ new[n + 1] = a /\ new[n + n + 2] = a + 1
      /\ \A i \in DOMAIN old : old[i] \in 16..a - 1
      /\ \A i, j \in DOMAIN old : old[i] = old[j] => i = j
  BY DEF OnePipeMore, Distinct, Within
<1>1. \A i \in DOMAIN new :
         \/ i \in 1..n /\ i \in DOMAIN old /\ new[i] = old[i]
         \/ i = n + 1 /\ new[i] = a
         \/ i \in n + 2..n + n + 1 /\ i - 1 \in DOMAIN old /\ new[i] = old[i - 1]
         \/ i = n + n + 2 /\ new[i] = a + 1
  <2> SUFFICES ASSUME NEW i \in 1..n + n + 2, i # n + 1, i # n + n + 2
               PROVE  \/ i \in 1..n /\ i \in DOMAIN old /\ new[i] = old[i]
                      \/ i \in n + 2..n + n + 1 /\ i - 1 \in DOMAIN old /\ new[i] = old[i - 1]
    BY <1>0
  <2>1. CASE i <= n
    <3>1. i \in 1..n /\ i \in 1..n + n
      BY <1>0, <2>1
    <3> QED BY <1>0, <3>1
  <2>2. CASE i > n
    <3>1. PICK j \in 1..n : i = n + 1 + j
      <4>1. i - (n + 1) \in 1..n /\ i = n + 1 + (i - (n + 1))
        BY <1>0, <2>2
      <4> QED BY <1>0, <4>1
    <3>2. new[i] = old[n + j]
      BY <1>0, <3>1
    <3>3. i - 1 = n + j /\ n + j \in 1..n + n /\ i \in n + 2..n + n + 1
      BY <1>0, <3>1
    <3> QED BY <1>0, <3>2, <3>3
  <2> QED BY <1>0, <2>1, <2>2
<1>2. \A k \in DOMAIN old : old[k] \in 16..a - 1 /\ old[k] # a /\ old[k] # a + 1
  BY <1>0
<1>3. a # a + 1 /\ a \in 16..a + 1 /\ a + 1 \in 16..a + 1 /\ 16..a - 1 \subseteq 16..a + 1
  BY <1>0
<1>4. ASSUME NEW i \in DOMAIN new PROVE new[i] \in 16..a + 1
  BY <1>0, <1>1, <1>2, <1>3
<1>5. ASSUME NEW i \in DOMAIN new, NEW j \in DOMAIN new, new[i] = new[j] PROVE i = j
  <2>1. CASE new[i] = a \/ new[i] = a + 1
    <3>1. ASSUME NEW k \in DOMAIN new
          PROVE  (new[k] = a => k = n + 1) /\ (new[k] = a + 1 => k = n + n + 2)
      BY <1>1, <1>2, <1>3
    <3> QED BY <1>5, <2>1, <3>1
  <2>2. CASE new[i] # a /\ new[i] # a + 1
    <3>1. /\ (i \in 1..n /\ i \in DOMAIN old /\ new[i] = old[i])
             \/ (i \in n + 2..n + n + 1 /\ i - 1 \in DOMAIN old /\ new[i] = old[i - 1])
          /\ (j \in 1..n /\ j \in DOMAIN old /\ new[j] = old[j])
             \/ (j \in n + 2..n + n + 1 /\ j - 1 \in DOMAIN old /\ new[j] = old[j - 1])
      BY <1>0, <1>1, <1>5, <2>2
    <3>2. CASE i \in 1..n /\ i \in DOMAIN old /\ new[i] = old[i]
      <4>1. CASE j \in DOMAIN old /\ new[j] = old[j]
        BY <1>0, <1>5, <3>2, <4>1
      <4>2. CASE j \in n + 2..n + n + 1 /\ j - 1 \in DOMAIN old /\ new[j] = old[j - 1]
        <5>1. i = j - 1
          BY <1>0, <1>5, <3>2, <4>2
        <5> QED BY <1>0, <3>2, <4>2, <5>1
      <4> QED BY <1>0, <3>1, <4>1, <4>2
    <3>3. CASE i \in n + 2..n + n + 1 /\ i - 1 \in DOMAIN old /\ new[i] = old[i - 1]
      <4>1. CASE j \in 1..n /\ j \in DOMAIN old /\ new[j] = old[j]
        <5>1. i - 1 = j
          BY <1>0, <1>5, <3>3, <4>1
        <5> QED BY <1>0, <3>3, <4>1, <5>1
      <4>2. CASE j \in n + 2..n + n + 1 /\ j - 1 \in DOMAIN old /\ new[j] = old[j - 1]
        <5>1. i - 1 = j - 1
          BY <1>0, <1>5, <3>3, <4>2
        <5> QED BY <1>0, <3>3, <4>2, <5>1
      <4> QED BY <1>0, <3>1, <4>1, <4>2
    <3> QED BY <1>0, <3>1, <3>2, <3>3
  <2> QED BY <1>0, <2>1, <2>2
<1>6. {new[i] : i \in DOMAIN new} = {old[i] : i \in DOMAIN old} \union {a, a + 1}
  <2>1. ASSUME NEW i \in DOMAIN new PROVE new[i] \in {old[k] : k \in DOMAIN old} \union {a, a + 1}
    BY <1>0, <1>1
  <2>2. ASSUME NEW k \in DOMAIN old PROVE \E i \in DOMAIN new : new[i] = old[k]
    <3>1. CASE k <= n
      <4>1. k \in 1..n /\ k \in DOMAIN new
        BY <1>0, <3>1
      <4> QED BY <1>0, <4>1
    <3>2. CASE k > n
      <4>1. PICK j \in 1..n : k = n + j
        <5>1. k \in 1..n + n
          BY <1>0
        <5>2. k - n \in 1..n /\ k = n + (k - n)
          BY <3>2, <5>1
        <5> QED BY <5>2
      <4>2. n + 1 + j \in DOMAIN new
        BY <1>0, <4>1
      <4>3. new[n + 1 + j] = old[k]
        BY <1>0, <4>1
      <4> QED BY <4>2, <4>3
    <3> QED BY <1>0, <3>1, <3>2
  <2>3. n + 1 \in DOMAIN new /\ n + n + 2 \in DOMAIN new
    BY <1>0
  <2>4. {old[k] : k \in DOMAIN old} \subseteq {new[i] : i \in DOMAIN new}
    BY <2>2
  <2>5. {a, a + 1} \subseteq {new[i] : i \in DOMAIN new}
    <3>1. new[n + 1] \in {new[i] : i \in DOMAIN new}
      BY <2>3, Zenon
    <3>2. new[n + n + 2] \in {new[i] : i \in DOMAIN new}
      BY <2>3, Zenon
    <3> QED BY <1>0, <3>1, <3>2
  <2>6. {new[i] : i \in DOMAIN new} \subseteq {old[i] : i \in DOMAIN old} \union {a, a + 1}
    BY <2>1
  <2> QED BY <2>4, <2>5, <2>6
<1> QED BY <1>4, <1>5, <1>6 DEF Distinct, Within, Elements

LEMMA MakesPipeWorks ==
    ASSUME KernelAssumption, IInv, Works, MakesPipe
    PROVE  Works'
<1> DEFINE a == nextFd[Root]
<1>0. /\ pc = "piping" /\ pc' = IF Len(reads') = Len(line) - 1 THEN "spawning" ELSE pc
      /\ reads' = Append(reads, a) /\ writes' = Append(writes, a + 1)
      /\ done' = done /\ pids' = pids /\ line' = line
      /\ UNCHANGED <<children, phase, merged, op>>
      /\ nextFd' = [nextFd EXCEPT ![Root] = @ + 2]
  BY DEF MakesPipe, At, FdPipe
<1>1. /\ DOMAIN fds'[Root] = {a, a + 1} \union DOMAIN fds[Root]
      /\ nextFd'[Root] = a + 2 /\ a \in Nat
  <2> DEFINE pair == [f \in {nextFd[Root], nextFd[Root] + 1} |->
                        End(IF f = nextFd[Root] THEN "read" ELSE "write", made + 1)]
  <2>1. fds' = [fds EXCEPT ![Root] = Over(pair, @)]
    BY DEF MakesPipe, FdPipe
  <2>2. DOMAIN pair = {a, a + 1}
    OBVIOUS
  <2> HIDE DEF pair
  <2>3. fds'[Root] = Over(pair, fds[Root])
    BY <2>1, Tables
  <2>4. DOMAIN Over(pair, fds[Root]) = DOMAIN pair \union DOMAIN fds[Root]
    BY DEF Over
  <2> QED BY <1>0, <2>2, <2>3, <2>4, Tables
<1> HIDE DEF a
<1>2. /\ reads \in Seq(Nat) /\ writes \in Seq(Nat) /\ Len(reads) = Len(writes)
      /\ pids = << >> /\ Len(reads) + 1 < Len(line) /\ done = 0 /\ line \in Seq(Stage)
  BY <1>0 DEF Works, Stand
<1>3. a >= 16
  BY DEF Works, Descriptors, a
<1>4. /\ Distinct(All') /\ Within(All', a + 1)
      /\ Elements(All') = Elements(All) \union {a, a + 1}
  <2>1. All' = Append(reads, a) \o Append(writes, a + 1) /\ All = reads \o writes
    BY <1>0 DEF All
  <2>2. Distinct(All) /\ Within(All, a - 1)
    BY DEF Works, Descriptors, a
  <2>3. PICK old, new, n, ra, wa :
           /\ old = All /\ new = All' /\ n = Len(reads)
           /\ ra = Append(reads, a) /\ wa = Append(writes, a + 1)
    OBVIOUS
  <2>4. /\ n \in Nat /\ ra \in Seq(Nat) /\ wa \in Seq(Nat) /\ Len(ra) = n + 1 /\ Len(wa) = n + 1
        /\ \A i \in 1..n : ra[i] = reads[i] /\ wa[i] = writes[i]
        /\ ra[n + 1] = a /\ wa[n + 1] = a + 1
    BY <1>1, <1>2, <2>3
  <2>5. DOMAIN old = 1..n + n /\ \A i \in 1..n : old[i] = reads[i] /\ old[n + i] = writes[i]
    <3>1. reads \in Seq(Nat) /\ writes \in Seq(Nat) /\ Len(reads) = n /\ Len(writes) = n
      BY <1>2, <2>3
    <3>2. old = reads \o writes
      BY <2>1, <2>3, Zenon
    <3>3. /\ DOMAIN (reads \o writes) = 1..n + n
          /\ \A i \in 1..n : /\ (reads \o writes)[i] = reads[i]
                             /\ (reads \o writes)[n + i] = writes[i]
      BY <2>4, <3>1, Halves, ZenonT(30)
    <3> QED BY <3>2, <3>3, Zenon
  <2>6. /\ DOMAIN new = 1..(n + 1) + (n + 1)
        /\ \A i \in 1..n + 1 : new[i] = ra[i] /\ new[(n + 1) + i] = wa[i]
    <3>1. n + 1 \in Nat
      BY <2>4
    <3>2. new = ra \o wa
      BY <2>1, <2>3, Zenon
    <3>3. /\ DOMAIN (ra \o wa) = 1..(n + 1) + (n + 1)
          /\ \A i \in 1..n + 1 : (ra \o wa)[i] = ra[i] /\ (ra \o wa)[(n + 1) + i] = wa[i]
      BY <2>4, <3>1, Halves, ZenonT(30)
    <3> QED BY <3>2, <3>3, Zenon
  <2>7. /\ (n + 1) + (n + 1) = n + n + 2 /\ n + 1 \in 1..n + 1
        /\ \A i \in 1..n : i \in 1..n + 1
    BY <2>4
  <2>8. /\ DOMAIN new = 1..n + n + 2 /\ new[n + 1] = a /\ new[n + n + 2] = a + 1
        /\ \A i \in 1..n : new[i] = old[i] /\ new[n + 1 + i] = old[n + i]
    BY <2>4, <2>5, <2>6, <2>7
  <2>9. OnePipeMore(n, a, old, new) /\ Distinct(old) /\ Within(old, a - 1)
    BY <2>2, <2>3, <2>5, <2>8 DEF OnePipeMore
  <2>10. /\ Distinct(new) /\ Within(new, a + 1)
         /\ Elements(new) = Elements(old) \union {a, a + 1}
    BY <1>1, <1>3, <2>4, <2>9, MoreEnds
  <2> QED BY <2>3, <2>10
<1>5. /\ reads' \in Seq(Nat) /\ writes' \in Seq(Nat)
      /\ Len(reads') = Len(reads) + 1 /\ Len(writes') = Len(writes) + 1
  BY <1>0, <1>1, <1>2, AppendProperties
<1>6. /\ Len(line) \in Nat /\ Len(reads) \in Nat
      /\ \/ pc' = "piping" /\ Len(reads') + 1 < Len(line)
         \/ pc' = "spawning" /\ Len(reads') + 1 = Len(line)
  <2>1. Len(line) \in Nat /\ Len(reads) \in Nat
    BY <1>2, LenProperties
  <2> QED BY <1>0, <1>2, <1>5, <2>1
<1>7. Stand'
  BY <1>0, <1>2, <1>5, <1>6, EmptySeq DEF Stand
<1>8. Open' = {} /\ Open = {} /\ Unborn' = Unborn
  BY <1>0, <1>2, <1>6, EmptySeq DEF Open, Elements, Unborn
<1>9. Family'
  BY <1>0, <1>2, <1>6, <1>8 DEF Works, Family
<1>10. Descriptors'
  <2>1. Held' = Held \union {a, a + 1}
    BY <1>0, <1>4, <1>6 DEF Held
  <2>2. DOMAIN fds'[Root] = Std \union Held'
    BY <1>0, <1>1, <2>1 DEF Works, Descriptors
  <2>3. nextFd'[Root] >= 16 /\ a + 1 = nextFd'[Root] - 1
    BY <1>1, <1>3
  <2> QED BY <1>4, <2>2, <2>3 DEF Descriptors
<1> QED BY <1>0, <1>6, <1>7, <1>9, <1>10 DEF Boots, Works, Working

LEMMA SpawnsStageWorks ==
    ASSUME KernelAssumption, IInv, Works, SpawnsStage, Unborn # {}
    PROVE  Works'
<1> DEFINE i == Len(pids) + 1
           q == CHOOSE p \in Unborn : TRUE
<1>0. /\ pc = "spawning" /\ op[Root] = Idle
      /\ pc' = IF i = Len(line) THEN IF i > 1 THEN "closing" ELSE "joining" ELSE pc
      /\ pids' = Append(pids, q)
      /\ done' = done /\ line' = line /\ reads' = reads /\ writes' = writes
      /\ op' = op /\ fds' = fds /\ nextFd' = nextFd
      /\ phase' = [phase EXCEPT ![q] = "opening"]
      /\ children' = [children EXCEPT ![Root] = @ \union {q}]
  BY DEF SpawnsStage, ProcSpawn, Begin, At, Calling
<1>1. q \in Unborn /\ q \in Proc \ {Root} /\ phase[q] = "unborn"
  BY DEF Unborn
<1> HIDE DEF q
<1>2. /\ line \in Seq(Stage) /\ Len(line) \in Nat /\ done = 0
      /\ pids \in Seq(Proc \ {Root}) /\ Len(pids) \in Nat /\ DOMAIN pids = 1..Len(pids)
      /\ reads \in Seq(Nat) /\ writes \in Seq(Nat) /\ Len(reads) = Len(writes)
      /\ Len(reads) \in Nat /\ Len(pids) < Len(line) /\ Len(reads) + 1 = Len(line)
      /\ phase[Root] = "running"
  BY <1>0, LenProperties DEF Works, Stand, Boots
<1>3. /\ pids' \in Seq(Proc \ {Root}) /\ Len(pids') = i
      /\ DOMAIN pids' = 1..i /\ pids'[i] = q
      /\ \A j \in DOMAIN pids : pids'[j] = pids[j]
  <2>1. /\ pids' \in Seq(Proc \ {Root}) /\ Len(pids') = i /\ pids'[i] = q
        /\ \A j \in 1..Len(pids) : pids'[j] = pids[j]
    BY <1>0, <1>1, <1>2, AppendProperties
  <2> QED BY <1>2, <2>1, LenProperties
<1>4. /\ phase'[q] = "opening" /\ \A p \in Proc : p # q => phase'[p] = phase[p]
      /\ phase'[Root] = phase[Root] /\ children'[Root] = children[Root] \union {q}
  BY <1>0, <1>1, Tables
<1>5. /\ i \in Nat /\ i > 0 /\ i <= Len(line)
      /\ DOMAIN pids' = DOMAIN pids \union {i} /\ i \notin DOMAIN pids
  BY <1>2, <1>3
<1>6. \/ pc' = "spawning" /\ i < Len(line)
      \/ pc' = "closing" /\ i = Len(line) /\ i > 1
      \/ pc' = "joining" /\ i = Len(line) /\ i = 1
  BY <1>0, <1>2, <1>5
<1>7. Stand'
  BY <1>0, <1>2, <1>3, <1>5, <1>6 DEF Stand
<1>8. Open = Elements(pids) /\ Open' = Elements(pids) \union {q}
  <2>1. Open' = Elements(pids')
    <3>1. done' + 1..Len(pids') = DOMAIN pids'
      BY <1>0, <1>2, <1>3
    <3>2. CASE pc' = "joining"
      BY <3>1, <3>2 DEF Open, Elements
    <3>3. CASE pc' \in {"spawning", "closing"}
      BY <3>3 DEF Open
    <3> QED BY <1>6, <3>2, <3>3
  <2>2. Elements(pids') = Elements(pids) \union {q}
    <3>1. \A j \in DOMAIN pids' : pids'[j] \in Elements(pids) \union {q}
      BY <1>3, <1>5 DEF Elements
    <3>2. \A j \in DOMAIN pids : pids[j] \in Elements(pids')
      BY <1>3, <1>5 DEF Elements
    <3>3. q \in Elements(pids')
      BY <1>3, <1>5 DEF Elements
    <3>4. Elements(pids') \subseteq Elements(pids) \union {q}
      BY <3>1 DEF Elements
    <3>5. Elements(pids) \subseteq Elements(pids')
      BY <3>2 DEF Elements
    <3> QED BY <3>3, <3>4, <3>5
  <2> QED BY <1>0, <2>1, <2>2 DEF Open
<1>9. Family'
  <2>1. \A p \in Proc \ {Root} : phase'[p] \in {"unborn", "done", "failed"} \/ p \in Open'
    BY <1>4, <1>8 DEF Works, Family
  <2>2. \A j \in DOMAIN pids : pids[j] \in Proc /\ pids[j] # q /\ phase[pids[j]] # "unborn"
    BY <1>1, <1>2 DEF Works, Family
  <2>3. \A j \in DOMAIN pids' : phase'[pids'[j]] # "unborn"
    BY <1>3, <1>4, <1>5, <2>2
  <2>4. Distinct(pids')
    BY <1>3, <1>5, <2>2 DEF Works, Family, Distinct
  <2>5. children'[Root] = Open' /\ op'[Root].call # "join"
    BY <1>0, <1>4, <1>8 DEF Works, Family, Idle
  <2>6. pc' = "spawning" => Cardinality(Unborn') >= Len(line) - i
    <3>1. Unborn' = Unborn \ {q}
      BY <1>1, <1>4 DEF Unborn
    <3>2. Cardinality(Unborn \ {q}) = Cardinality(Unborn) - 1 /\ Cardinality(Unborn) \in Nat
      BY <1>1, Tables, FS_RemoveElement
    <3>3. Cardinality(Unborn) >= Len(line) - Len(pids)
      BY <1>0 DEF Works, Family
    <3> QED BY <1>2, <3>1, <3>2, <3>3
  <2> QED BY <1>0, <1>3, <1>6, <2>1, <2>3, <2>4, <2>5, <2>6 DEF Family
<1>10. Descriptors'
  <2>1. All' = All
    BY <1>0 DEF All
  <2>2. Held' = Held
    <3>1. Len(All) = Len(reads) + Len(writes) /\ DOMAIN All = 1..Len(All)
      BY AllOf DEF Works
    <3>2. Held = Elements(All)
      BY <1>0 DEF Held
    <3>3. CASE pc' = "spawning"
      BY <2>1, <3>2, <3>3 DEF Held
    <3>4. CASE pc' = "closing"
      <4>1. done' + 1..Len(All') = DOMAIN All
        BY <1>0, <1>2, <2>1, <3>1
      <4> QED BY <2>1, <3>2, <3>4, <4>1 DEF Held, Elements
    <3>5. CASE pc' = "joining"
      <4>1. DOMAIN All = {}
        BY <1>2, <1>6, <3>1, <3>5
      <4> QED BY <3>2, <3>5, <4>1 DEF Held, Elements
    <3> QED BY <1>6, <3>3, <3>4, <3>5
  <2> QED BY <1>0, <1>6, <2>1, <2>2 DEF Works, Descriptors
<1> QED BY <1>2, <1>4, <1>6, <1>7, <1>9, <1>10 DEF Boots, Works, Working

\* What is left of a sequence without repetitions when its next element is taken.
LEMMA Rest ==
    ASSUME NEW f, NEW n \in Nat, NEW m \in Nat, m < n, DOMAIN f = 1..n, Distinct(f)
    PROVE  {f[i] : i \in (m + 1) + 1..n} = {f[i] : i \in m + 1..n} \ {f[m + 1]}
<1>1. m + 1 \in DOMAIN f
  OBVIOUS
<1>2. ASSUME NEW i \in (m + 1) + 1..n PROVE i \in m + 1..n /\ f[i] # f[m + 1]
  <2>1. i \in DOMAIN f /\ i # m + 1 /\ i \in m + 1..n
    OBVIOUS
  <2> QED BY <1>1, <2>1 DEF Distinct
<1>3. ASSUME NEW i \in m + 1..n, f[i] # f[m + 1] PROVE i \in (m + 1) + 1..n
  <2>1. i # m + 1
    BY <1>3
  <2> QED BY <2>1
<1> QED BY <1>2, <1>3

LEMMA ClosesPipeFdWorks ==
    ASSUME KernelAssumption, IInv, Works, ClosesPipeFd
    PROVE  Works'
<1> DEFINE a == All[done + 1]
<1>0. /\ pc = "closing" /\ op[Root] = Idle
      /\ fds' = [fds EXCEPT ![Root] = [f \in DOMAIN @ \ {a} |-> @[f]]]
      /\ done' = IF done + 1 = Len(All) THEN 0 ELSE done + 1
      /\ pc' = IF done + 1 = Len(All) THEN "joining" ELSE pc
      /\ line' = line /\ reads' = reads /\ writes' = writes /\ pids' = pids
      /\ UNCHANGED <<phase, merged, nextFd, children, op>>
  BY DEF ClosesPipeFd, FdClose, At, Calling, All
<1>1. /\ Len(All) = Len(reads) + Len(writes) /\ DOMAIN All = 1..Len(All) /\ Len(All) \in Nat
      /\ done \in Nat /\ done < Len(All) /\ Len(pids) > 0 /\ Len(pids) \in Nat
      /\ DOMAIN pids = 1..Len(pids)
  BY <1>0, AllOf, LenProperties DEF Works, Stand
<1>2. All' = All
  BY <1>0 DEF All
<1>3. \/ pc' = "joining" /\ done' = 0 /\ done + 1 = Len(All)
      \/ pc' = "closing" /\ done' = done + 1 /\ done + 1 < Len(All)
  BY <1>0, <1>1
<1>4. Stand'
  BY <1>0, <1>1, <1>3 DEF Works, Stand
<1>5. Open' = Open
  BY <1>0, <1>1, <1>3 DEF Open, Elements
<1>6. Family'
  BY <1>0, <1>3, <1>5 DEF Works, Family, Idle
<1>7. Held' = Held \ {a}
  <2>1. {All[i] : i \in (done + 1) + 1..Len(All)} = {All[i] : i \in done + 1..Len(All)} \ {a}
    BY <1>1, Rest DEF Works, Descriptors
  <2>2. Held = {All[i] : i \in done + 1..Len(All)}
    BY <1>0 DEF Held
  <2>3. CASE pc' = "closing"
    <3>1. All' = All /\ done' = done + 1
      BY <1>2, <1>3, <2>3
    <3>2. Held' = {All[i] : i \in (done + 1) + 1..Len(All)}
      BY <2>3, <3>1, Zenon DEF Held
    <3> QED BY <2>1, <2>2, <3>2
  <2>4. CASE pc' = "joining"
    <3>1. (done + 1) + 1..Len(All) = {}
      BY <1>1, <1>3, <2>4
    <3> QED BY <2>1, <2>2, <2>4, <3>1 DEF Held
  <2> QED BY <1>3, <2>3, <2>4
<1>8. DOMAIN fds'[Root] = DOMAIN fds[Root] \ {a}
  BY <1>0, Tables
<1>9. a \notin Std
  <2>1. done + 1 \in DOMAIN All /\ nextFd[Root] \in Nat
    BY <1>1, Tables
  <2>2. a \in 16..nextFd[Root] - 1
    BY <2>1 DEF Works, Descriptors, Within
  <2> QED BY <2>1, <2>2, Tables
<1> HIDE DEF a
<1>10. Descriptors'
  BY <1>0, <1>2, <1>3, <1>7, <1>8, <1>9 DEF Works, Descriptors
<1> QED BY <1>0, <1>3, <1>4, <1>6, <1>10 DEF Boots, Works, Working

LEMMA JoinsWorks ==
    ASSUME KernelAssumption, IInv, Works, Joins
    PROVE  Works'
<1> DEFINE c == pids[done + 1]
<1>0. /\ pc = "joining" /\ op[Root] = Idle
      /\ pc' = pc /\ done' = done /\ line' = line /\ reads' = reads /\ writes' = writes
      /\ pids' = pids /\ UNCHANGED <<phase, merged, nextFd, fds>>
      /\ children' = [children EXCEPT ![Root] = @ \ {c}]
      /\ op' = [op EXCEPT ![Root] = [call |-> "join", pipe |-> 0, child |-> c]]
  BY DEF Joins, ProcJoin, At, Calling, shellVars
<1>1. children'[Root] = children[Root] \ {c} /\ op'[Root].call = "join" /\ op'[Root].child = c
  BY <1>0, Tables
<1>2. All' = All /\ Open' = Open /\ Held' = Held
  BY <1>0 DEF All, Open, Held
<1>3. Stand' /\ Descriptors' /\ Boots'
  BY <1>0, <1>2 DEF Works, Stand, Descriptors, Boots
<1>4. Family'
  BY <1>0, <1>1, <1>2 DEF Works, Family, Idle
<1> QED BY <1>0, <1>3, <1>4 DEF Works

LEMMA JoinedWorks ==
    ASSUME KernelAssumption, IInv, Works, Joined
    PROVE  Works'
<1> DEFINE c == pids[done + 1]
<1>0. /\ pc = "joining" /\ op[Root].call = "join" /\ phase[op[Root].child] \in {"done", "failed"}
      /\ done' = IF done + 1 = Len(pids) THEN 0 ELSE done + 1
      /\ pc' = IF done + 1 = Len(pids) THEN "prompt" ELSE pc
      /\ line' = line /\ reads' = reads /\ writes' = writes /\ pids' = pids
      /\ UNCHANGED <<phase, merged, nextFd, fds, children>>
      /\ op' = [op EXCEPT ![Root] = Idle]
  BY DEF Joined, JoinReturns, Settled, procButOp, LastJoined
<1>1. /\ pids \in Seq(Proc \ {Root}) /\ Len(pids) \in Nat /\ DOMAIN pids = 1..Len(pids)
      /\ done \in Nat /\ done < Len(pids)
  BY <1>0, LenProperties DEF Works, Stand
<1>2. \/ pc' = "prompt" /\ done' = 0 /\ done + 1 = Len(pids)
      \/ pc' = "joining" /\ done' = done + 1 /\ done + 1 < Len(pids)
  <2>1. done + 1 = Len(pids) \/ (done + 1 # Len(pids) /\ done + 1 < Len(pids))
    <3>1. \A m, n \in Nat : m < n => m + 1 = n \/ (m + 1 # n /\ m + 1 < n)
      OBVIOUS
    <3> QED BY <1>1, <3>1, Zenon
  <2> QED BY <1>0, <2>1
<1>3. op[Root].child = c /\ op'[Root].call # "join" /\ children[Root] = Open \ {c}
  BY <1>0, Tables DEF Works, Family, Idle
<1>4. Open' = Open \ {c}
  <2>1. {pids[i] : i \in (done + 1) + 1..Len(pids)} = {pids[i] : i \in done + 1..Len(pids)} \ {c}
    BY <1>1, Rest DEF Works, Family
  <2>2. Open = {pids[i] : i \in done + 1..Len(pids)}
    BY <1>0 DEF Open
  <2>3. CASE pc' = "joining"
    BY <1>0, <1>2, <2>1, <2>2, <2>3 DEF Open
  <2>4. CASE pc' = "prompt"
    <3>1. (done + 1) + 1..Len(pids) = {}
      BY <1>1, <1>2, <2>4
    <3> QED BY <2>1, <2>2, <2>4, <3>1 DEF Open
  <2> QED BY <1>2, <2>3, <2>4
<1>5. phase[c] \in {"done", "failed"}
  BY <1>0, <1>3
<1> HIDE DEF c
<1>6. Stand'
  <2>1. done' \in Nat /\ (pc' = "prompt" => done' = 0) /\ (pc' = "joining" => done' < Len(pids'))
    <3>0. pids' = pids
      BY <1>0, Zenon
    <3>1. Len(pids') = Len(pids) /\ done + 1 \in Nat
      BY <1>1, <3>0
    <3>2. CASE pc' = "prompt" /\ done' = 0
      BY <3>2
    <3>3. CASE pc' = "joining" /\ done' = done + 1 /\ done + 1 < Len(pids)
      <4>1. done' < Len(pids')
        BY <3>1, <3>3, Zenon
      <4> QED BY <3>1, <3>3, <4>1
    <3> QED BY <1>2, <3>2, <3>3
  <2>2. /\ line \in Seq(Stage) /\ pids \in Seq(Proc \ {Root})
        /\ reads \in Seq(Nat) /\ writes \in Seq(Nat) /\ Len(reads) = Len(writes)
    BY DEF Works, Stand
  <2>3. pc' \in {"prompt", "joining"}
    BY <1>2
  <2> QED BY <1>0, <2>1, <2>2, <2>3 DEF Stand
<1>7. Family'
  <2>1. \A p \in Proc \ {Root} : phase'[p] \in {"unborn", "done", "failed"} \/ p \in Open'
    BY <1>0, <1>4, <1>5 DEF Works, Family
  <2>2. children'[Root] = Open'
    BY <1>0, <1>3, <1>4
  <2> QED BY <1>0, <1>2, <1>3, <2>1, <2>2 DEF Works, Family
<1>8. Descriptors'
  <2>1. All' = All /\ Held' = {} /\ Held = {}
    BY <1>0, <1>2 DEF All, Held
  <2> QED BY <1>0, <1>2, <2>1 DEF Works, Descriptors
<1> QED BY <1>0, <1>2, <1>6, <1>7, <1>8 DEF Boots, Works, Working

-----------------------------------------------------------------------------
(* The invariant.                                                            *)

\* While a stage is to be spawned there is a process to spawn.
LEMMA SomeUnborn ==
    ASSUME KernelAssumption, Works, IInv, pc = "spawning"
    PROVE  Unborn # {}
<1>1. Cardinality(Unborn) >= Len(line) - Len(pids) /\ Len(pids) < Len(line)
  BY DEF Works, Family, Stand
<1>2. Len(line) \in Nat /\ Len(pids) \in Nat
  BY LenProperties DEF Works, Stand
<1>3. Cardinality(Unborn) # 0
  BY <1>1, <1>2, Tables
<1> QED BY <1>3, FS_EmptySet

LEMMA NextWorks ==
    KernelAssumption /\ ShellAssumption /\ SInv /\ [ShellNext]_allVars => SInv'
<1> SUFFICES ASSUME KernelAssumption, ShellAssumption, SInv, [ShellNext]_allVars PROVE SInv'
  OBVIOUS
<1>1. IInv'
  <2>1. CASE pc = "dead"
    BY <2>1, KernelKept DEF SInv
  <2>2. CASE Works
    BY <2>2, SomeUnborn, KernelKept DEF SInv
  <2> QED BY <2>1, <2>2 DEF SInv
<1>2. CASE UNCHANGED shellVars /\ pc = "dead"
  BY <1>1, <1>2 DEF SInv, shellVars
<1>3. CASE Works
  <2> USE DEF SInv
  <2>1. CASE \E l \in Lines : Types(l)
    BY <1>1, <1>3, <2>1, TypesWorks
  <2>2. CASE ShellExits \/ RedirectFails
    BY <1>1, <2>2 DEF ShellExits, RedirectFails
  <2>3. CASE Boot
    BY <1>1, <1>3, <2>3, BootWorks
  <2>4. CASE MakesPipe
    BY <1>1, <1>3, <2>4, MakesPipeWorks
  <2>5. CASE SpawnsStage
    BY <1>1, <1>3, <2>5, SomeUnborn, SpawnsStageWorks DEF SpawnsStage, At
  <2>6. CASE ClosesPipeFd
    BY <1>1, <1>3, <2>6, ClosesPipeFdWorks
  <2>7. CASE Joins
    BY <1>1, <1>3, <2>7, JoinsWorks
  <2>8. CASE Joined
    BY <1>1, <1>3, <2>8, JoinedWorks
  <2>9. CASE \E p \in Proc : StageRuns(p) \/ KernelRuns(p) \/ StageStartFails(p)
    <3>1. phase[Root] # "draining"
      BY <1>3 DEF Works, Boots
    <3>2. Aside
      BY <2>9, <3>1, StageRunsAside, KernelRunsAside
    <3> QED BY <1>1, <3>2, AsideKeeps
  <2>10. CASE HostRuns
    <3>1. CASE HostSpawn
      BY <1>1, <1>3, <2>10, <3>1, SpawnWorks DEF HostRuns
    <3>2. CASE \E f \in Std : HostDrains(f)
      BY <1>1, <2>10, <3>2, HostDrainsAside, AsideKeeps DEF HostRuns
    <3> QED BY <2>10, <3>1, <3>2 DEF HostRuns
  <2>11. CASE UNCHANGED allVars
    <3>1. Aside
      BY <2>11 DEF allVars, vars, procVars, Aside
    <3> QED BY <1>1, <3>1, AsideKeeps
  <2> QED BY <2>1, <2>2, <2>3, <2>4, <2>5, <2>6, <2>7, <2>8, <2>9, <2>10, <2>11
          DEF ShellNext, ShellRuns
<1>4. CASE pc = "dead"
  <2>1. UNCHANGED shellVars
    BY <1>4 DEF ShellNext, ShellRuns, Types, ShellExits, Boot, MakesPipe, SpawnsStage,
                RedirectFails, ClosesPipeFd, Joins, Joined, At, StageRuns, KernelRuns,
                StageStartFails, HostRuns, allVars
  <2> QED BY <1>2, <1>4, <2>1
<1> QED BY <1>3, <1>4 DEF SInv

\* Back at the prompt no process of any line is alive or can still be joined, and the shell has
\* no descriptor left but those it started with.
THEOREM NothingStraggles == ShellSpec => []NoStragglers
<1>1. ShellInit => SInv
  BY InitWorks, KernelAssumption
<1>2. SInv /\ [ShellNext]_allVars => SInv'
  BY NextWorks, KernelAssumption, ShellAssumption
<1>3. SInv => NoStragglers
  <2> SUFFICES ASSUME SInv, pc = "prompt"
               PROVE  /\ \A p \in Proc \ {Root} : phase[p] \in {"unborn", "done", "failed"}
                      /\ children[Root] = {}
                      /\ DOMAIN fds[Root] = Std
    BY DEF NoStragglers
  <2>1. Works /\ Open = {} /\ Held = {}
    BY DEF SInv, Open, Held
  <2> QED BY <2>1 DEF Works, Family, Descriptors
<1> QED BY <1>1, <1>2, <1>3, PTL DEF ShellSpec

-----------------------------------------------------------------------------
(* What end of file means.                                                   *)

\* MakesPipe makes the line's pipes one after the other, the last of them last of all.
Mid(i) == made - Len(reads) + i

\* What the host gives the shell, and what stage i of the line is given.
StdEnd(f) == End(IF f = 0 THEN "read" ELSE "write", HostPipe(f))
StageEnd(i, f) ==
    IF f = 0 /\ i # 1 THEN End("read", Mid(i - 1))
    ELSE IF f = 1 /\ i # Len(line) THEN End("write", Mid(i))
    ELSE StdEnd(f)

\* The line, its pipes, and which of its stages have been spawned.
Lineup ==
    /\ pc \in Working \union {"dead"}
    /\ typed \in 0..MaxLines /\ last_exit \in {0, 1}
    /\ line \in Seq(Stage) /\ pids \in Seq(Proc \ {Root}) /\ Distinct(pids)
    /\ Len(reads) \in Nat /\ Len(writes) = Len(reads) /\ Len(reads) <= Len(line)
    /\ Len(pids) > 0 => Len(line) = Len(reads) + 1 /\ Len(pids) <= Len(line)
    /\ Cardinality(HostFds) + Len(reads) <= made
    /\ pc = "dead" =>
          \/ Len(pids) < Len(line)
          \/ \A i \in DOMAIN pids : phase[pids[i]] \in {"done", "failed"}

\* The shell's own ends, and those of its pipes while it hands them out.
ShellEnds ==
    /\ phase[Root] \in {"opening", "running"} =>
          DOMAIN merged[Root] = Std /\ \A f \in Std : merged[Root][f] = StdEnd(f)
    /\ pc \notin {"boot", "dead"} => \A f \in Std : fds[Root][f] = StdEnd(f)
    /\ pc = "dead" => phase[Root] \in {"draining", "done"}
    /\ pc \in {"piping", "spawning"} =>
          \A i \in 1..Len(reads) : /\ fds[Root][reads[i]] = End("read", Mid(i))
                                   /\ fds[Root][writes[i]] = End("write", Mid(i))

\* What a process other than the shell has, and the call it is in.
Sound(p) ==
    /\ phase[p] \notin {"opening", "running", "failed"} => merged[p] = NoFds
    /\ phase[p] = "running" => fds[p] = merged[p]
    /\ phase[p] # "running" => op[p] = Idle
    /\ phase[p] \notin {"unborn", "done", "failed"} => p \in Elements(pids)
    /\ phase[p] = "unborn" => took[p] = 0 /\ moved[p] = 0
    /\ IsSource(stage[p]) => ended[p]
    /\ op[p].call \in {"none", "read", "write"}
    /\ op[p].call = "read" => /\ ~ended[p] /\ 0 \in DOMAIN merged[p]
                              /\ op[p].pipe = merged[p][0].pipe
    /\ op[p].call = "write" => /\ pending[p] > 0 /\ 1 \in DOMAIN merged[p]
                               /\ op[p].pipe = merged[p][1].pipe

Programs == \A p \in Proc \ {Root} : Sound(p)

ProgTypes ==
    /\ stage \in [Proc -> Stage \union {NoStage}]
    /\ took \in [Proc -> Nat] /\ moved \in [Proc -> Nat]
    /\ pending \in [Proc -> Nat]
    /\ \A p \in Proc : pending[p] <= IF IsSource(stage[p]) THEN Chunks ELSE Capacity
    /\ ended \in [Proc -> BOOLEAN] /\ code \in [Proc -> {0, 1}]

\* The stages were given their ends of the line's pipes, and nothing else.
StageEnds ==
    \A i \in DOMAIN pids :
        /\ stage[pids[i]] = line[i]
        /\ \A f \in DOMAIN merged[pids[i]] :
              f \notin Files(line[i]) /\ merged[pids[i]][f] = StageEnd(i, f)

\* What the writer of pipe i has written, and its reader has read.
Sent(i) == IF i \in DOMAIN pids /\ ~IsFile(pids[i], 1) THEN moved[pids[i]] ELSE 0
Got(i) ==
    IF i + 1 \in DOMAIN pids /\ ~IsFile(pids[i + 1], 0) THEN took[pids[i + 1]] ELSE 0

AtEof(i) ==
    /\ i + 1 \in DOMAIN pids
    /\ ended[pids[i + 1]] /\ Program(pids[i + 1]) = "cat" /\ ~IsFile(pids[i + 1], 0)

\* Pipe i is closed by its writer alone, as it ends, and loses nothing.
Stream(i) ==
    /\ closed[Mid(i)] => i \in DOMAIN pids /\ Ended(pids[i])
    /\ Sent(i) = Got(i) + level[Mid(i)]
    /\ AtEof(i) => closed[Mid(i)] /\ level[Mid(i)] = 0

Streams == \A i \in 1..Len(reads) : Stream(i)

\* The terminal stays open while the shell is there, and no pipe is used before it is made.
Untouched ==
    /\ phase[Root] \in {"unborn", "opening", "running"} =>
          \A f \in HostFds \ {0} : ~closed[HostPipe(f)]
    /\ \A k \in Pipe : k > made => ~closed[k] /\ level[k] = 0

Flow == Lineup /\ ShellEnds /\ Programs /\ ProgTypes /\ StageEnds /\ Streams /\ Untouched

LEMMA Pipes ==
    ASSUME KernelAssumption, IInv, Lineup
    PROVE  /\ made \in Nat /\ made <= MaxPipes /\ MaxPipes \in Nat
           /\ Cardinality(HostFds) \in Nat
           /\ \A f \in HostFds : HostPipe(f) \in 1..Cardinality(HostFds)
           /\ \A i \in 1..Len(reads) :
                 Mid(i) \in Pipe /\ Mid(i) \in Cardinality(HostFds) + 1..made
           /\ \A i, j \in 1..Len(reads) : Mid(i) = Mid(j) => i = j
<1>1. HostFds \in SUBSET (0..2)
  BY DEF KernelAssumption
<1>2. Cardinality(HostFds) \in Nat
  BY <1>1, IntervalFinite, FS_Subset, FS_CardinalityType
<1>3. \A f \in HostFds : HostPipe(f) \in 1..Cardinality(HostFds)
  BY <1>1, Rank DEF HostPipe
<1>4. made \in Nat /\ made <= MaxPipes /\ MaxPipes \in Nat
  BY <1>2 DEF IInv, TypeInvariant, KernelAssumption
<1>5. Len(reads) \in Nat /\ Cardinality(HostFds) + Len(reads) <= made
  BY DEF Lineup
<1> QED BY <1>2, <1>3, <1>4, <1>5 DEF Mid, Pipe

\* The pipe of any end that a process was given.
LEMMA Entry ==
    ASSUME IInv, KernelAssumption, NEW p \in Proc, NEW f \in DOMAIN merged[p]
    PROVE  /\ merged[p][f].pipe \in 1..made /\ merged[p][f].pipe \in Pipe
           /\ merged[p][f].dir \in {"read", "write"} /\ f \in Std
<1>1. merged[p][f] \in FdEntry /\ f \in Std
  BY DEF IInv, TypeInvariant
<1>2. made \in Nat /\ made <= MaxPipes /\ MaxPipes \in Nat
  <2>1. HostFds \in SUBSET (0..2)
    BY DEF KernelAssumption
  <2>2. Cardinality(HostFds) \in Nat
    BY <2>1, IntervalFinite, FS_Subset, FS_CardinalityType
  <2> QED BY <2>2 DEF IInv, TypeInvariant, KernelAssumption
<1> QED BY <1>1, <1>2 DEF FdEntry, Pipe

\* A stage of the line is some other process than the shell.
LEMMA StageOf ==
    ASSUME Lineup, NEW i \in DOMAIN pids
    PROVE  /\ pids[i] \in Proc \ {Root} /\ i \in 1..Len(pids) /\ Len(pids) \in Nat
           /\ Len(line) = Len(reads) + 1 /\ i <= Len(line) /\ i \in Nat
<1>1. pids \in Seq(Proc \ {Root}) /\ DOMAIN pids = 1..Len(pids) /\ Len(pids) \in Nat
  BY LenProperties DEF Lineup
<1>2. Len(reads) \in Nat
  BY DEF Lineup
<1>3. pids[i] \in Proc \ {Root} /\ i \in 1..Len(pids)
  BY <1>1
<1>4. Len(line) = Len(reads) + 1 /\ Len(pids) <= Len(line)
  BY <1>1, <1>3 DEF Lineup
<1> QED BY <1>1, <1>2, <1>3, <1>4

LEMMA Elem ==
    ASSUME Lineup, NEW p \in Elements(pids)
    PROVE  \E i \in DOMAIN pids : pids[i] = p
BY DEF Elements

-----------------------------------------------------------------------------
(* What a step leaves as it was.                                             *)

\* A step of somebody other than the shell.
LEMMA OthersKeep ==
    ASSUME KernelAssumption, IInv, Flow, Aside, made' = made, stage' = stage,
           \A q \in Proc : \/ merged'[q] = merged[q] \/ merged'[q] = NoFds
                           \/ /\ DOMAIN merged'[q] \subseteq DOMAIN merged[q]
                              /\ \A f \in DOMAIN merged'[q] : merged'[q][f] = merged[q][f]
    PROVE  Lineup' /\ ShellEnds' /\ StageEnds'
<1>0. /\ pc' = pc /\ typed' = typed /\ line' = line /\ reads' = reads /\ writes' = writes
      /\ pids' = pids /\ last_exit' = last_exit
  BY DEF Aside, shellVars
<1>1. Lineup'
  <2>1. ASSUME NEW i \in DOMAIN pids, phase[pids[i]] \in {"done", "failed"}
        PROVE  phase'[pids[i]] \in {"done", "failed"}
    <3>1. pids[i] \in Proc \ {Root}
      BY StageOf DEF Flow
    <3> QED BY <2>1, <3>1 DEF Aside
  <2>2. pc' = "dead" =>
          \/ Len(pids) < Len(line)
          \/ \A i \in DOMAIN pids : phase'[pids[i]] \in {"done", "failed"}
    BY <1>0, <2>1 DEF Flow, Lineup
  <2> QED BY <1>0, <2>2 DEF Flow, Lineup
<1>2. ShellEnds'
  <2>1. \A i : Mid(i)' = Mid(i)
    BY <1>0 DEF Mid
  <2>2. \A f : StdEnd(f)' = StdEnd(f)
    BY DEF StdEnd
  <2> QED BY <1>0, <2>1, <2>2 DEF Flow, ShellEnds, Aside
<1>3. StageEnds'
  <2> SUFFICES ASSUME NEW i \in DOMAIN pids
               PROVE  /\ stage[pids[i]] = line[i]
                      /\ \A f \in DOMAIN merged'[pids[i]] :
                            f \notin Files(line[i]) /\ merged'[pids[i]][f] = StageEnd(i, f)'
    BY <1>0 DEF StageEnds, Files
  <2>1. pids[i] \in Proc
    BY StageOf DEF Flow
  <2>2. \A f : StageEnd(i, f)' = StageEnd(i, f)
    BY <1>0 DEF StageEnd, Mid, StdEnd
  <2>3. DOMAIN NoFds = {}
    BY DEF NoFds
  <2>4. \A f \in DOMAIN merged[pids[i]] :
           f \notin Files(line[i]) /\ merged[pids[i]][f] = StageEnd(i, f)
    BY DEF Flow, StageEnds
  <2>5. stage[pids[i]] = line[i]
    BY DEF Flow, StageEnds
  <2>6. /\ DOMAIN merged'[pids[i]] \subseteq DOMAIN merged[pids[i]]
        /\ \A f \in DOMAIN merged'[pids[i]] : merged'[pids[i]][f] = merged[pids[i]][f]
    BY <2>1, <2>3
  <2> HIDE DEF Files, StageEnd
  <2> QED BY <2>2, <2>4, <2>5, <2>6
<1> QED BY <1>1, <1>2, <1>3

LEMMA SoundStays ==
    ASSUME NEW p \in Proc, Sound(p),
           phase'[p] = phase[p], merged'[p] = merged[p], fds'[p] = fds[p], op'[p] = op[p],
           stage'[p] = stage[p], pending'[p] = pending[p], ended'[p] = ended[p],
           took'[p] = took[p], moved'[p] = moved[p],
           p \in Elements(pids) => p \in Elements(pids') \/ phase[p] \in {"done", "failed"}
    PROVE  Sound(p)'
<1>1. Elements(pids)' = Elements(pids')
  BY DEF Elements
<1>2. IsSource(stage[p])' = IsSource(stage[p])
  BY DEF IsSource
<1> HIDE DEF IsSource, Elements
<1> QED BY <1>1, <1>2 DEF Sound, Idle

LEMMA StreamStays ==
    ASSUME NEW i \in Nat, Stream(i), UNCHANGED <<reads, pids, made, stage>>,
           closed'[Mid(i)] = closed[Mid(i)], level'[Mid(i)] = level[Mid(i)],
           Sent(i)' = Sent(i), Got(i)' = Got(i), AtEof(i)' => AtEof(i),
           i \in DOMAIN pids /\ Ended(pids[i]) => Ended(pids[i])'
    PROVE  Stream(i)'
<1>1. Mid(i)' = Mid(i)
  BY DEF Mid
<1>2. closed[Mid(i)]' = closed'[Mid(i)] /\ level[Mid(i)]' = level'[Mid(i)]
  BY <1>1
<1>3. (i \in DOMAIN pids /\ Ended(pids[i]))' = (i \in DOMAIN pids /\ Ended(pids[i])')
  BY DEF Ended
<1> HIDE DEF Mid, Ended, Sent, Got, AtEof
<1> QED BY <1>2, <1>3 DEF Stream

\* A step in which nothing is written, read or closed.
LEMMA StreamsStay ==
    ASSUME Streams, Lineup, UNCHANGED <<reads, pids, made, stage, moved, took, ended, closed>>,
           \A i \in 1..Len(reads) : level'[Mid(i)] = level[Mid(i)],
           \A i \in DOMAIN pids : Ended(pids[i]) => Ended(pids[i])'
    PROVE  Streams'
<1> SUFFICES ASSUME NEW i \in 1..Len(reads) PROVE Stream(i)'
  BY DEF Streams
<1>1. Sent(i)' = Sent(i) /\ Got(i)' = Got(i) /\ AtEof(i)' = AtEof(i)
  BY DEF Sent, Got, AtEof, IsFile, Files, Program
<1>2. i \in Nat
  BY DEF Lineup
<1> QED BY <1>1, <1>2, StreamStays DEF Streams

LEMMA UntouchedStays ==
    ASSUME Untouched, UNCHANGED <<made, closed>>,
           \A k \in Pipe : level'[k] = level[k] \/ level'[k] = 0 \/ k <= made,
           phase'[Root] \in {"unborn", "opening", "running"}
               => phase[Root] \in {"unborn", "opening", "running"},
           made \in Nat, MaxPipes \in Nat
    PROVE  Untouched'
<1>1. \A f \in HostFds \ {0} : HostPipe(f)' = HostPipe(f)
  BY DEF HostPipe
<1>2. \A k \in Pipe : k \in Nat
  BY DEF Pipe
<1>3. \A k \in Pipe : k > made => ~(k <= made)
  BY <1>2
<1>4. \A k \in Pipe : k > made => ~closed[k] /\ level'[k] = 0
  BY <1>3 DEF Untouched
<1> QED BY <1>1, <1>4 DEF Untouched

\* The types leave the programs' tables alone, too.
LEMMA ProgTables ==
    ASSUME ProgTypes
    PROVE  /\ DOMAIN stage = Proc /\ DOMAIN pending = Proc /\ DOMAIN ended = Proc
           /\ DOMAIN took = Proc /\ DOMAIN moved = Proc /\ DOMAIN code = Proc
BY DEF ProgTypes

\* Process p's entries are all that changes of the processes'.
Only(p) ==
    /\ pids' = pids
    /\ \A q \in Proc \ {p} :
          /\ phase'[q] = phase[q] /\ merged'[q] = merged[q] /\ fds'[q] = fds[q] /\ op'[q] = op[q]
          /\ stage'[q] = stage[q] /\ pending'[q] = pending[q] /\ ended'[q] = ended[q]
          /\ took'[q] = took[q] /\ moved'[q] = moved[q]

LEMMA OnlyOne ==
    ASSUME Programs, NEW p \in Proc, Only(p), p # Root => Sound(p)'
    PROVE  Programs'
<1>1. Elements(pids') = Elements(pids)
  BY DEF Only
<1>2. ASSUME NEW q \in Proc \ {Root}, q # p PROVE Sound(q)'
  BY <1>1, <1>2, SoundStays DEF Only, Programs
<1> QED BY <1>2 DEF Programs

\* A call is made.
LEMMA CallsFlow ==
    ASSUME KernelAssumption, IInv, Flow, NEW p \in Proc \ {Root}, Aside,
           Reads(p) \/ Writes(p)
    PROVE  Flow'
<1>0. /\ Calling(p) /\ UNCHANGED progVars /\ UNCHANGED <<pipeVars, procButOp>> /\ pids' = pids
      /\ reads' = reads
      /\ \/ /\ op' = [op EXCEPT ![p] = [call |-> "read", pipe |-> fds[p][0].pipe, child |-> p]]
            /\ 0 \in DOMAIN fds[p] /\ ~ended[p]
         \/ /\ op' = [op EXCEPT ![p] = [call |-> "write", pipe |-> fds[p][1].pipe, child |-> p]]
            /\ 1 \in DOMAIN fds[p] /\ pending[p] > 0
  BY DEF Reads, Writes, FdRead, FdWrite, FdCall, Usable, Aside, shellVars
<1>1. /\ UNCHANGED <<made, closed, level, phase, merged, fds>>
      /\ UNCHANGED <<stage, pending, ended, took, moved, code>>
  BY <1>0 DEF pipeVars, procButOp, progVars
<1>2. Lineup' /\ ShellEnds' /\ StageEnds'
  BY <1>1, OthersKeep
<1>3. Programs'
  <2>1. Only(p)
    BY <1>0, <1>1, Tables DEF Only
  <2>2. Sound(p) /\ phase[p] = "running" /\ fds[p] = merged[p]
    BY <1>0 DEF Flow, Programs, Calling, Sound
  <2>3. \/ /\ op'[p].call = "read" /\ op'[p].pipe = merged[p][0].pipe
           /\ 0 \in DOMAIN merged[p] /\ ~ended[p]
        \/ /\ op'[p].call = "write" /\ op'[p].pipe = merged[p][1].pipe
           /\ 1 \in DOMAIN merged[p] /\ pending[p] > 0
    <3>1. p \in DOMAIN op
      BY Tables
    <3> QED BY <1>0, <2>2, <3>1
  <2>4. Sound(p)'
    BY <1>0, <1>1, <2>2, <2>3 DEF Sound, IsSource, Elements
  <2> QED BY <2>1, <2>4, OnlyOne DEF Flow
<1>4. ProgTypes'
  BY <1>1 DEF Flow, ProgTypes, IsSource
<1>5. Streams'
  BY <1>0, <1>1, StreamsStay DEF Flow, Ended
<1>6. Untouched'
  BY <1>1, Pipes, UntouchedStays DEF Flow
<1> QED BY <1>2, <1>3, <1>4, <1>5, <1>6 DEF Flow

\* Where a stage of the line reads and writes.
LEMMA Ends ==
    ASSUME KernelAssumption, IInv, Flow, NEW i \in DOMAIN pids, NEW f \in DOMAIN merged[pids[i]]
    PROVE  /\ ~IsFile(pids[i], f) /\ stage[pids[i]] = line[i]
           /\ f = 0 /\ i # 1 => merged[pids[i]][f].pipe = Mid(i - 1)
           /\ f = 1 /\ i # Len(line) => merged[pids[i]][f].pipe = Mid(i)
           /\ ~(f = 0 /\ i # 1) /\ ~(f = 1 /\ i # Len(line)) =>
                 merged[pids[i]][f].pipe = HostPipe(f)
           /\ merged[pids[i]][f].dir = IF f = 0 THEN "read" ELSE "write"
<1>1. stage[pids[i]] = line[i] /\ f \notin Files(line[i]) /\ merged[pids[i]][f] = StageEnd(i, f)
  BY DEF Flow, StageEnds
<1>2. \A side, k : End(side, k).pipe = k /\ End(side, k).dir = side
  BY DEF End
<1> HIDE DEF Mid, HostPipe
<1> QED BY <1>1, <1>2 DEF StageEnd, StdEnd, IsFile

\* A read of stage j takes from the pipe before it, and from no other pipe of the line.
LEMMA ReadsFrom ==
    ASSUME KernelAssumption, ShellAssumption, IInv, Flow, NEW j \in DOMAIN pids,
           0 \in DOMAIN merged[pids[j]], NEW i \in 1..Len(reads)
    PROVE  /\ i + 1 = j => merged[pids[j]][0].pipe = Mid(i) /\ ~IsFile(pids[j], 0)
           /\ i + 1 # j => merged[pids[j]][0].pipe # Mid(i)
<1>1. /\ \A g \in HostFds : HostPipe(g) \in 1..Cardinality(HostFds)
      /\ Cardinality(HostFds) \in Nat /\ 0 \in HostFds
      /\ Mid(i) \in Cardinality(HostFds) + 1..made /\ made \in Nat
      /\ \A n, m \in 1..Len(reads) : Mid(n) = Mid(m) => n = m
  BY Pipes DEF Flow, ShellAssumption
<1>2. j \in Nat /\ j \in 1..Len(line) /\ Len(line) = Len(reads) + 1 /\ Len(reads) \in Nat
  BY StageOf DEF Flow, Lineup
<1>3. ~IsFile(pids[j], 0)
  BY Ends
<1>4. CASE j = 1
  <2>1. merged[pids[j]][0].pipe = HostPipe(0)
    BY <1>4, Ends
  <2>2. HostPipe(0) \in 1..Cardinality(HostFds)
    BY <1>1
  <2>3. HostPipe(0) # Mid(i) /\ i + 1 # j
    BY <1>1, <1>4, <2>2
  <2> QED BY <2>1, <2>3
<1>5. CASE j # 1
  <2>1. merged[pids[j]][0].pipe = Mid(j - 1)
    BY <1>5, Ends
  <2>2. j - 1 \in 1..Len(reads) /\ (i + 1 = j <=> i = j - 1)
    BY <1>2, <1>5
  <2> QED BY <1>1, <1>3, <2>1, <2>2
<1> QED BY <1>4, <1>5

\* A write of stage j goes into the pipe after it, and into no other pipe of the line.
LEMMA WritesTo ==
    ASSUME KernelAssumption, ShellAssumption, IInv, Flow, NEW j \in DOMAIN pids,
           1 \in DOMAIN merged[pids[j]], NEW i \in 1..Len(reads)
    PROVE  /\ i = j => merged[pids[j]][1].pipe = Mid(i) /\ ~IsFile(pids[j], 1)
           /\ i # j => merged[pids[j]][1].pipe # Mid(i)
<1>1. /\ \A g \in HostFds : HostPipe(g) \in 1..Cardinality(HostFds)
      /\ Cardinality(HostFds) \in Nat /\ 1 \in HostFds
      /\ Mid(i) \in Cardinality(HostFds) + 1..made /\ made \in Nat
      /\ \A n, m \in 1..Len(reads) : Mid(n) = Mid(m) => n = m
  BY Pipes DEF Flow, ShellAssumption
<1>2. j \in Nat /\ j \in 1..Len(line) /\ Len(line) = Len(reads) + 1 /\ Len(reads) \in Nat
  BY StageOf DEF Flow, Lineup
<1>3. ~IsFile(pids[j], 1)
  BY Ends
<1>4. CASE j = Len(line)
  <2>1. merged[pids[j]][1].pipe = HostPipe(1)
    BY <1>4, Ends
  <2>2. HostPipe(1) \in 1..Cardinality(HostFds)
    BY <1>1
  <2>3. HostPipe(1) # Mid(i) /\ i # j
    BY <1>1, <1>2, <1>4, <2>2
  <2> QED BY <2>1, <2>3
<1>5. CASE j # Len(line)
  <2>1. merged[pids[j]][1].pipe = Mid(j)
    BY <1>5, Ends
  <2>2. j \in 1..Len(reads)
    BY <1>2, <1>5
  <2> QED BY <1>1, <1>3, <2>1, <2>2
<1> QED BY <1>4, <1>5

\* A process in a call is a stage of the line, and runs.
LEMMA InCall ==
    ASSUME Flow, NEW p \in Proc \ {Root}, op[p].call \in {"read", "write"}
    PROVE  /\ phase[p] = "running" /\ \E j \in DOMAIN pids : pids[j] = p
           /\ op[p].call = "read" => /\ ~ended[p] /\ 0 \in DOMAIN merged[p]
                                     /\ op[p].pipe = merged[p][0].pipe
           /\ op[p].call = "write" => /\ pending[p] > 0 /\ 1 \in DOMAIN merged[p]
                                      /\ op[p].pipe = merged[p][1].pipe
<1>1. Sound(p)
  BY DEF Flow, Programs
<1>2. phase[p] = "running"
  BY <1>1 DEF Sound, Idle
<1> QED BY <1>1, <1>2, Elem DEF Sound, Flow

\* What the others' pipes are to a step of stage j.
LEMMA NotMine ==
    ASSUME Flow, NEW j \in DOMAIN pids, NEW i \in DOMAIN pids, i # j
    PROVE  pids[i] # pids[j]
BY DEF Flow, Lineup, Distinct

LEMMA ReadAnsweredFlow ==
    ASSUME KernelAssumption, ShellAssumption, IInv, Flow, NEW p \in Proc \ {Root}, Aside,
           ReadAnswered(p)
    PROVE  Flow'
<1> DEFINE k == op[p].pipe
           n == level[k] - level'[k]
           wanted == IF Program(p) = "head" /\ n > 0 THEN 1 ELSE n
<1>0. /\ op[p].call = "read"
      /\ level[k] > 0 \/ closed[k]
      /\ \E m \in Remains(k) : level' = [level EXCEPT ![k] = m]
      /\ op' = [op EXCEPT ![p] = Idle]
      /\ UNCHANGED <<made, ends, holders, closed, drain>>
      /\ UNCHANGED <<phase, merged, fds, stage, moved, code>>
      /\ pending' = [pending EXCEPT ![p] = wanted]
      /\ ended' = [ended EXCEPT ![p] = n = 0 \/ Program(p) = "head"]
      /\ took' = [took EXCEPT ![p] = @ + n]
      /\ pids' = pids /\ reads' = reads /\ line' = line
  BY DEF ReadAnswered, ReadReturns, Aside, shellVars, procButOp
<1>1. Lineup' /\ ShellEnds' /\ StageEnds'
  BY <1>0, OthersKeep
<1>2. PICK j \in DOMAIN pids : pids[j] = p
  BY <1>0, InCall
<1>3. /\ phase[p] = "running" /\ ~ended[p] /\ 0 \in DOMAIN merged[p] /\ k = merged[p][0].pipe
      /\ k \in Pipe /\ n \in 0..Capacity /\ n \in Nat /\ Capacity \in Nat \ {0}
      /\ level[k] \in Nat /\ level'[k] \in Nat /\ (n = 0 => closed[k] /\ level'[k] = 0)
      /\ (level[k] = 0 => level'[k] = level[k])
      /\ \A l \in Pipe : l # k => level'[l] = level[l]
  <2>1. phase[p] = "running" /\ ~ended[p] /\ 0 \in DOMAIN merged[p] /\ k = merged[p][0].pipe
    BY <1>0, InCall
  <2>2. k \in Pipe
    BY <2>1, Entry
  <2>3. level \in [Pipe -> 0..Capacity] /\ Capacity \in Nat \ {0}
    BY DEF IInv, TypeInvariant, KernelAssumption
  <2>4. level[k] \in 0..Capacity
    BY <2>2, <2>3
  <2>5. PICK m \in 0..level[k] : /\ (m < level[k] \/ level[k] = 0)
                                  /\ level' = [level EXCEPT ![k] = m]
    BY <1>0 DEF Remains
  <2>6. level'[k] = m /\ \A l \in Pipe : l # k => level'[l] = level[l]
    BY <2>2, <2>3, <2>5
  <2>7. /\ n \in 0..Capacity /\ n \in Nat /\ level'[k] \in Nat
        /\ (n = 0 => level[k] = 0 /\ level'[k] = 0) /\ (level[k] = 0 => level'[k] = level[k])
    BY <2>3, <2>4, <2>5, <2>6
  <2> QED BY <1>0, <2>1, <2>2, <2>3, <2>4, <2>6, <2>7
<1>4. Sound(p) /\ ~IsSource(stage[p])
  BY <1>3 DEF Flow, Programs, Sound
<1>5. /\ DOMAIN pending = Proc /\ DOMAIN ended = Proc /\ DOMAIN took = Proc /\ DOMAIN op = Proc
      /\ DOMAIN level = Pipe
  BY ProgTables, Tables DEF Flow, IInv, TypeInvariant
<1>6. /\ op'[p] = Idle /\ took'[p] = took[p] + n /\ ended'[p] = (n = 0 \/ Program(p) = "head")
      /\ pending'[p] = wanted
      /\ \A q \in Proc \ {p} : /\ op'[q] = op[q] /\ took'[q] = took[q] /\ ended'[q] = ended[q]
                               /\ pending'[q] = pending[q]
      /\ \A l \in Pipe : l # k => level'[l] = level[l]
  BY <1>0, <1>3, <1>5
<1>7. wanted \in Nat /\ wanted <= Capacity
  BY <1>3
<1> HIDE DEF wanted, n
<1>8. Programs'
  <2>1. Only(p)
    BY <1>0, <1>6 DEF Only
  <2>2. Sound(p)'
    BY <1>0, <1>3, <1>4, <1>6 DEF Sound, IsSource, Elements, Idle
  <2> QED BY <2>1, <2>2, OnlyOne DEF Flow
<1>9. ProgTypes'
  <2>1. took' \in [Proc -> Nat] /\ pending' \in [Proc -> Nat] /\ ended' \in [Proc -> BOOLEAN]
    <3>1. took \in [Proc -> Nat] /\ pending \in [Proc -> Nat] /\ ended \in [Proc -> BOOLEAN]
      BY DEF Flow, ProgTypes
    <3>2. /\ pending' = [pending EXCEPT ![p] = wanted] /\ took' = [took EXCEPT ![p] = @ + n]
          /\ ended' = [ended EXCEPT ![p] = n = 0 \/ Program(p) = "head"]
      BY <1>0
    <3>3. n \in Nat /\ wanted \in Nat
      BY <1>3, <1>7
    <3> QED BY <3>1, <3>2, <3>3
  <2>2. ASSUME NEW q \in Proc
        PROVE  pending'[q] <= IF IsSource(stage[q]) THEN Chunks ELSE Capacity
    <3>1. CASE q = p
      BY <1>4, <1>6, <1>7, <3>1
    <3>2. CASE q # p
      BY <1>6, <3>2 DEF Flow, ProgTypes
    <3> QED BY <3>1, <3>2
  <2> QED BY <1>0, <2>1, <2>2 DEF Flow, ProgTypes, IsSource
<1>10. Streams'
  <2> SUFFICES ASSUME NEW i \in 1..Len(reads) PROVE Stream(i)'
    BY <1>0 DEF Streams
  <2>1. /\ Stream(i) /\ i \in Nat /\ Mid(i) \in Pipe /\ Mid(i)' = Mid(i)
        /\ Sent(i) \in Nat /\ Got(i) \in Nat
    <3>1. Sent(i) \in Nat /\ Got(i) \in Nat
      <4>1. \A m \in DOMAIN pids : moved[pids[m]] \in Nat /\ took[pids[m]] \in Nat
        BY StageOf DEF Flow, ProgTypes
      <4> QED BY <4>1 DEF Sent, Got
    <3> QED BY <1>0, <3>1, Pipes DEF Flow, Streams, Mid
  <2>2. Sent(i)' = Sent(i)
    BY <1>0 DEF Sent, IsFile, Files
  <2>3. (i \in DOMAIN pids /\ Ended(pids[i]))' = (i \in DOMAIN pids /\ Ended(pids[i]))
    BY <1>0 DEF Ended
  <2>4. CASE i + 1 = j
    <3>1. k = Mid(i) /\ ~IsFile(p, 0)
      BY <1>2, <1>3, <2>4, ReadsFrom
    <3>2. Got(i) = took[p] /\ Got(i)' = took[p] + n
      <4>1. pids[i + 1] = p /\ i + 1 \in DOMAIN pids
        BY <1>2, <2>4
      <4>2. took'[p] = took[p] + n /\ pids' = pids /\ stage' = stage
        BY <1>0, <1>6
      <4>3. ~IsFile(p, 0)'
        BY <3>1, <4>2 DEF IsFile, Files
      <4> HIDE DEF IsFile
      <4> QED BY <3>1, <4>1, <4>2, <4>3 DEF Got
    <3>3. Sent(i)' = Got(i)' + level'[Mid(i)]
      <4>1. Sent(i) = Got(i) + level[k] /\ level'[Mid(i)] = level'[k]
        BY <2>1, <3>1 DEF Stream
      <4>2. n = level[k] - level'[k] /\ level[k] \in Nat /\ level'[k] \in Nat
        BY <1>3 DEF n
      <4> QED BY <2>1, <2>2, <3>2, <4>1, <4>2
    <3>4. AtEof(i)' => closed[Mid(i)] /\ level'[Mid(i)] = 0
      <4>1. AtEof(i)' => ended'[p] /\ Program(p) = "cat"
        BY <1>0, <1>2, <2>4 DEF AtEof, Program
      <4>2. n = 0 => closed[k] /\ level'[k] = 0
        BY <1>3
      <4> QED BY <1>6, <3>1, <4>1, <4>2
    <3> QED BY <1>0, <1>6, <2>1, <2>3, <3>1, <3>3, <3>4 DEF Stream
  <2>5. CASE i + 1 # j
    <3>1. k # Mid(i)
      BY <1>2, <1>3, <2>5, ReadsFrom
    <3>2. i + 1 \in DOMAIN pids => pids[i + 1] # p /\ pids[i + 1] \in Proc
      BY <1>2, <2>5, NotMine, StageOf DEF Flow
    <3>3. Got(i)' = Got(i) /\ AtEof(i)' = AtEof(i)
      BY <1>0, <1>6, <3>2 DEF Got, AtEof, IsFile, Files, Program
    <3> QED BY <1>0, <1>6, <2>1, <2>2, <2>3, <3>1, <3>3, StreamStays
  <2> QED BY <2>4, <2>5
<1>11. Untouched'
  <2>1. \A l \in Pipe : l > made => level[l] = 0
    BY DEF Flow, Untouched
  <2>2. level[k] = 0 => level'[k] = level[k]
    BY <1>3
  <2>3. made \in Nat /\ k \in Nat
    BY <1>3, Pipes DEF Flow, Pipe
  <2>4. \A l \in Pipe : level'[l] = level[l] \/ level'[l] = 0 \/ l <= made
    BY <1>3, <1>6, <2>1, <2>2, <2>3
  <2> QED BY <1>0, <2>4, Pipes, UntouchedStays DEF Flow
<1> QED BY <1>1, <1>8, <1>9, <1>10, <1>11 DEF Flow

\* A write to a file goes into no pipe.
LEMMA WritesFileFlow ==
    ASSUME KernelAssumption, ShellAssumption, IInv, Flow, NEW p \in Proc \ {Root}, Aside,
           WritesFile(p)
    PROVE  Flow'
<1>0. /\ phase[p] = "running" /\ op[p] = Idle /\ pending[p] > 0 /\ IsFile(p, 1)
      /\ pending' = [pending EXCEPT ![p] = @ - 1] /\ moved' = [moved EXCEPT ![p] = @ + 1]
      /\ UNCHANGED <<made, closed, level, phase, merged, fds, op>>
      /\ UNCHANGED <<stage, ended, took, code>>
      /\ pids' = pids /\ reads' = reads /\ line' = line
  BY DEF WritesFile, Calling, Aside, shellVars, vars, pipeVars, procVars
<1>1. Lineup' /\ ShellEnds' /\ StageEnds'
  BY <1>0, OthersKeep
<1>2. /\ pending[p] \in Nat /\ moved[p] \in Nat /\ DOMAIN pending = Proc /\ DOMAIN moved = Proc
  BY DEF Flow, ProgTypes
<1>3. /\ pending'[p] = pending[p] - 1 /\ pending'[p] \in Nat /\ moved'[p] \in Nat
      /\ \A q \in Proc \ {p} : pending'[q] = pending[q] /\ moved'[q] = moved[q]
  BY <1>0, <1>2
<1>4. Programs'
  <2>1. Only(p)
    BY <1>0, <1>3 DEF Only
  <2>2. Sound(p)
    BY DEF Flow, Programs
  <2>3. Sound(p)'
    BY <1>0, <2>2 DEF Sound, IsSource, Elements, Idle
  <2> QED BY <2>1, <2>3, OnlyOne DEF Flow
<1>5. ProgTypes'
  <2>1. pending' \in [Proc -> Nat] /\ moved' \in [Proc -> Nat]
    BY <1>0, <1>2, <1>3 DEF Flow, ProgTypes
  <2>2. ASSUME NEW q \in Proc
        PROVE  pending'[q] <= IF IsSource(stage[q]) THEN Chunks ELSE Capacity
    <3>0. Chunks \in Nat /\ Capacity \in Nat
      BY DEF KernelAssumption, ShellAssumption
    <3>1. pending[q] <= IF IsSource(stage[q]) THEN Chunks ELSE Capacity
      BY DEF Flow, ProgTypes
    <3>2. CASE q = p
      BY <1>2, <1>3, <3>0, <3>1, <3>2
    <3>3. CASE q # p
      BY <1>3, <3>1, <3>3
    <3> QED BY <3>2, <3>3
  <2> QED BY <1>0, <2>1, <2>2 DEF Flow, ProgTypes, IsSource
<1>6. Streams'
  <2> SUFFICES ASSUME NEW i \in 1..Len(reads) PROVE Stream(i)'
    BY <1>0 DEF Streams
  <2>1. Stream(i) /\ i \in Nat
    BY DEF Flow, Streams, Lineup
  <2>2. i \in DOMAIN pids => pids[i] \in Proc
    BY StageOf DEF Flow
  <2>3. Sent(i)' = Sent(i)
    BY <1>0, <1>3, <2>2 DEF Sent, IsFile, Files
  <2>4. Got(i)' = Got(i) /\ AtEof(i)' = AtEof(i)
    BY <1>0 DEF Got, AtEof, IsFile, Files, Program
  <2> QED BY <1>0, <2>1, <2>3, <2>4, StreamStays DEF Ended
<1>7. Untouched'
  BY <1>0, Pipes, UntouchedStays DEF Flow
<1> QED BY <1>1, <1>4, <1>5, <1>6, <1>7 DEF Flow

\* A stage of the line that runs finds its pipe open, and so does the last its terminal.
LEMMA WritesOpen ==
    ASSUME KernelAssumption, ShellAssumption, IInv, Flow, SInv, NEW j \in DOMAIN pids,
           phase[pids[j]] = "running", 1 \in DOMAIN merged[pids[j]]
    PROVE  ~closed[merged[pids[j]][1].pipe]
<1>1. j \in Nat /\ j \in 1..Len(line) /\ Len(line) = Len(reads) + 1 /\ Len(reads) \in Nat
      /\ j <= Len(pids) /\ Len(pids) \in Nat
  BY StageOf DEF Flow, Lineup
<1>2. CASE j # Len(line)
  <2>1. j \in 1..Len(reads)
    BY <1>1, <1>2
  <2>2. Stream(j) /\ ~Ended(pids[j])
    BY <2>1 DEF Flow, Streams, Ended
  <2> QED BY <2>1, <2>2, WritesTo DEF Stream
<1>3. CASE j = Len(line)
  <2>1. merged[pids[j]][1].pipe = HostPipe(1)
    BY <1>3, Ends
  <2>2. phase[Root] \in {"unborn", "opening", "running"}
    <3>1. CASE pc = "dead"
      <4>1. ~(Len(pids) < Len(line))
        BY <1>1, <1>3
      <4> QED BY <3>1, <4>1 DEF Flow, Lineup
    <3>2. CASE pc # "dead"
      BY <3>2 DEF SInv, Works, Boots
    <3> QED BY <3>1, <3>2
  <2>3. 1 \in HostFds \ {0}
    BY DEF ShellAssumption
  <2> QED BY <2>1, <2>2, <2>3 DEF Flow, Untouched
<1> QED BY <1>2, <1>3

LEMMA WriteAnsweredFlow ==
    ASSUME KernelAssumption, ShellAssumption, IInv, Flow, SInv, NEW p \in Proc \ {Root}, Aside,
           WriteAnswered(p)
    PROVE  Flow'
<1> DEFINE k == op[p].pipe
<1>1. op[p].call = "write"
  BY DEF WriteAnswered, WriteReturns
<1>2. PICK j \in DOMAIN pids : pids[j] = p
  BY <1>1, InCall
<1>3. /\ phase[p] = "running" /\ pending[p] > 0 /\ 1 \in DOMAIN merged[p]
      /\ k = merged[p][1].pipe
  BY <1>1, InCall
<1>4. k \in Pipe /\ k <= made /\ made \in Nat
  <2>1. k \in Pipe /\ k \in 1..made
    BY <1>3, Entry
  <2> QED BY <2>1, Pipes DEF Flow
<1>5. ~closed[k]
  BY <1>2, <1>3, WritesOpen
<1>0. /\ level' = [level EXCEPT ![k] = @ + 1] /\ op' = [op EXCEPT ![p] = Idle]
      /\ UNCHANGED <<made, ends, holders, closed, drain>>
      /\ UNCHANGED <<phase, merged, fds, stage, took>>
      /\ pending' = [pending EXCEPT ![p] = @ - 1]
      /\ moved' = [moved EXCEPT ![p] = @ + 1]
      /\ ended' = [ended EXCEPT ![p] = @ \/ FALSE]
      /\ code' = [code EXCEPT ![p] = @]
      /\ pids' = pids /\ reads' = reads /\ line' = line
  BY <1>5 DEF WriteAnswered, WriteReturns, Aside, shellVars, procButOp
<1>6. Lineup' /\ ShellEnds' /\ StageEnds'
  BY <1>0, OthersKeep
<1>7. /\ pending \in [Proc -> Nat] /\ moved \in [Proc -> Nat] /\ ended \in [Proc -> BOOLEAN]
      /\ code \in [Proc -> {0, 1}] /\ DOMAIN op = Proc /\ level \in [Pipe -> 0..Capacity]
      /\ pending[p] \in Nat /\ moved[p] \in Nat /\ level[k] \in Nat
  <2>1. /\ pending \in [Proc -> Nat] /\ moved \in [Proc -> Nat] /\ ended \in [Proc -> BOOLEAN]
        /\ code \in [Proc -> {0, 1}]
    BY DEF Flow, ProgTypes
  <2>2. level \in [Pipe -> 0..Capacity] /\ Capacity \in Nat
    BY DEF IInv, TypeInvariant, KernelAssumption
  <2> HIDE DEF k
  <2>3. level[k] \in 0..Capacity
    BY <1>4, <2>2
  <2> QED BY <2>1, <2>2, <2>3, Tables
<1>8. /\ ended' = ended /\ code' = code
  BY <1>0, <1>7
<1>9. /\ op'[p] = Idle /\ moved'[p] = moved[p] + 1 /\ pending'[p] = pending[p] - 1
      /\ level'[k] = level[k] + 1 /\ pending'[p] \in Nat /\ moved'[p] \in Nat
      /\ \A q \in Proc \ {p} : op'[q] = op[q] /\ moved'[q] = moved[q] /\ pending'[q] = pending[q]
      /\ \A l \in Pipe : l # k => level'[l] = level[l]
  BY <1>0, <1>3, <1>4, <1>7
<1>10. Programs'
  <2>1. Only(p)
    BY <1>0, <1>8, <1>9 DEF Only
  <2>2. Sound(p)
    BY DEF Flow, Programs
  <2>3. Sound(p)'
    BY <1>0, <1>3, <1>8, <1>9, <2>2 DEF Sound, IsSource, Elements, Idle
  <2> QED BY <2>1, <2>3, OnlyOne DEF Flow
<1>11. ProgTypes'
  <2>1. pending' \in [Proc -> Nat] /\ moved' \in [Proc -> Nat]
    BY <1>0, <1>7, <1>9
  <2>2. ASSUME NEW q \in Proc
        PROVE  pending'[q] <= IF IsSource(stage[q]) THEN Chunks ELSE Capacity
    <3>0. Chunks \in Nat /\ Capacity \in Nat
      BY DEF KernelAssumption, ShellAssumption
    <3>1. pending[q] <= IF IsSource(stage[q]) THEN Chunks ELSE Capacity
      BY DEF Flow, ProgTypes
    <3>2. CASE q = p
      BY <1>7, <1>9, <3>0, <3>1, <3>2
    <3>3. CASE q # p
      BY <1>9, <3>1, <3>3
    <3> QED BY <3>2, <3>3
  <2> QED BY <1>0, <1>8, <2>1, <2>2 DEF Flow, ProgTypes, IsSource
<1>12. Streams'
  <2> SUFFICES ASSUME NEW i \in 1..Len(reads) PROVE Stream(i)'
    BY <1>0 DEF Streams
  <2>1. /\ Stream(i) /\ i \in Nat /\ Mid(i) \in Pipe /\ Mid(i)' = Mid(i)
        /\ Sent(i) \in Nat /\ Got(i) \in Nat
    <3>1. Sent(i) \in Nat /\ Got(i) \in Nat
      <4>1. \A m \in DOMAIN pids : moved[pids[m]] \in Nat /\ took[pids[m]] \in Nat
        BY StageOf DEF Flow, ProgTypes
      <4> QED BY <4>1 DEF Sent, Got
    <3> QED BY <1>0, <3>1, Pipes DEF Flow, Streams, Mid
  <2>2. Got(i)' = Got(i) /\ AtEof(i)' = AtEof(i)
    BY <1>0, <1>8 DEF Got, AtEof, IsFile, Files, Program
  <2>3. (i \in DOMAIN pids /\ Ended(pids[i]))' = (i \in DOMAIN pids /\ Ended(pids[i]))
    BY <1>0 DEF Ended
  <2>4. CASE i = j
    <3>1. k = Mid(i) /\ ~IsFile(p, 1)
      BY <1>2, <1>3, <2>4, WritesTo
    <3>2. Sent(i) = moved[p] /\ Sent(i)' = moved[p] + 1
      BY <1>0, <1>2, <1>9, <2>4, <3>1 DEF Sent, IsFile, Files
    <3>3. Sent(i)' = Got(i)' + level'[Mid(i)]
      <4>1. Sent(i) = Got(i) + level[k] /\ level'[Mid(i)] = level'[k]
        BY <2>1, <3>1 DEF Stream
      <4>2. level'[k] = level[k] + 1 /\ level[k] \in Nat
        BY <1>7, <1>9
      <4> QED BY <2>1, <2>2, <3>2, <4>1, <4>2
    <3>4. ~AtEof(i)
      BY <1>5, <2>1, <3>1 DEF Stream
    <3> QED BY <1>0, <2>1, <2>2, <2>3, <3>3, <3>4 DEF Stream
  <2>5. CASE i # j
    <3>1. k # Mid(i)
      BY <1>2, <1>3, <2>5, WritesTo
    <3>2. i \in DOMAIN pids => pids[i] # p /\ pids[i] \in Proc
      BY <1>2, <2>5, NotMine, StageOf DEF Flow
    <3>3. Sent(i)' = Sent(i)
      BY <1>0, <1>9, <3>2 DEF Sent, IsFile, Files
    <3> QED BY <1>0, <1>8, <1>9, <2>1, <2>2, <2>3, <3>1, <3>3, StreamStays
  <2> QED BY <2>4, <2>5
<1>13. Untouched'
  <2>1. \A l \in Pipe : level'[l] = level[l] \/ level'[l] = 0 \/ l <= made
    BY <1>4, <1>9
  <2> QED BY <1>0, <2>1, Pipes, UntouchedStays DEF Flow
<1> QED BY <1>6, <1>10, <1>11, <1>12, <1>13 DEF Flow

-----------------------------------------------------------------------------
(* Programs that start and end.                                              *)

\* A process that ends closes write ends of its own only.
LEMMA OwnEnds ==
    ASSUME NEW p, CloseWriteEnds(p), NEW k \in Pipe, closed'[k] # closed[k],
           closed[k] \in BOOLEAN
    PROVE  \E f \in DOMAIN merged[p] : merged[p][f].dir = "write" /\ merged[p][f].pipe = k
<1> DEFINE Closes(l) == IF <<"write", l>> \in ends THEN HeldBy(p, l) ELSE 0
           Left(l)   == IF holders[l] > Closes(l) THEN holders[l] - Closes(l) ELSE 0
<1>1. closed'[k] = (closed[k] \/ (Closes(k) > 0 /\ LastHolder(k, Left(k))))
  BY DEF CloseWriteEnds
<1>2. Closes(k) > 0
  BY <1>1
<1>3. HeldBy(p, k) # 0
  BY <1>2
<1>4. {f \in WriteFds(p) : merged[p][f].pipe = k} # {}
  BY <1>3, FS_EmptySet DEF HeldBy
<1> QED BY <1>4 DEF WriteFds

\* What a stage of the line closes is the pipe after it, or the terminal.
LEMMA StageCloses ==
    ASSUME KernelAssumption, ShellAssumption, IInv, Flow, NEW j \in DOMAIN pids,
           CloseWriteEnds(pids[j]), NEW i \in 1..Len(reads), i # j
    PROVE  closed'[Mid(i)] = closed[Mid(i)]
<1>1. /\ Mid(i) \in Pipe /\ Mid(i) \in Cardinality(HostFds) + 1..made /\ made \in Nat
      /\ Cardinality(HostFds) \in Nat
      /\ \A g \in HostFds : HostPipe(g) \in 1..Cardinality(HostFds)
  BY Pipes DEF Flow
<1>2. SUFFICES ASSUME closed'[Mid(i)] # closed[Mid(i)] PROVE FALSE
  OBVIOUS
<1>3. PICK f \in DOMAIN merged[pids[j]] :
         merged[pids[j]][f].dir = "write" /\ merged[pids[j]][f].pipe = Mid(i)
  <2>1. closed[Mid(i)] \in BOOLEAN
    BY <1>1 DEF IInv, TypeInvariant
  <2> QED BY <1>1, <1>2, <2>1, OwnEnds
<1>4. f # 0
  BY <1>3, Ends
<1>5. f # 1
  BY <1>3, WritesTo
<1>6. merged[pids[j]][f].pipe = HostPipe(f)
  BY <1>4, <1>5, Ends
<1>7. f \in HostFds
  <2>1. pids[j] \in Proc
    BY StageOf DEF Flow
  <2> QED BY <2>1, Entry DEF ShellAssumption
<1>8. Mid(i) \in 1..Cardinality(HostFds)
  BY <1>1, <1>3, <1>6, <1>7
<1> QED BY <1>1, <1>8

\* The terminal outlives everybody but the shell.
LEMMA TerminalHeld ==
    ASSUME KernelAssumption, ShellAssumption, IInv', ClosesLast, Flow, IInv,
           phase'[Root] = "running", phase[Root] = "running", merged'[Root] = merged[Root],
           NEW f \in HostFds \ {0}
    PROVE  ~closed[HostPipe(f)] => ~closed'[HostPipe(f)]
<1> DEFINE k == HostPipe(f)
<1>1. k \in Pipe
  <2>1. k \in 1..Cardinality(HostFds) /\ Cardinality(HostFds) \in Nat
    BY Pipes DEF Flow
  <2> QED BY <2>1 DEF KernelAssumption, Pipe
<1>2. f \in Std /\ DOMAIN merged[Root] = Std /\ merged[Root][f] = StdEnd(f)
  BY DEF Flow, ShellEnds, ShellAssumption
<1>3. merged'[Root][f].dir = "write" /\ merged'[Root][f].pipe = k /\ f \in DOMAIN merged'[Root]
  BY <1>2 DEF StdEnd, End
<1> HIDE DEF k
<1>4. <<Root, f>> \in LiveRefs(k)'
  BY <1>2, <1>3 DEF LiveRefs, Running, WriteFds, KernelAssumption
<1>5. LiveHolds(k)' # 0
  <2>1. IsFiniteSet(Running') /\ IsFiniteSet(Std)
    <3>1. Running' \in SUBSET Proc /\ Std \in SUBSET (0..2)
      BY DEF Running, KernelAssumption
    <3> QED BY <3>1, IntervalFinite, FS_Subset DEF KernelAssumption
  <2>2. IsFiniteSet(Running' \X Std)
    BY <2>1, FS_Product
  <2>3. LiveRefs(k)' \in SUBSET (Running' \X Std)
    BY DEF LiveRefs
  <2>4. IsFiniteSet(LiveRefs(k)') /\ LiveRefs(k)' # {}
    BY <1>4, <2>2, <2>3, FS_Subset
  <2>5. Cardinality(LiveRefs(k)') # 0
    BY <2>4, FS_EmptySet
  <2> QED BY <2>5 DEF LiveHolds
<1> QED BY <1>1, <1>5 DEF ClosesLast, k

\* A pipe that was not made yet is not closed.
LEMMA NoneFresh ==
    ASSUME KernelAssumption, IInv, Flow, NEW p \in Proc, CloseWriteEnds(p),
           NEW k \in Pipe, k > made
    PROVE  closed'[k] = closed[k]
<1>1. SUFFICES ASSUME closed'[k] # closed[k] PROVE FALSE
  OBVIOUS
<1>2. closed[k] \in BOOLEAN
  BY DEF IInv, TypeInvariant
<1>3. PICK f \in DOMAIN merged[p] : merged[p][f].pipe = k
  BY <1>1, <1>2, OwnEnds
<1>4. k \in 1..made /\ made \in Nat
  BY <1>3, Entry, Pipes DEF Flow
<1> QED BY <1>4

LEMMA EndsFlow ==
    ASSUME KernelAssumption, ShellAssumption, IInv, IInv', ClosesLast, Flow, SInv,
           NEW p \in Proc \ {Root}, Aside, Exits(p) \/ NotThere(p)
    PROVE  Flow'
<1>0. /\ phase[p] = "running" /\ op[p] = Idle /\ CloseWriteEnds(p) /\ TablesGo(p)
      /\ UNCHANGED <<owned, children, op>> /\ UNCHANGED progVars
      /\ (phase' = [phase EXCEPT ![p] = "draining"] \/ phase' = [phase EXCEPT ![p] = "failed"])
      /\ pids' = pids /\ reads' = reads /\ line' = line
  BY DEF Exits, NotThere, Exit, Crash, Aside, shellVars
<1>1. /\ UNCHANGED <<made, ends, level, drain>>
      /\ UNCHANGED <<stage, pending, ended, took, moved, code>>
  BY <1>0 DEF CloseWriteEnds, progVars
<1>2. /\ phase'[p] \in {"draining", "failed"} /\ merged'[p] = NoFds /\ fds'[p] = NoFds
      /\ \A q \in Proc \ {p} : phase'[q] = phase[q] /\ merged'[q] = merged[q] /\ fds'[q] = fds[q]
  BY <1>0, Tables DEF TablesGo
<1>3. PICK j \in DOMAIN pids : pids[j] = p
  BY <1>0, Elem DEF Flow, Programs, Sound
<1>4. Lineup' /\ ShellEnds' /\ StageEnds'
  BY <1>1, <1>2, OthersKeep
<1>5. Programs'
  <2>1. Only(p)
    BY <1>0, <1>1, <1>2 DEF Only
  <2>2. Sound(p) /\ p \in Elements(pids)
    BY <1>3 DEF Flow, Programs, Elements
  <2>3. Sound(p)'
    BY <1>0, <1>1, <1>2, <2>2 DEF Sound, IsSource, Elements, Idle
  <2> QED BY <2>1, <2>3, OnlyOne DEF Flow
<1>6. ProgTypes'
  BY <1>1 DEF Flow, ProgTypes, IsSource
<1>7. Streams'
  <2> SUFFICES ASSUME NEW i \in 1..Len(reads) PROVE Stream(i)'
    BY <1>0 DEF Streams
  <2>1. /\ Stream(i) /\ i \in Nat /\ Mid(i)' = Mid(i) /\ Mid(i) \in Pipe
    BY <1>0, <1>1, Pipes DEF Flow, Streams, Mid
  <2>2. Sent(i)' = Sent(i) /\ Got(i)' = Got(i) /\ AtEof(i)' = AtEof(i)
    BY <1>0, <1>1 DEF Sent, Got, AtEof, IsFile, Files, Program
  <2>3. i \in DOMAIN pids /\ Ended(pids[i]) => Ended(pids[i])'
    <3>1. i \in DOMAIN pids => pids[i] \in Proc
      BY StageOf DEF Flow
    <3> QED BY <1>0, <1>2, <3>1 DEF Ended
  <2>4. CASE i = j
    <3>1. closed[Mid(i)] => closed'[Mid(i)]
      BY <1>0, <2>1 DEF CloseWriteEnds
    <3>2. Ended(pids[i])'
      BY <1>0, <1>2, <1>3, <2>4 DEF Ended
    <3> QED BY <1>0, <1>1, <1>3, <2>1, <2>2, <2>4, <3>1, <3>2 DEF Stream
  <2>5. CASE i # j
    BY <1>0, <1>1, <1>3, <2>1, <2>2, <2>3, <2>5, StageCloses, StreamStays
  <2> QED BY <2>4, <2>5
<1>8. Untouched'
  <2>1. phase'[Root] = phase[Root] /\ merged'[Root] = merged[Root]
    BY DEF Aside
  <2>2. \A k \in Pipe : k > made => closed'[k] = closed[k]
    BY <1>0, NoneFresh
  <2>3. ASSUME phase[Root] \in {"unborn", "opening", "running"}, NEW f \in HostFds \ {0}
        PROVE  ~closed'[HostPipe(f)]
    <3>1. phase[Root] = "running"
      <4>1. pc # "dead"
        BY <2>3 DEF Flow, ShellEnds
      <4>2. pc # "boot"
        <5>1. SUFFICES ASSUME pc = "boot" PROVE FALSE
          OBVIOUS
        <5>2. Open = {}
          BY <5>1 DEF Open
        <5> QED BY <1>0, <4>1, <5>2 DEF SInv, Works, Family
      <4> QED BY <4>1, <4>2 DEF SInv, Works, Boots
    <3> QED BY <2>1, <2>3, <3>1, TerminalHeld DEF Flow, Untouched
  <2>4. \A f \in HostFds \ {0} : HostPipe(f)' = HostPipe(f)
    BY DEF HostPipe
  <2> QED BY <1>1, <2>1, <2>2, <2>3, <2>4 DEF Flow, Untouched
<1> QED BY <1>4, <1>5, <1>6, <1>7, <1>8 DEF Flow

\* A process that was to start starts, or does not, and one that drained is done.
LEMMA StartsFlow ==
    ASSUME KernelAssumption, ShellAssumption, IInv, Flow, NEW p \in Proc \ {Root}, Aside,
           UNCHANGED progVars, Start(p) \/ AcquireFails(p) \/ StartFails(p) \/ Finish(p)
    PROVE  Flow'
<1>0. /\ UNCHANGED <<made, closed, level, op>> /\ pids' = pids /\ reads' = reads /\ line' = line
      /\ UNCHANGED <<stage, pending, ended, took, moved, code>>
      /\ phase[p] \in {"opening", "draining"}
      /\ \/ /\ phase[p] = "opening" /\ phase' = [phase EXCEPT ![p] = "running"]
            /\ fds' = [fds EXCEPT ![p] = merged[p]] /\ merged' = merged
         \/ /\ phase[p] = "opening" /\ phase' = [phase EXCEPT ![p] = "failed"]
            /\ fds' = [fds EXCEPT ![p] = NoFds]
            /\ \/ merged' = [merged EXCEPT ![p] = NoFds]
               \/ merged' = [merged EXCEPT ![p] = [f \in Acquired(p) |-> merged[p][f]]]
         \/ /\ phase[p] = "draining" /\ phase' = [phase EXCEPT ![p] = "done"]
            /\ UNCHANGED <<merged, fds>>
  BY DEF Start, AcquireFails, StartFails, TablesGo, Finish, Aside, shellVars, progVars, pipeVars
<1>1. /\ \A q \in Proc \ {p} : phase'[q] = phase[q] /\ merged'[q] = merged[q] /\ fds'[q] = fds[q]
      /\ \/ /\ phase[p] = "opening" /\ phase'[p] = "running"
            /\ fds'[p] = merged[p] /\ merged'[p] = merged[p]
         \/ /\ phase'[p] = "failed"
            /\ DOMAIN merged'[p] \subseteq DOMAIN merged[p]
            /\ \A f \in DOMAIN merged'[p] : merged'[p][f] = merged[p][f]
         \/ phase'[p] = "done" /\ phase[p] = "draining" /\ merged'[p] = merged[p]
  <2>1. DOMAIN NoFds = {}
    BY DEF NoFds
  <2>2. Acquired(p) \in SUBSET DOMAIN merged[p]
    BY DEF Acquired, WriteFds
  <2> DEFINE rest == [f \in Acquired(p) |-> merged[p][f]]
  <2>3. DOMAIN rest \subseteq DOMAIN merged[p] /\ \A f \in DOMAIN rest : rest[f] = merged[p][f]
    BY <2>2
  <2>4. CASE phase[p] = "opening" /\ phase' = [phase EXCEPT ![p] = "failed"]
    <3>1. merged' = [merged EXCEPT ![p] = NoFds] \/ merged' = [merged EXCEPT ![p] = rest]
      BY <1>0, <2>4, Tables
    <3>2. fds' = [fds EXCEPT ![p] = NoFds]
      BY <1>0, <2>4, Tables
    <3> HIDE DEF rest
    <3> QED BY <2>1, <2>3, <2>4, <3>1, <3>2, Tables
  <2>5. CASE ~(phase[p] = "opening" /\ phase' = [phase EXCEPT ![p] = "failed"])
    BY <1>0, <2>5, Tables
  <2> QED BY <2>4, <2>5
<1>2. Lineup' /\ ShellEnds' /\ StageEnds'
  BY <1>0, <1>1, OthersKeep
<1>3. Programs'
  <2>1. Only(p)
    BY <1>0, <1>1 DEF Only
  <2>2. Sound(p)
    BY DEF Flow, Programs
  <2>3. Sound(p)'
    BY <1>0, <1>1, <2>2 DEF Sound, IsSource, Elements, Idle
  <2> QED BY <2>1, <2>3, OnlyOne DEF Flow
<1>4. ProgTypes'
  BY <1>0 DEF Flow, ProgTypes, IsSource
<1>5. Streams'
  <2>1. ASSUME NEW q \in Proc, phase[q] \in {"draining", "done", "failed"}
        PROVE  phase'[q] \in {"draining", "done", "failed"}
    <3>1. CASE q = p
      BY <1>0, <1>1, <2>1, <3>1
    <3>2. CASE q # p
      BY <1>1, <2>1, <3>2
    <3> QED BY <3>1, <3>2
  <2>2. \A i \in DOMAIN pids : pids[i] \in Proc
    BY StageOf DEF Flow
  <2>3. \A i \in DOMAIN pids : Ended(pids[i]) => Ended(pids[i])'
    BY <1>0, <2>1, <2>2 DEF Ended
  <2> QED BY <1>0, <2>3, StreamsStay DEF Flow
<1>6. Untouched'
  BY <1>0, <1>1, Pipes, UntouchedStays DEF Flow
<1> QED BY <1>2, <1>3, <1>4, <1>5, <1>6 DEF Flow

\* The shell is done.
LEMMA FinishesFlow ==
    ASSUME KernelAssumption, ShellAssumption, IInv, Flow, Finish(Root),
           UNCHANGED <<shellVars, progVars>>
    PROVE  Flow'
<1>0. /\ UNCHANGED <<made, closed, level, op, merged, fds>>
      /\ UNCHANGED <<pc, typed, line, reads, writes, pids, done, last_exit>>
      /\ UNCHANGED <<stage, pending, ended, took, moved, code>>
      /\ phase[Root] = "draining" /\ phase'[Root] = "done"
      /\ \A q \in Proc \ {Root} : phase'[q] = phase[q]
  BY Tables DEF Finish, shellVars, progVars
<1>1. Lineup'
  <2>1. \A i \in DOMAIN pids : phase'[pids[i]] = phase[pids[i]]
    BY <1>0, StageOf DEF Flow
  <2> QED BY <1>0, <2>1 DEF Flow, Lineup
<1>2. ShellEnds'
  BY <1>0 DEF Flow, ShellEnds, StdEnd, Mid
<1>3. Programs'
  <2>1. Only(Root)
    BY <1>0 DEF Only
  <2>2. Root \in Proc
    BY Tables
  <2> QED BY <2>1, <2>2, OnlyOne DEF Flow
<1>4. ProgTypes'
  BY <1>0 DEF Flow, ProgTypes, IsSource
<1>5. StageEnds'
  BY <1>0 DEF Flow, StageEnds, StageEnd, StdEnd, Mid
<1>6. Streams'
  <2>1. \A i \in DOMAIN pids : Ended(pids[i]) => Ended(pids[i])'
    BY <1>0, StageOf DEF Ended, Flow
  <2> QED BY <1>0, <2>1, StreamsStay DEF Flow
<1>7. Untouched'
  BY <1>0, Pipes, UntouchedStays DEF Flow
<1> QED BY <1>1, <1>2, <1>3, <1>4, <1>5, <1>6, <1>7 DEF Flow

\* The host empties its terminal's pipes, or nothing happens.
LEMMA DrainsFlow ==
    ASSUME KernelAssumption, ShellAssumption, IInv, Flow,
           UNCHANGED <<shellVars, progVars>>,
           UNCHANGED vars \/ \E f \in Std : HostDrains(f)
    PROVE  Flow'
<1>0. /\ UNCHANGED <<made, closed, op, merged, fds, phase>>
      /\ UNCHANGED <<pc, typed, line, reads, writes, pids, done, last_exit>>
      /\ UNCHANGED <<stage, pending, ended, took, moved, code>>
      /\ level' = level \/ \E f \in HostFds : level' = [level EXCEPT ![HostPipe(f)] = 0]
  BY DEF HostDrains, shellVars, progVars, vars, pipeVars, procVars
<1>1. Lineup' /\ ShellEnds' /\ StageEnds' /\ ProgTypes'
  BY <1>0 DEF Flow, Lineup, ShellEnds, StageEnds, StageEnd, StdEnd, Mid, ProgTypes, IsSource
<1>2. Programs'
  BY <1>0 DEF Flow, Programs, Sound, IsSource, Elements, Idle
<1>3. Streams'
  <2>1. ASSUME NEW i \in 1..Len(reads) PROVE level'[Mid(i)] = level[Mid(i)]
    <3>1. /\ Mid(i) \in Cardinality(HostFds) + 1..made /\ made \in Nat
          /\ Cardinality(HostFds) \in Nat
          /\ \A g \in HostFds : HostPipe(g) \in 1..Cardinality(HostFds)
      BY Pipes DEF Flow
    <3>2. \A g \in HostFds : HostPipe(g) # Mid(i)
      BY <3>1
    <3>3. DOMAIN level = Pipe
      BY DEF IInv, TypeInvariant
    <3>4. ASSUME NEW g \in HostFds, level' = [level EXCEPT ![HostPipe(g)] = 0]
          PROVE  level'[Mid(i)] = level[Mid(i)]
      <4>1. Mid(i) \in Pipe
        BY Pipes DEF Flow
      <4> QED BY <3>2, <3>3, <3>4, <4>1
    <3> QED BY <1>0, <3>4
  <2> QED BY <1>0, <2>1, StreamsStay DEF Flow, Ended
<1>4. Untouched'
  <2>1. level \in [Pipe -> 0..Capacity]
    BY DEF IInv, TypeInvariant
  <2>2. \A l \in Pipe : level'[l] = level[l] \/ level'[l] = 0
    BY <1>0, <2>1
  <2> QED BY <1>0, <2>2, Pipes, UntouchedStays DEF Flow
<1> QED BY <1>1, <1>2, <1>3, <1>4 DEF Flow

-----------------------------------------------------------------------------
(* Steps of the shell.                                                       *)

\* Who is given all its descriptors gets no default pipe.
LEMMA BeginGives ==
    ASSUME KernelAssumption, IInv, NEW p \in Proc, NEW provided, NEW files,
           Begin(p, provided, files), Std \ (DOMAIN provided \union files) = {}
    PROVE  /\ phase[p] = "unborn" /\ phase' = [phase EXCEPT ![p] = "opening"]
           /\ made' = made /\ closed' = closed /\ UNCHANGED <<level, fds, nextFd, holders>>
           /\ DOMAIN merged'[p] = DOMAIN provided
           /\ \A f \in DOMAIN provided : merged'[p][f] = provided[f]
           /\ \A q \in Proc \ {p} : merged'[q] = merged[q]
<1> DEFINE missing == Std \ (DOMAIN provided \union files)
           dflt == [f \in missing |-> End(IF f = 0 THEN "read" ELSE "write",
                                          made + Cardinality({g \in missing : g <= f}))]
<1>1. /\ phase[p] = "unborn" /\ phase' = [phase EXCEPT ![p] = "opening"]
      /\ made' = made + Cardinality(missing) /\ UNCHANGED <<level, fds, nextFd, holders>>
      /\ merged' = [merged EXCEPT ![p] = Over(provided, dflt)]
      /\ closed' = [k \in Pipe |-> closed[k]
                       \/ (0 \in missing /\ k = made + Cardinality({g \in missing : g <= 0}))]
  BY DEF Begin
<1>2. missing = {} /\ DOMAIN dflt = missing /\ Cardinality({}) = 0
  BY FS_EmptySet
<1>3. made' = made
  BY <1>1, <1>2, IInvMade
<1>4. closed' = closed
  <2>1. closed \in [Pipe -> BOOLEAN]
    BY DEF IInv, TypeInvariant
  <2>2. 0 \notin missing
    BY <1>2
  <2> HIDE DEF missing
  <2>3. closed' = [k \in Pipe |-> closed[k]]
    BY <1>1, <2>1, <2>2
  <2> QED BY <2>1, <2>3
<1> HIDE DEF missing, dflt
<1>5. /\ DOMAIN Over(provided, dflt) = DOMAIN provided
      /\ \A f \in DOMAIN provided : Over(provided, dflt)[f] = provided[f]
  BY <1>2 DEF Over
<1> HIDE DEF Over
<1>6. DOMAIN merged = Proc
  BY Tables
<1> QED BY <1>1, <1>3, <1>4, <1>5, <1>6

LEMMA HostSpawnFlow ==
    ASSUME KernelAssumption, ShellAssumption, IInv, Flow, SInv, HostSpawn,
           UNCHANGED <<shellVars, progVars>>
    PROVE  Flow'
<1> DEFINE entries == [f \in HostFds |-> End(IF f = 0 THEN "read" ELSE "write", HostPipe(f))]
<1>1. DOMAIN entries = Std /\ \A f \in Std : entries[f] = StdEnd(f)
  BY DEF ShellAssumption, StdEnd
<1>2. Begin(Root, entries, {}) /\ UNCHANGED <<children, op>>
  BY DEF HostSpawn
<1> HIDE DEF entries
<1>3. /\ phase[Root] = "unborn" /\ phase' = [phase EXCEPT ![Root] = "opening"]
      /\ UNCHANGED <<made, closed, level, fds, op>>
      /\ DOMAIN merged'[Root] = Std /\ \A f \in Std : merged'[Root][f] = StdEnd(f)
      /\ \A q \in Proc \ {Root} : merged'[q] = merged[q]
  BY <1>1, <1>2, BeginGives, Tables
<1>4. /\ UNCHANGED <<pc, typed, line, reads, writes, pids, done, last_exit>>
      /\ UNCHANGED <<stage, pending, ended, took, moved, code>>
      /\ phase'[Root] = "opening" /\ \A q \in Proc \ {Root} : phase'[q] = phase[q]
  BY <1>3, Tables DEF shellVars, progVars
<1>5. pc = "boot"
  BY <1>3 DEF SInv, Works, Boots, Flow, ShellEnds
<1>6. \A i \in DOMAIN pids : pids[i] \in Proc \ {Root}
  BY StageOf DEF Flow
<1>7. Lineup'
  BY <1>3, <1>4, <1>5 DEF Flow, Lineup
<1>8. ShellEnds'
  <2>1. \A f : StdEnd(f)' = StdEnd(f)
    BY DEF StdEnd
  <2> QED BY <1>3, <1>4, <1>5, <2>1 DEF ShellEnds
<1>9. Programs'
  <2>1. Only(Root)
    BY <1>3, <1>4 DEF Only
  <2> QED BY <2>1, OnlyOne, Tables DEF Flow
<1>10. ProgTypes'
  BY <1>4 DEF Flow, ProgTypes, IsSource
<1>11. StageEnds'
  <2>1. \A i \in DOMAIN pids : merged'[pids[i]] = merged[pids[i]]
    BY <1>3, <1>6
  <2>2. \A i, f : StageEnd(i, f)' = StageEnd(i, f)
    BY <1>3, <1>4 DEF StageEnd, StdEnd, Mid
  <2> QED BY <1>4, <2>1, <2>2 DEF Flow, StageEnds
<1>12. Streams'
  <2>1. \A i \in DOMAIN pids : Ended(pids[i]) => Ended(pids[i])'
    BY <1>4, <1>6 DEF Ended
  <2> QED BY <1>3, <1>4, <2>1, StreamsStay DEF Flow
<1>13. Untouched'
  BY <1>3, Pipes, UntouchedStays DEF Flow
<1> QED BY <1>7, <1>8, <1>9, <1>10, <1>11, <1>12, <1>13 DEF Flow

LEMMA BootFlow ==
    ASSUME KernelAssumption, ShellAssumption, IInv, Flow, SInv, Boot
    PROVE  Flow'
<1>0. /\ pc = "boot" /\ pc' = "prompt" /\ UNCHANGED progVars
      /\ UNCHANGED <<typed, line, reads, writes, pids, done, last_exit>>
      /\ UNCHANGED <<made, closed, level, op, merged>>
      /\ phase[Root] = "opening" /\ phase' = [phase EXCEPT ![Root] = "running"]
      /\ fds' = [fds EXCEPT ![Root] = merged[Root]]
  BY DEF Boot, Start
<1>1. /\ phase'[Root] = "running" /\ fds'[Root] = merged[Root]
      /\ \A q \in Proc \ {Root} : phase'[q] = phase[q] /\ fds'[q] = fds[q]
      /\ UNCHANGED <<stage, pending, ended, took, moved, code>>
  BY <1>0, Tables DEF progVars
<1>2. \A i \in DOMAIN pids : pids[i] \in Proc \ {Root}
  BY StageOf DEF Flow
<1>3. Lineup'
  BY <1>0 DEF Flow, Lineup, Working
<1>4. ShellEnds'
  <2>1. \A f : StdEnd(f)' = StdEnd(f)
    BY DEF StdEnd
  <2> QED BY <1>0, <1>1, <2>1 DEF Flow, ShellEnds
<1>5. Programs'
  <2>1. Only(Root)
    BY <1>0, <1>1 DEF Only
  <2> QED BY <2>1, OnlyOne, Tables DEF Flow
<1>6. ProgTypes'
  BY <1>1 DEF Flow, ProgTypes, IsSource
<1>7. StageEnds'
  <2>2. \A i, f : StageEnd(i, f)' = StageEnd(i, f)
    BY <1>0 DEF StageEnd, StdEnd, Mid
  <2> QED BY <1>0, <1>1, <2>2 DEF Flow, StageEnds
<1>8. Streams'
  <2>1. \A i \in DOMAIN pids : Ended(pids[i]) => Ended(pids[i])'
    BY <1>0, <1>1, <1>2 DEF Ended
  <2> QED BY <1>0, <1>1, <2>1, StreamsStay DEF Flow
<1>9. Untouched'
  BY <1>0, Pipes, UntouchedStays DEF Flow
<1> QED BY <1>3, <1>4, <1>5, <1>6, <1>7, <1>8, <1>9 DEF Flow

\* A new line has no pipes yet, and no processes.
LEMMA TypesFlow ==
    ASSUME KernelAssumption, ShellAssumption, IInv, Flow, SInv, NEW l \in Lines, Types(l)
    PROVE  Flow'
<1>0. /\ pc = "prompt" /\ pc' \in {"piping", "spawning"} /\ UNCHANGED vars /\ UNCHANGED progVars
      /\ typed < MaxLines /\ typed' = typed + 1 /\ line' = l /\ last_exit' = last_exit
      /\ reads' = << >> /\ writes' = << >> /\ pids' = << >>
  BY DEF Types, At
<1>1. UNCHANGED vars /\ UNCHANGED <<stage, pending, ended, took, moved, code>>
  BY <1>0 DEF progVars
<1>2. UNCHANGED <<made, closed, level, op, merged, fds, phase>>
  BY <1>1 DEF vars, pipeVars, procVars
<1>3. l \in Seq(Stage) /\ Len(l) \in Nat
  BY LenProperties DEF ShellAssumption
<1>4. Len(reads') = 0 /\ Len(writes') = 0 /\ Len(pids') = 0 /\ DOMAIN pids' = {}
      /\ pids' \in Seq(Proc \ {Root})
  BY <1>0, EmptySeq
<1>5. Lineup'
  <2>1. typed' \in 0..MaxLines
    BY <1>0 DEF Flow, Lineup, ShellAssumption
  <2>2. Distinct(pids')
    BY <1>4 DEF Distinct
  <2>3. Cardinality(HostFds) \in Nat /\ Cardinality(HostFds) + 0 <= made
    <3>1. Cardinality(HostFds) \in Nat /\ made \in Nat
      BY Pipes DEF Flow
    <3>2. made \in Cardinality(HostFds)..MaxPipes
      BY DEF IInv, TypeInvariant
    <3> QED BY <3>1, <3>2
  <2>4. pc' \in Working \union {"dead"} /\ pc' # "dead"
    BY <1>0 DEF Working
  <2>5. last_exit' \in {0, 1}
    BY <1>0 DEF Flow, Lineup
  <2> QED BY <1>0, <1>2, <1>3, <1>4, <2>1, <2>2, <2>3, <2>4, <2>5 DEF Lineup
<1>6. ShellEnds'
  <2>1. \A f : StdEnd(f)' = StdEnd(f)
    BY DEF StdEnd
  <2>2. 1..Len(reads') = {}
    BY <1>4
  <2>3. pc' \notin {"dead", "boot"} /\ pc \notin {"dead", "boot"}
    BY <1>0
  <2> QED BY <1>2, <2>1, <2>2, <2>3 DEF Flow, ShellEnds
<1>7. Programs'
  <2>1. ASSUME NEW p \in Proc \ {Root} PROVE phase[p] \in {"unborn", "done", "failed"}
    <3>1. Open = {}
      BY <1>0 DEF Open
    <3> QED BY <1>0, <3>1 DEF SInv, Works, Family
  <2>2. ASSUME NEW p \in Proc \ {Root} PROVE Sound(p)'
    <3>1. Sound(p)
      BY DEF Flow, Programs
    <3> QED BY <1>1, <1>2, <2>1, <3>1 DEF Sound, IsSource, Idle
  <2> QED BY <2>2 DEF Programs
<1>8. ProgTypes'
  BY <1>1 DEF Flow, ProgTypes, IsSource
<1>9. StageEnds'
  BY <1>4 DEF StageEnds
<1>10. Streams'
  <2>1. 1..Len(reads') = {}
    BY <1>4
  <2> QED BY <2>1 DEF Streams
<1>11. Untouched'
  BY <1>2, Pipes, UntouchedStays DEF Flow
<1> QED BY <1>5, <1>6, <1>7, <1>8, <1>9, <1>10, <1>11 DEF Flow

\* A pipe more, that nobody has used.
LEMMA MakesPipeFlow ==
    ASSUME KernelAssumption, ShellAssumption, IInv, Flow, SInv, MakesPipe
    PROVE  Flow'
<1> DEFINE a == nextFd[Root]
           n == Len(reads)
           pair == [f \in {a, a + 1} |-> End(IF f = a THEN "read" ELSE "write", made + 1)]
<1>0. /\ pc = "piping" /\ pc' = IF Len(reads') = Len(line) - 1 THEN "spawning" ELSE pc
      /\ UNCHANGED <<typed, line, pids, last_exit>> /\ UNCHANGED progVars
      /\ made < MaxPipes /\ made' = made + 1 /\ UNCHANGED <<closed, level, phase, merged, op>>
      /\ reads' = Append(reads, a) /\ writes' = Append(writes, a + 1)
      /\ fds' = [fds EXCEPT ![Root] = Over(pair, @)]
  BY DEF MakesPipe, FdPipe, At
<1>1. /\ pids = << >> /\ DOMAIN pids = {} /\ Len(pids) = 0
      /\ reads \in Seq(Nat) /\ writes \in Seq(Nat) /\ n \in Nat /\ Len(writes) = n
      /\ n + 1 < Len(line) /\ Len(line) \in Nat /\ a \in Nat /\ a >= 16
      /\ All \in Seq(Nat) /\ Within(All, a - 1)
  <2>1. pids = << >> /\ n + 1 < Len(line) /\ Stand /\ a >= 16 /\ Within(All, a - 1)
    BY <1>0 DEF SInv, Works, Stand, Descriptors
  <2> QED BY <2>1, EmptySeq, LenProperties, AllOf, Tables DEF Stand
<1>2. UNCHANGED <<stage, pending, ended, took, moved, code>>
  BY <1>0 DEF progVars
<1>3. /\ made \in Nat /\ MaxPipes \in Nat /\ Cardinality(HostFds) \in Nat
  BY Pipes DEF Flow
<1>4. /\ Len(reads') = n + 1 /\ reads'[n + 1] = a /\ \A i \in 1..n : reads'[i] = reads[i]
      /\ Len(writes') = n + 1 /\ writes'[n + 1] = a + 1 /\ \A i \in 1..n : writes'[i] = writes[i]
  <2>1. /\ Len(reads') = Len(reads) + 1 /\ reads'[Len(reads) + 1] = a
        /\ \A i \in 1..Len(reads) : reads'[i] = reads[i]
    BY <1>0, <1>1, AppendProperties
  <2>2. /\ Len(writes') = Len(writes) + 1 /\ writes'[Len(writes) + 1] = a + 1
        /\ \A i \in 1..Len(writes) : writes'[i] = writes[i]
    BY <1>0, <1>1, AppendProperties
  <2> QED BY <1>1, <2>1, <2>2
<1>5. /\ \A i \in Nat : Mid(i)' = Mid(i) /\ Mid(n + 1) = made + 1
      /\ \A i \in 1..n : i \in Nat
  BY <1>0, <1>1, <1>3, <1>4 DEF Mid
<1>6. /\ Len(reads') = Len(line) - 1 \/ Len(reads') # Len(line) - 1
      /\ pc' \in {"piping", "spawning"} /\ n + 1 <= Len(line)
  BY <1>0, <1>1
<1>7. Lineup'
  <2>1. Cardinality(HostFds) + Len(reads') <= made'
    BY <1>0, <1>1, <1>3, <1>4 DEF Flow, Lineup
  <2>2. /\ typed \in 0..MaxLines /\ last_exit \in {0, 1} /\ line \in Seq(Stage)
        /\ pids \in Seq(Proc \ {Root}) /\ Distinct(pids)
    BY DEF Flow, Lineup
  <2>3. Len(reads') \in Nat /\ Len(writes') = Len(reads') /\ Len(reads') <= Len(line)
    BY <1>1, <1>4, <1>6
  <2>4. pc' \in Working /\ pc' # "dead"
    BY <1>6 DEF Working
  <2> QED BY <1>0, <1>1, <2>1, <2>2, <2>3, <2>4 DEF Lineup
<1>8. ShellEnds'
  <2>0. DOMAIN fds = Proc /\ Root \in Proc
    BY Tables
  <2>1. /\ fds'[Root] = Over(pair, fds[Root])
    BY <1>0, <2>0
  <2>2. fds'[Root][a] = End("read", made + 1) /\ fds'[Root][a + 1] = End("write", made + 1)
    <3>1. DOMAIN pair = {a, a + 1} /\ a + 1 # a
      BY <1>1
    <3>2. pair[a] = End("read", made + 1) /\ pair[a + 1] = End("write", made + 1)
      BY <3>1
    <3> HIDE DEF pair
    <3> QED BY <2>1, <3>1, <3>2 DEF Over
  <2>3. ASSUME NEW f \in DOMAIN fds[Root], f # a, f # a + 1 PROVE fds'[Root][f] = fds[Root][f]
    <3>1. DOMAIN pair = {a, a + 1}
      OBVIOUS
    <3> HIDE DEF pair
    <3> QED BY <2>1, <2>3, <3>1 DEF Over
  <2>4. DOMAIN fds[Root] = Std \union Elements(All)
    BY <1>0 DEF SInv, Works, Descriptors, Held
  <2>5. ASSUME NEW f \in Std PROVE fds'[Root][f] = StdEnd(f)
    <3>0. f \in 0..2
      BY Tables
    <3>1. f # a /\ f # a + 1
      BY <1>1, <3>0, SMTT(30)
    <3> QED BY <1>0, <2>3, <2>4, <3>1 DEF Flow, ShellEnds
  <2>6. ASSUME NEW i \in 1..n
        PROVE  /\ fds'[Root][reads[i]] = End("read", Mid(i))
               /\ fds'[Root][writes[i]] = End("write", Mid(i))
    <3>0. i \in 1..n + n /\ n + i \in 1..n + n
      BY <1>1
    <3>1. i \in DOMAIN All /\ n + i \in DOMAIN All /\ All[i] = reads[i] /\ All[n + i] = writes[i]
      BY <1>1, <3>0, Halves DEF All
    <3>2. /\ reads[i] \in 16..a - 1 /\ writes[i] \in 16..a - 1
          /\ reads[i] \in DOMAIN fds[Root] /\ writes[i] \in DOMAIN fds[Root]
      BY <1>1, <2>4, <3>1 DEF Within, Elements
    <3>3. reads[i] # a /\ reads[i] # a + 1 /\ writes[i] # a /\ writes[i] # a + 1
      BY <1>1, <3>2, SMTT(30)
    <3>4. /\ fds'[Root][reads[i]] = fds[Root][reads[i]]
          /\ fds'[Root][writes[i]] = fds[Root][writes[i]]
      BY <2>3, <3>2, <3>3
    <3> QED BY <1>0, <3>4 DEF Flow, ShellEnds
  <2>7. ASSUME NEW i \in 1..n + 1
        PROVE  /\ fds'[Root][reads'[i]] = End("read", Mid(i)')
               /\ fds'[Root][writes'[i]] = End("write", Mid(i)')
    <3>1. i \in Nat /\ (i \in 1..n \/ i = n + 1)
      BY <1>1
    <3> QED BY <1>4, <1>5, <2>2, <2>6, <3>1
  <2>8. /\ \A f : StdEnd(f)' = StdEnd(f)
        /\ \A side, k : End(side, k)' = End(side, k)
    BY DEF StdEnd, End
  <2>9. pc' # "dead"
    BY <1>6
  <2> QED BY <1>0, <1>4, <2>5, <2>7, <2>8, <2>9 DEF Flow, ShellEnds
<1>9. Programs'
  <2>1. ASSUME NEW q \in Proc \ {Root} PROVE fds'[q] = fds[q]
    BY <1>0, Tables
  <2>2. Only(Root)
    BY <1>0, <1>2, <2>1 DEF Only
  <2> QED BY <2>2, OnlyOne, Tables DEF Flow
<1>10. ProgTypes'
  BY <1>2 DEF Flow, ProgTypes, IsSource
<1>11. StageEnds'
  BY <1>0, <1>1 DEF StageEnds
<1>12. Streams'
  <2> SUFFICES ASSUME NEW i \in 1..n + 1 PROVE Stream(i)'
    BY <1>4 DEF Streams
  <2>1. i \in Nat /\ Mid(i)' = Mid(i) /\ (i \in 1..n \/ i = n + 1)
    BY <1>1, <1>5
  <2>2. Sent(i)' = 0 /\ Got(i)' = 0 /\ Sent(i) = 0 /\ Got(i) = 0 /\ ~AtEof(i)'
    BY <1>0, <1>1 DEF Sent, Got, AtEof
  <2>3. ~closed[Mid(i)] /\ level[Mid(i)] = 0
    <3>1. CASE i \in 1..n
      <4>1. Stream(i) /\ i \notin DOMAIN pids
        BY <1>1, <3>1 DEF Flow, Streams
      <4>2. Mid(i) \in Pipe
        BY <3>1, Pipes DEF Flow
      <4>3. level[Mid(i)] \in Nat
        BY <4>2 DEF IInv, TypeInvariant, KernelAssumption
      <4> QED BY <2>2, <4>1, <4>3 DEF Stream
    <3>2. CASE i = n + 1
      <4>1. Mid(i) \in Pipe /\ Mid(i) > made
        BY <1>0, <1>3, <1>5, <3>2 DEF Pipe
      <4> QED BY <4>1 DEF Flow, Untouched
    <3> QED BY <2>1, <3>1, <3>2
  <2> QED BY <1>0, <2>1, <2>2, <2>3 DEF Stream
<1>13. Untouched'
  <2>1. \A k \in Pipe : k > made' => k > made
    BY <1>0, <1>3 DEF Pipe
  <2>2. \A f \in HostFds \ {0} : HostPipe(f)' = HostPipe(f)
    BY DEF HostPipe
  <2> QED BY <1>0, <2>1, <2>2 DEF Flow, Untouched
<1> QED BY <1>7, <1>8, <1>9, <1>10, <1>11, <1>12, <1>13 DEF Flow

\* A stage more, with its ends of the pipes beside it.
LEMMA SpawnsStageFlow ==
    ASSUME KernelAssumption, ShellAssumption, IInv, Flow, SInv, SpawnsStage, Unborn # {}
    PROVE  Flow'
<1> DEFINE i0 == Len(pids) + 1
           s0 == line[i0]
           q0 == CHOOSE p \in Unborn : TRUE
           map0 == [f \in Std \ Files(s0) |->
                      IF f = 0 THEN StdinFd(i0) ELSE IF f = 1 THEN StdoutFd(i0) ELSE f]
           given0 == [c \in DOMAIN map0 |-> fds[Root][map0[c]]]
<1>a. /\ pc = "spawning" /\ s0.in # "missing" /\ ProcSpawn(Root, q0, map0, Files(s0))
      /\ pids' = Append(pids, q0)
      /\ stage' = [stage EXCEPT ![q0] = s0]
      /\ pending' = [pending EXCEPT ![q0] = IF IsSource(s0) THEN Chunks ELSE 0]
      /\ ended' = [ended EXCEPT ![q0] = IsSource(s0)]
      /\ pc' = IF i0 = Len(line) THEN IF i0 > 1 THEN "closing" ELSE "joining" ELSE pc
      /\ UNCHANGED <<typed, line, reads, writes, done, last_exit, took, moved, code>>
  BY DEF SpawnsStage, At
<1>b. q0 \in Proc \ {Root} /\ phase[q0] = "unborn"
  BY DEF Unborn
<1>c. Begin(q0, given0, Files(s0)) /\ op' = op
  BY <1>a DEF ProcSpawn
<1>d. DOMAIN map0 = Std \ Files(s0) /\ DOMAIN given0 = Std \ Files(s0)
      /\ \A f \in Std \ Files(s0) :
            given0[f] = fds[Root][IF f = 0 THEN StdinFd(i0) ELSE IF f = 1 THEN StdoutFd(i0) ELSE f]
  OBVIOUS
<1> HIDE DEF q0, map0, given0
<1>e. PICK i : i = i0
  OBVIOUS
<1>f. PICK s : s = s0
  OBVIOUS
<1>g. PICK q : q = q0
  OBVIOUS
<1>h. PICK provided : provided = given0
  OBVIOUS
<1> HIDE DEF s0
<1>0. /\ pc = "spawning" /\ s.in # "missing" /\ i = Len(pids) + 1 /\ s = line[i]
      /\ pids' = Append(pids, q)
      /\ stage' = [stage EXCEPT ![q] = s]
      /\ pending' = [pending EXCEPT ![q] = IF IsSource(s) THEN Chunks ELSE 0]
      /\ ended' = [ended EXCEPT ![q] = IsSource(s)]
      /\ pc' = IF i = Len(line) THEN IF i > 1 THEN "closing" ELSE "joining" ELSE pc
      /\ UNCHANGED <<typed, line, reads, writes, done, last_exit, took, moved, code>>
  BY <1>a, <1>e, <1>f, <1>g DEF s0
<1>1. q \in Proc \ {Root} /\ phase[q] = "unborn"
  BY <1>b, <1>g
<1>2. Begin(q, provided, Files(s)) /\ op' = op
  BY <1>c, <1>f, <1>g, <1>h
<1>3. /\ DOMAIN provided = Std \ Files(s)
      /\ \A f \in Std \ Files(s) :
            provided[f] = fds[Root][IF f = 0 THEN StdinFd(i) ELSE IF f = 1 THEN StdoutFd(i) ELSE f]
  BY <1>d, <1>e, <1>f, <1>h
<1>4. /\ phase' = [phase EXCEPT ![q] = "opening"]
      /\ made' = made /\ closed' = closed /\ UNCHANGED <<level, fds>>
      /\ DOMAIN merged'[q] = Std \ Files(s)
      /\ \A f \in Std \ Files(s) : merged'[q][f] = provided[f]
      /\ \A p \in Proc \ {q} : merged'[p] = merged[p]
  BY <1>1, <1>2, <1>3, BeginGives
<1>5. /\ pids \in Seq(Proc \ {Root}) /\ Len(pids) \in Nat /\ DOMAIN pids = 1..Len(pids)
      /\ Len(pids) < Len(line) /\ Len(line) = Len(reads) + 1 /\ Len(reads) \in Nat
      /\ line \in Seq(Stage) /\ DOMAIN line = 1..Len(line)
      /\ i = Len(pids) + 1 /\ s = line[i]
      /\ \A j \in DOMAIN pids : phase[pids[j]] # "unborn"
  BY <1>0, LenProperties DEF SInv, Works, Stand, Family, Flow, Lineup
<1>6. /\ i \in Nat /\ i \in 1..Len(line) /\ s \in Stage /\ i # 0
      /\ i # 1 => i - 1 \in 1..Len(reads) /\ i \in 2..Len(line)
      /\ i # Len(line) => i \in 1..Len(reads)
  <2>1. i \in Nat /\ i \in 1..Len(line) /\ i # 0
    BY <1>5
  <2>2. s \in Stage
    BY <1>5, <2>1
  <2> QED BY <1>5, <2>1, <2>2
<1>7. /\ pids' \in Seq(Proc \ {Root}) /\ Len(pids') = i /\ DOMAIN pids' = DOMAIN pids \union {i}
      /\ pids'[i] = q /\ i \notin DOMAIN pids
      /\ \A j \in DOMAIN pids : pids'[j] = pids[j] /\ pids[j] # q /\ pids[j] \in Proc
  <2>1. /\ pids' \in Seq(Proc \ {Root}) /\ Len(pids') = i /\ pids'[i] = q
        /\ \A j \in 1..Len(pids) : pids'[j] = pids[j]
    BY <1>0, <1>1, <1>5, AppendProperties
  <2>2. DOMAIN pids' = 1..i
    BY <2>1, LenProperties
  <2>3. DOMAIN pids' = DOMAIN pids \union {i} /\ i \notin DOMAIN pids
    BY <1>5, <2>2
  <2>4. \A j \in DOMAIN pids : pids[j] # q /\ pids[j] \in Proc
    BY <1>1, <1>5
  <2> QED BY <1>5, <2>1, <2>3, <2>4
<1>8. /\ phase'[q] = "opening" /\ \A p \in Proc \ {q} : phase'[p] = phase[p]
      /\ Root \in Proc /\ Root # q /\ phase'[Root] = phase[Root] /\ merged'[Root] = merged[Root]
  BY <1>1, <1>4, Tables
<1>9. /\ stage'[q] = s /\ pending'[q] = (IF IsSource(s) THEN Chunks ELSE 0)
      /\ ended'[q] = IsSource(s)
      /\ \A p \in Proc \ {q} : stage'[p] = stage[p] /\ pending'[p] = pending[p]
                               /\ ended'[p] = ended[p]
  BY <1>0, <1>1, ProgTables DEF Flow
<1>10. /\ pc' \in {"spawning", "closing", "joining"}
       /\ pc' = "spawning" => pc = "spawning"
  BY <1>0
<1>11. \A f : StdEnd(f)' = StdEnd(f)
  BY DEF StdEnd
<1>12. \A j : Mid(j)' = Mid(j)
  BY <1>0, <1>4 DEF Mid
<1>13. Lineup'
  <2>1. Distinct(pids')
    BY <1>7 DEF Flow, Lineup, Distinct
  <2>2. Len(pids') <= Len(line)
    BY <1>6, <1>7
  <2>3. pc' \in Working /\ pc' # "dead"
    BY <1>10 DEF Working
  <2> QED BY <1>0, <1>4, <1>5, <1>7, <2>1, <2>2, <2>3 DEF Flow, Lineup
<1>14. ShellEnds'
  <2>1. pc' \notin {"boot", "dead", "piping"} /\ pc \notin {"boot", "dead"}
    BY <1>0, <1>10
  <2> QED BY <1>0, <1>4, <1>8, <1>11, <1>12, <2>1 DEF Flow, ShellEnds
<1>15. Programs'
  <2>1. Elements(pids') = Elements(pids) \union {q}
    BY <1>7 DEF Elements
  <2>2. ASSUME NEW p \in Proc \ {Root}, p # q PROVE Sound(p)'
    <3>1. p \in Proc \ {q} /\ Sound(p)
      BY <2>2 DEF Flow, Programs
    <3> QED BY <1>0, <1>2, <1>4, <1>8, <1>9, <2>1, <3>1, SoundStays
  <2>3. Sound(q)'
    <3>1. Sound(q) /\ phase[q] = "unborn"
      BY <1>1 DEF Flow, Programs
    <3>2. op'[q] = Idle /\ op'[q].call = "none"
      BY <1>2, <3>1 DEF Sound, Idle
    <3> QED BY <1>8, <1>9, <2>1, <3>2 DEF Sound, IsSource, Elements, Idle
  <2> QED BY <2>2, <2>3 DEF Programs
<1>16. ProgTypes'
  <2>0. Chunks \in Nat /\ Capacity \in Nat
    BY DEF KernelAssumption, ShellAssumption
  <2>1. stage' \in [Proc -> Stage \union {NoStage}]
    BY <1>0, <1>1, <1>6 DEF Flow, ProgTypes
  <2>2. pending' \in [Proc -> Nat]
    BY <1>0, <1>1, <2>0 DEF Flow, ProgTypes
  <2>3. ended' \in [Proc -> BOOLEAN]
    BY <1>0, <1>1 DEF Flow, ProgTypes, IsSource
  <2>4. ASSUME NEW p \in Proc
        PROVE  pending'[p] <= IF IsSource(stage'[p]) THEN Chunks ELSE Capacity
    <3>1. CASE p = q
      BY <1>9, <2>0, <3>1
    <3>2. CASE p # q
      BY <1>9, <3>2 DEF Flow, ProgTypes
    <3> QED BY <3>1, <3>2
  <2> QED BY <1>0, <2>1, <2>2, <2>3, <2>4 DEF Flow, ProgTypes, IsSource
<1>17. StageEnds'
  <2>1. \A j \in DOMAIN pids : \A f : StageEnd(j, f)' = StageEnd(j, f)
    BY <1>0, <1>11, <1>12 DEF StageEnd, End
  <2>2. StageEnd(i, 0)' = IF i # 1 THEN End("read", Mid(i - 1)) ELSE StdEnd(0)
    BY <1>0, <1>11, <1>12 DEF StageEnd, End
  <2>3. StageEnd(i, 1)' = IF i # Len(line) THEN End("write", Mid(i)) ELSE StdEnd(1)
    BY <1>0, <1>11, <1>12 DEF StageEnd, End
  <2>4. \A f : f # 0 /\ f # 1 => StageEnd(i, f)' = StdEnd(f)
    BY <1>0, <1>11, <1>12 DEF StageEnd, End
  <2>5. /\ \A f \in Std : fds[Root][f] = StdEnd(f)
        /\ \A j \in 1..Len(reads) : /\ fds[Root][reads[j]] = End("read", Mid(j))
                                    /\ fds[Root][writes[j]] = End("write", Mid(j))
    BY <1>0 DEF Flow, ShellEnds
  <2>6. ASSUME NEW f \in DOMAIN merged'[q]
        PROVE  f \notin Files(line[i]) /\ merged'[q][f] = StageEnd(i, f)'
    <3>1. f \in Std \ Files(s) /\ merged'[q][f] = provided[f] /\ 0 \in Std /\ 1 \in Std
      BY <1>4 DEF ShellAssumption
    <3>2. CASE f = 0
      <4>0. f \notin Files(line[i])
        BY <1>5, <3>1
      <4>1. merged'[q][f] = fds[Root][StdinFd(i)]
        BY <1>3, <3>1, <3>2
      <4>2. fds[Root][StdinFd(i)] = IF i # 1 THEN End("read", Mid(i - 1)) ELSE StdEnd(0)
        BY <1>6, <2>5, <3>1 DEF StdinFd
      <4> QED BY <2>2, <3>1, <3>2, <4>0, <4>1, <4>2
    <3>3. CASE f = 1
      <4>0. f \notin Files(line[i])
        BY <1>5, <3>1
      <4>1. merged'[q][f] = fds[Root][StdoutFd(i)]
        BY <1>3, <3>1, <3>3
      <4>2. fds[Root][StdoutFd(i)] = IF i # Len(line) THEN End("write", Mid(i)) ELSE StdEnd(1)
        BY <1>6, <2>5, <3>1 DEF StdoutFd
      <4> QED BY <2>3, <3>1, <3>3, <4>0, <4>1, <4>2
    <3>4. CASE f # 0 /\ f # 1
      <4>0. f \notin Files(line[i])
        BY <1>5, <3>1
      <4>1. merged'[q][f] = fds[Root][f]
        BY <1>3, <3>1, <3>4
      <4> QED BY <2>4, <2>5, <3>1, <3>4, <4>0, <4>1
    <3> QED BY <3>2, <3>3, <3>4
  <2>7. ASSUME NEW j \in DOMAIN pids'
        PROVE  /\ stage'[pids'[j]] = line[j]
               /\ \A f \in DOMAIN merged'[pids'[j]] :
                     f \notin Files(line[j]) /\ merged'[pids'[j]][f] = StageEnd(j, f)'
    <3>1. CASE j = i
      BY <1>5, <1>7, <1>9, <2>6, <3>1
    <3>2. CASE j \in DOMAIN pids
      <4>1. /\ pids'[j] = pids[j] /\ merged'[pids[j]] = merged[pids[j]]
            /\ stage'[pids[j]] = stage[pids[j]]
        BY <1>4, <1>7, <1>9, <3>2
      <4> QED BY <2>1, <3>2, <4>1 DEF Flow, StageEnds
    <3> QED BY <1>7, <3>1, <3>2
  <2>8. line' = line
    BY <1>0
  <2> QED BY <2>7, <2>8 DEF StageEnds, Files
<1>18. Streams'
  <2> SUFFICES ASSUME NEW j \in 1..Len(reads) PROVE Stream(j)'
    BY <1>0 DEF Streams
  <2>1. Stream(j) /\ j \in Nat /\ Mid(j)' = Mid(j)
    BY <1>12 DEF Flow, Streams, Lineup
  <2>2. took[q] = 0 /\ moved[q] = 0
    BY <1>1 DEF Flow, Programs, Sound
  <2>3. \A m \in DOMAIN pids : /\ pids'[m] = pids[m] /\ stage'[pids'[m]] = stage[pids[m]]
                               /\ ended'[pids'[m]] = ended[pids[m]]
                               /\ m \in DOMAIN pids'
    BY <1>7, <1>9
  <2>4. Sent(j)' = Sent(j)
    <3>1. CASE j = i
      BY <1>0, <1>7, <2>2, <3>1 DEF Sent
    <3>2. CASE j \in DOMAIN pids
      BY <1>0, <2>3, <3>2 DEF Sent, IsFile, Files
    <3>3. CASE j \notin DOMAIN pids /\ j # i
      BY <1>7, <3>3 DEF Sent
    <3> QED BY <3>1, <3>2, <3>3
  <2>5. Got(j)' = Got(j)
    <3>1. CASE j + 1 = i
      BY <1>0, <1>7, <2>2, <3>1 DEF Got
    <3>2. CASE j + 1 \in DOMAIN pids
      BY <1>0, <2>3, <3>2 DEF Got, IsFile, Files
    <3>3. CASE j + 1 \notin DOMAIN pids /\ j + 1 # i
      BY <1>7, <3>3 DEF Got
    <3> QED BY <3>1, <3>2, <3>3
  <2>6. AtEof(j)' => AtEof(j)
    <3>1. CASE j + 1 = i
      <4>1. AtEof(j)' => ended'[q] /\ stage'[q].prog = "cat" /\ 0 \notin Files(stage'[q])
        BY <1>7, <3>1 DEF AtEof, Program, IsFile, Files
      <4>2. stage'[q] = s /\ ended'[q] = IsSource(s)
        BY <1>9
      <4>3. ~(IsSource(s) /\ s.prog = "cat" /\ 0 \notin Files(s))
        BY DEF IsSource, Files
      <4> QED BY <4>1, <4>2, <4>3
    <3>2. CASE j + 1 \in DOMAIN pids
      BY <2>3, <3>2 DEF AtEof, IsFile, Files, Program
    <3>3. CASE j + 1 \notin DOMAIN pids'
      BY <3>3 DEF AtEof
    <3> QED BY <1>7, <3>1, <3>2, <3>3
  <2>7. j \in DOMAIN pids /\ phase[pids[j]] \in {"draining", "done", "failed"} =>
           j \in DOMAIN pids' /\ phase'[pids'[j]] \in {"draining", "done", "failed"}
    BY <1>7, <1>8
  <2>8. closed[Mid(j)]' = closed[Mid(j)] /\ level[Mid(j)]' = level[Mid(j)]
    BY <1>4, <2>1
  <2> HIDE DEF Mid, Sent, Got, AtEof
  <2> QED BY <2>1, <2>4, <2>5, <2>6, <2>7, <2>8 DEF Stream, Ended
<1>19. Untouched'
  <2>1. \A f \in HostFds \ {0} : HostPipe(f)' = HostPipe(f)
    BY DEF HostPipe
  <2> QED BY <1>4, <1>8, <2>1 DEF Flow, Untouched
<1> QED BY <1>13, <1>14, <1>15, <1>16, <1>17, <1>18, <1>19 DEF Flow

\* Closing its ends, joining, and the answer to a join move no data.
LEMMA ShellWaitsFlow ==
    ASSUME KernelAssumption, ShellAssumption, IInv, Flow, SInv, ClosesPipeFd \/ Joins \/ Joined
    PROVE  Flow'
<1>1. /\ UNCHANGED <<made, closed, level, phase, merged>> /\ UNCHANGED progVars
      /\ UNCHANGED <<typed, line, reads, writes, pids>>
  <2>1. CASE ClosesPipeFd
    BY <2>1 DEF ClosesPipeFd, FdClose, pipeVars
  <2>2. CASE Joins
    BY <2>2 DEF Joins, ProcJoin, pipeVars, shellVars
  <2>3. CASE Joined
    BY <2>3 DEF Joined, JoinReturns, pipeVars, procButOp
  <2> QED BY <2>1, <2>2, <2>3
<1>2. UNCHANGED <<stage, pending, ended, took, moved, code>>
  BY <1>1 DEF progVars
<1>3. /\ pc \in {"closing", "joining"} /\ pc' \in {"closing", "joining", "prompt"}
      /\ \A q \in Proc \ {Root} : fds'[q] = fds[q] /\ op'[q] = op[q]
      /\ \A f \in Std : fds'[Root][f] = fds[Root][f]
  <2>1. CASE ClosesPipeFd
    <3> DEFINE a == All[done + 1]
    <3>0. /\ pc = "closing" /\ pc' \in {"closing", "joining"} /\ op' = op
          /\ fds' = [fds EXCEPT ![Root] = [f \in DOMAIN @ \ {a} |-> @[f]]]
      BY <2>1 DEF ClosesPipeFd, FdClose, At, All
    <3>1. a \notin Std
      <4>1. /\ Len(All) = Len(reads) + Len(writes) /\ DOMAIN All = 1..Len(All)
            /\ Len(All) \in Nat /\ done \in Nat /\ done < Len(All)
        BY <3>0, AllOf, LenProperties DEF SInv, Works, Stand
      <4>2. done + 1 \in DOMAIN All /\ nextFd[Root] \in Nat
        BY <4>1, Tables
      <4>3. a \in 16..nextFd[Root] - 1
        BY <3>0, <4>2 DEF SInv, Works, Descriptors, Within
      <4> QED BY <4>2, <4>3, Tables
    <3>2. Std \subseteq DOMAIN fds[Root]
      BY <3>0 DEF SInv, Works, Descriptors
    <3> HIDE DEF a
    <3> QED BY <3>0, <3>1, <3>2, Tables
  <2>2. CASE Joins
    BY <2>2, Tables DEF Joins, ProcJoin, At, shellVars
  <2>3. CASE Joined
    BY <2>3, Tables DEF Joined, JoinReturns, procButOp
  <2> QED BY <2>1, <2>2, <2>3
<1>4. last_exit' \in {0, 1}
  <2>1. CASE Joined
    <3>1. op[Root].child \in Proc
      BY Tables DEF IInv, TypeInvariant
    <3>2. code[op[Root].child] \in {0, 1}
      BY <3>1 DEF Flow, ProgTypes
    <3> QED BY <2>1, <3>2 DEF Joined, LastExit, StatusOf
  <2>2. CASE ClosesPipeFd \/ Joins
    BY <2>2 DEF Flow, Lineup, ClosesPipeFd, Joins, shellVars
  <2> QED BY <2>1, <2>2
<1>5. Lineup'
  <2>1. pc' \in Working /\ pc' # "dead"
    BY <1>3 DEF Working
  <2> QED BY <1>1, <1>4, <2>1 DEF Flow, Lineup
<1>6. ShellEnds'
  <2>1. \A f : StdEnd(f)' = StdEnd(f)
    BY DEF StdEnd
  <2>2. pc \notin {"boot", "dead"} /\ pc' \notin {"boot", "dead", "piping", "spawning"}
    BY <1>3
  <2> QED BY <1>1, <1>3, <2>1, <2>2 DEF Flow, ShellEnds
<1>7. Programs'
  <2>1. Only(Root)
    BY <1>1, <1>2, <1>3 DEF Only
  <2> QED BY <2>1, OnlyOne, Tables DEF Flow
<1>8. ProgTypes'
  BY <1>2 DEF Flow, ProgTypes, IsSource
<1>9. StageEnds'
  <2>2. \A i, f : StageEnd(i, f)' = StageEnd(i, f)
    BY <1>1 DEF StageEnd, StdEnd, Mid
  <2> QED BY <1>1, <1>2, <2>2 DEF Flow, StageEnds
<1>10. Streams'
  <2>1. \A i \in DOMAIN pids : Ended(pids[i]) => Ended(pids[i])'
    BY <1>1 DEF Ended
  <2> QED BY <1>1, <1>2, <2>1, StreamsStay DEF Flow
<1>11. Untouched'
  BY <1>1, Pipes, UntouchedStays DEF Flow
<1> QED BY <1>5, <1>6, <1>7, <1>8, <1>9, <1>10, <1>11 DEF Flow

\* The shell leaves: it closes the terminal, and none of the line's pipes.
LEMMA LeavesFlow ==
    ASSUME KernelAssumption, ShellAssumption, IInv, Flow, SInv, ShellExits \/ RedirectFails
    PROVE  Flow'
<1>0. /\ pc \in {"prompt", "spawning"} /\ pc' = "dead"
      /\ UNCHANGED <<typed, line, reads, writes, pids, done, last_exit>> /\ UNCHANGED progVars
      /\ phase[Root] = "running" /\ phase' = [phase EXCEPT ![Root] = "draining"]
      /\ CloseWriteEnds(Root) /\ TablesGo(Root) /\ op' = op
  BY DEF ShellExits, RedirectFails, Exit, At
<1>1. UNCHANGED <<made, level>> /\ UNCHANGED <<stage, pending, ended, took, moved, code>>
  BY <1>0 DEF CloseWriteEnds, progVars
<1>2. /\ phase'[Root] = "draining"
      /\ \A q \in Proc \ {Root} : phase'[q] = phase[q] /\ merged'[q] = merged[q] /\ fds'[q] = fds[q]
  BY <1>0, Tables DEF TablesGo
<1>3. \A i \in DOMAIN pids : pids[i] \in Proc \ {Root}
  BY StageOf DEF Flow
<1>4. Lineup'
  <2>1. CASE pc = "spawning"
    <3>1. Len(pids) < Len(line)
      BY <2>1 DEF SInv, Works, Stand
    <3> QED BY <1>0, <1>1, <3>1 DEF Flow, Lineup
  <2>2. CASE pc = "prompt"
    <3>1. \A i \in DOMAIN pids : phase[pids[i]] \in {"done", "failed"}
      <4>1. Open = {}
        BY <2>2 DEF Open
      <4> QED BY <1>3, <2>2, <4>1 DEF SInv, Works, Family
    <3>2. \A i \in DOMAIN pids : phase'[pids[i]] \in {"done", "failed"}
      BY <1>2, <1>3, <3>1
    <3> QED BY <1>0, <1>1, <3>2 DEF Flow, Lineup
  <2> QED BY <1>0, <2>1, <2>2
<1>5. ShellEnds'
  BY <1>0, <1>2 DEF ShellEnds
<1>6. Programs'
  <2>1. Only(Root)
    BY <1>0, <1>1, <1>2 DEF Only
  <2> QED BY <2>1, OnlyOne, Tables DEF Flow
<1>7. ProgTypes'
  BY <1>1 DEF Flow, ProgTypes, IsSource
<1>8. StageEnds'
  <2>1. \A i \in DOMAIN pids : merged'[pids[i]] = merged[pids[i]]
    BY <1>2, <1>3
  <2>2. \A i, f : StageEnd(i, f)' = StageEnd(i, f)
    BY <1>0, <1>1 DEF StageEnd, StdEnd, Mid
  <2> QED BY <1>0, <1>1, <2>1, <2>2 DEF Flow, StageEnds
<1>9. Streams'
  <2> SUFFICES ASSUME NEW i \in 1..Len(reads) PROVE Stream(i)'
    BY <1>0 DEF Streams
  <2>1. Stream(i) /\ i \in Nat
    BY DEF Flow, Streams, Lineup
  <2>2. Sent(i)' = Sent(i) /\ Got(i)' = Got(i) /\ AtEof(i)' = AtEof(i)
    BY <1>0, <1>1 DEF Sent, Got, AtEof, IsFile, Files, Program
  <2>3. i \in DOMAIN pids /\ Ended(pids[i]) => Ended(pids[i])'
    BY <1>0, <1>2, <1>3 DEF Ended
  <2>4. closed'[Mid(i)] = closed[Mid(i)]
    <3>1. SUFFICES ASSUME closed'[Mid(i)] # closed[Mid(i)] PROVE FALSE
      OBVIOUS
    <3>2. /\ Mid(i) \in Pipe /\ Mid(i) \in Cardinality(HostFds) + 1..made /\ made \in Nat
          /\ Cardinality(HostFds) \in Nat
          /\ \A g \in HostFds : HostPipe(g) \in 1..Cardinality(HostFds)
      BY Pipes DEF Flow
    <3>3. closed[Mid(i)] \in BOOLEAN
      BY <3>2 DEF IInv, TypeInvariant
    <3>4. PICK f \in DOMAIN merged[Root] : merged[Root][f].pipe = Mid(i)
      BY <1>0, <3>1, <3>2, <3>3, OwnEnds
    <3>5. f \in HostFds /\ merged[Root][f] = StdEnd(f)
      BY <1>0 DEF Flow, ShellEnds, ShellAssumption
    <3>6. Mid(i) = HostPipe(f)
      BY <3>4, <3>5 DEF StdEnd, End
    <3> QED BY <3>2, <3>5, <3>6
  <2> QED BY <1>0, <1>1, <2>1, <2>2, <2>3, <2>4, StreamStays
<1>10. Untouched'
  <2>1. \A k \in Pipe : k > made => closed'[k] = closed[k]
    BY <1>0, NoneFresh, Tables
  <2> QED BY <1>1, <1>2, <2>1 DEF Flow, Untouched
<1> QED BY <1>4, <1>5, <1>6, <1>7, <1>8, <1>9, <1>10 DEF Flow

LEMMA InitFlow == KernelAssumption /\ ShellAssumption /\ ShellInit => Flow
<1> SUFFICES ASSUME KernelAssumption, ShellAssumption, ShellInit PROVE Flow
  OBVIOUS
<1>0. /\ Init /\ pc = "boot" /\ typed = 0 /\ line = << >> /\ reads = << >> /\ writes = << >>
      /\ pids = << >> /\ last_exit = 0 /\ IInv /\ Root \in Proc
  BY InitWorks DEF ShellInit, SInv, KernelAssumption
<1>1. Len(reads) = 0 /\ Len(writes) = 0 /\ Len(pids) = 0 /\ Len(line) = 0 /\ DOMAIN pids = {}
      /\ pids \in Seq(Proc \ {Root}) /\ line \in Seq(Stage) /\ 1..Len(reads) = {}
  BY <1>0, EmptySeq
<1>2. Cardinality(HostFds) \in Nat /\ made = Cardinality(HostFds)
  <2>1. HostFds \in SUBSET (0..2)
    BY DEF KernelAssumption
  <2> QED BY <1>0, <2>1, IntervalFinite, FS_Subset, FS_CardinalityType DEF Init
<1>3. Lineup
  <2>1. typed \in 0..MaxLines
    BY <1>0 DEF ShellAssumption
  <2>2. Distinct(pids)
    BY <1>1 DEF Distinct
  <2> QED BY <1>0, <1>1, <1>2, <2>1, <2>2 DEF Lineup, Working
<1>4. ShellEnds
  BY <1>0 DEF ShellEnds, Init
<1>5. Programs
  BY <1>0 DEF ShellInit, Init, Programs, Sound, Idle, NoStage, IsSource
<1>6. ProgTypes
  BY DEF ShellInit, ProgTypes, KernelAssumption, ShellAssumption, NoStage, IsSource
<1>7. StageEnds /\ Streams
  BY <1>1 DEF StageEnds, Streams
<1>8. Untouched
  <2>1. \A f \in HostFds : HostPipe(f) \in Pipe
    BY <1>0, <1>3, Pipes, <1>2 DEF Pipe, KernelAssumption
  <2> QED BY <1>0, <2>1 DEF Untouched, Init
<1> QED BY <1>3, <1>4, <1>5, <1>6, <1>7, <1>8 DEF Flow

LEMMA NextFlow ==
    KernelAssumption /\ ShellAssumption /\ SInv /\ Flow /\ [ShellNext]_allVars => Flow'
<1> SUFFICES ASSUME KernelAssumption, ShellAssumption, SInv, Flow, [ShellNext]_allVars
             PROVE  Flow'
  OBVIOUS
<1>1. IInv /\ SInv'
  BY NextWorks DEF SInv
<1>2. IInv'
  BY <1>1 DEF SInv
<1>3. pc = "spawning" => Unborn # {}
  BY <1>1, SomeUnborn DEF SInv
<1>4. CASE \E l \in Lines : Types(l)
  BY <1>1, <1>4, TypesFlow
<1>5. CASE ShellExits \/ RedirectFails
  BY <1>1, <1>5, LeavesFlow
<1>6. CASE Boot
  BY <1>1, <1>6, BootFlow
<1>7. CASE MakesPipe
  BY <1>1, <1>7, MakesPipeFlow
<1>8. CASE SpawnsStage
  BY <1>1, <1>3, <1>8, SpawnsStageFlow DEF SpawnsStage, At
<1>9. CASE ClosesPipeFd \/ Joins \/ Joined
  BY <1>1, <1>9, ShellWaitsFlow
<1>10. ASSUME NEW p \in Proc, StageRuns(p) PROVE Flow'
  <2>1. Aside /\ p \in Proc \ {Root}
    BY <1>1, <1>10, StageRunsAside DEF StageRuns
  <2>2. CASE Reads(p) \/ Writes(p)
    BY <1>1, <2>1, <2>2, CallsFlow
  <2>3. CASE ReadAnswered(p)
    BY <1>1, <2>1, <2>3, ReadAnsweredFlow
  <2>4. CASE WriteAnswered(p)
    BY <1>1, <2>1, <2>4, WriteAnsweredFlow
  <2>5. CASE WritesFile(p)
    BY <1>1, <2>1, <2>5, WritesFileFlow
  <2>6. CASE Exits(p) \/ NotThere(p)
    <3>1. Next
      BY <2>6 DEF Exits, NotThere, Next, GuestStep
    <3>2. ClosesLast
      BY <1>1, <3>1, NextIInv
    <3> QED BY <1>1, <1>2, <2>1, <2>6, <3>2, EndsFlow
  <2> QED BY <1>10, <2>2, <2>3, <2>4, <2>5, <2>6 DEF StageRuns
<1>11. ASSUME NEW p \in Proc, KernelRuns(p) \/ StageStartFails(p) PROVE Flow'
  <2>0. UNCHANGED <<shellVars, progVars>>
    BY <1>11 DEF KernelRuns, StageStartFails
  <2>1. CASE p = Root
    <3>1. Finish(Root)
      BY <1>11, <2>1 DEF KernelRuns, StageStartFails
    <3> QED BY <1>1, <2>0, <3>1, FinishesFlow
  <2>2. CASE p # Root
    <3>1. UNCHANGED progVars /\ (Start(p) \/ AcquireFails(p) \/ StartFails(p) \/ Finish(p))
      BY <1>11, <2>0 DEF KernelRuns, StageStartFails
    <3>2. Aside
      BY <1>1, <1>11, <2>2, KernelRunsAside
    <3> QED BY <1>1, <2>2, <3>1, <3>2, StartsFlow
  <2> QED BY <2>1, <2>2
<1>12. CASE HostRuns
  BY <1>1, <1>12, HostSpawnFlow, DrainsFlow DEF HostRuns
<1>13. CASE UNCHANGED allVars
  BY <1>1, <1>13, DrainsFlow DEF allVars
<1> QED BY <1>4, <1>5, <1>6, <1>7, <1>8, <1>9, <1>10, <1>11, <1>12, <1>13 DEF ShellNext, ShellRuns

LEMMA Flows == ShellSpec => [](SInv /\ Flow)
<1>1. ShellInit => SInv /\ Flow
  BY InitWorks, InitFlow, KernelAssumption, ShellAssumption
<1>2. SInv /\ Flow /\ [ShellNext]_allVars => SInv' /\ Flow'
  BY NextWorks, NextFlow, KernelAssumption, ShellAssumption
<1> QED BY <1>1, <1>2, PTL DEF ShellSpec

\* The shell's and the programs' state keeps its types: a filter never holds more than a pipe
\* holds, and a source more than it makes.
THEOREM ShellKeepsTypes == ShellSpec => []ShellTypes
<1>1. SInv /\ Flow => ShellTypes
  <2> SUFFICES ASSUME SInv, Flow PROVE ShellTypes
    OBVIOUS
  <2>1. ProgTypes /\ Lineup
    BY DEF Flow
  <2>2. /\ line \in Seq(Stage) /\ Len(line) \in Nat /\ Len(reads) \in Nat
        /\ Len(reads) <= Len(line) /\ pids \in Seq(Proc \ {Root}) /\ Len(pids) \in Nat
        /\ (Len(pids) > 0 => Len(pids) <= Len(line)) /\ Len(writes) = Len(reads)
    BY <2>1, LenProperties DEF Lineup
  <2>3. Len(reads) < Len(line) + 1 /\ Len(pids) <= Len(line)
    BY <2>2
  <2> QED BY <2>1, <2>2, <2>3 DEF Lineup, Working, ProgTypes, ShellTypes
<1> QED BY <1>1, Flows, PTL

\* A filter that has seen end of file has read all that the stage before it wrote, and that
\* stage writes no more.
THEOREM EofIsTheEnd == ShellSpec => []EofMeansDone
<1>1. SInv /\ Flow => EofMeansDone
  <2> SUFFICES ASSUME SInv, Flow, NEW i \in 1..Len(pids) - 1,
                      ended[pids[i + 1]], Program(pids[i + 1]) = "cat",
                      ~IsFile(pids[i], 1), ~IsFile(pids[i + 1], 0)
               PROVE  Ended(pids[i]) /\ took[pids[i + 1]] = moved[pids[i]]
    BY DEF EofMeansDone
  <2>1. /\ DOMAIN pids = 1..Len(pids) /\ Len(pids) \in Nat /\ Len(reads) \in Nat
        /\ Len(pids) > 0 => Len(line) = Len(reads) + 1 /\ Len(pids) <= Len(line)
    BY LenProperties DEF Flow, Lineup
  <2>2. i \in DOMAIN pids /\ i + 1 \in DOMAIN pids /\ i \in 1..Len(reads)
    BY <2>1
  <2>3. Stream(i) /\ AtEof(i)
    BY <2>2 DEF Flow, Streams, AtEof
  <2>4. Ended(pids[i]) /\ Sent(i) = Got(i) + 0
    BY <2>3 DEF Stream
  <2>5. Sent(i) = moved[pids[i]] /\ Got(i) = took[pids[i + 1]]
    BY <2>2 DEF Sent, Got
  <2>6. took[pids[i + 1]] \in Nat
    BY <2>2, StageOf DEF Flow, ProgTypes
  <2> QED BY <2>4, <2>5, <2>6
<1> QED BY <1>1, Flows, PTL
=============================================================================
