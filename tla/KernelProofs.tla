---------------------------- MODULE KernelProofs ----------------------------
(* The table of pipe ends keeps its types, never forgets a live holder, and  *)
(* closes a pipe at its last holder only, for any number of processes,       *)
(* descriptors and pipes.                                                    *)
EXTENDS Kernel, FiniteSetTheorems, TLAPS

\* The two together are inductive: the count of a write end's holders is only right for
\* ends that were made, which the types say.
IInv == TypeInvariant /\ NoHolderForgotten

\* What ClosedByLastHolder asks of one step.
ClosesLast == \A k \in Pipe : closed'[k] /\ ~closed[k] => LiveHolds(k)' = 0

Refs(p, k) == {f \in WriteFds(p) : merged[p][f].pipe = k}

-----------------------------------------------------------------------------
(* Counting references.                                                      *)

\* The standard descriptors are finitely many.
LEMMA IntervalFinite == IsFiniteSet(0..2)
<1>1. 0 \in Int /\ 2 \in Int
  OBVIOUS
<1> QED BY <1>1, FS_Interval

\* Ranks: counting the elements of a finite set of descriptors up to one of them.
LEMMA Rank ==
    ASSUME NEW S \in SUBSET (0..2), NEW f \in S
    PROVE  /\ IsFiniteSet(S) /\ Cardinality(S) \in Nat
           /\ Cardinality({g \in S : g <= f}) \in 1..Cardinality(S)
<1>1. IsFiniteSet(S)
  BY IntervalFinite, FS_Subset
<1>2. {g \in S : g <= f} \in SUBSET S
  OBVIOUS
<1>3. IsFiniteSet({g \in S : g <= f}) /\ Cardinality({g \in S : g <= f}) <= Cardinality(S)
  BY <1>1, <1>2, FS_Subset
<1>4. f \in {g \in S : g <= f}
  OBVIOUS
<1>5. Cardinality({g \in S : g <= f}) # 0
  BY <1>3, <1>4, FS_EmptySet
<1>6. Cardinality(S) \in Nat /\ Cardinality({g \in S : g <= f}) \in Nat
  BY <1>1, <1>3, FS_CardinalityType
<1> QED BY <1>1, <1>3, <1>5, <1>6

\* The references to a pipe are finitely many.
LEMMA RefsFinite ==
    ASSUME KernelAssumption, NEW k
    PROVE  /\ IsFiniteSet(LiveRefs(k))
           /\ LiveHolds(k) \in Nat
<1>1. IsFiniteSet(Running) /\ IsFiniteSet(Std)
  <2>1. Running \in SUBSET Proc /\ Std \in SUBSET (0..2)
    BY DEF Running, KernelAssumption
  <2> QED BY <2>1, IntervalFinite, FS_Subset DEF KernelAssumption
<1>2. IsFiniteSet(Running \X Std)
  BY <1>1, FS_Product
<1>3. LiveRefs(k) \in SUBSET (Running \X Std)
  BY DEF LiveRefs
<1> QED BY <1>2, <1>3, FS_Subset, FS_CardinalityType DEF LiveHolds

\* The references of one process, counted as pairs or as descriptors.
LEMMA PairsOfOne ==
    ASSUME NEW p, NEW R, IsFiniteSet(R)
    PROVE  /\ IsFiniteSet({p} \X R)
           /\ Cardinality({p} \X R) = Cardinality(R) /\ Cardinality(R) \in Nat
<1>1. IsFiniteSet({p}) /\ Cardinality({p}) = 1
  BY FS_Singleton
<1>2. Cardinality(R) \in Nat
  BY FS_CardinalityType
<1> QED BY <1>1, <1>2, FS_Product

\* Starting a process adds its references to those of the others.
LEMMA StartRefs ==
    ASSUME KernelAssumption, TypeInvariant, NEW q \in Proc, NEW k,
           phase[q] = "opening", phase' = [phase EXCEPT ![q] = "running"], merged' = merged
    PROVE  LiveHolds(k)' = LiveHolds(k) + HeldBy(q, k) /\ HeldBy(q, k) \in Nat
<1>1. /\ Refs(q, k) \in SUBSET Std
      /\ IsFiniteSet(Refs(q, k))
  <2>1. Refs(q, k) \in SUBSET Std /\ Std \in SUBSET (0..2)
    BY DEF Refs, WriteFds, TypeInvariant, KernelAssumption
  <2> QED BY <2>1, IntervalFinite, FS_Subset
<1>2. LiveRefs(k)' = LiveRefs(k) \union ({q} \X Refs(q, k))
  <2>1. Running' = Running \union {q}
    BY DEF Running, TypeInvariant
  <2> QED BY <1>1, <2>1 DEF LiveRefs, Refs, WriteFds
<1>3. LiveRefs(k) \intersect ({q} \X Refs(q, k)) = {}
  BY DEF LiveRefs, Running
<1>4. /\ IsFiniteSet(LiveRefs(k)) /\ LiveHolds(k) \in Nat
      /\ IsFiniteSet({q} \X Refs(q, k))
      /\ Cardinality({q} \X Refs(q, k)) = HeldBy(q, k) /\ HeldBy(q, k) \in Nat
  BY <1>1, RefsFinite, PairsOfOne DEF Refs, HeldBy
<1>5. Cardinality(LiveRefs(k) \union ({q} \X Refs(q, k))) =
         LiveHolds(k) + HeldBy(q, k) - Cardinality({})
  BY <1>3, <1>4, FS_Union DEF LiveHolds
<1> QED BY <1>2, <1>4, <1>5, FS_EmptySet DEF LiveHolds

\* Ending a process takes its references away.
LEMMA EndRefs ==
    ASSUME KernelAssumption, TypeInvariant, NEW q \in Proc, NEW k, NEW ph, ph # "running",
           phase[q] = "running", phase' = [phase EXCEPT ![q] = ph], TablesGo(q)
    PROVE  /\ LiveHolds(k)' \in Nat /\ HeldBy(q, k) \in Nat
           /\ LiveHolds(k) = LiveHolds(k)' + HeldBy(q, k)
<1>1. IsFiniteSet(Refs(q, k))
  <2>1. Refs(q, k) \in SUBSET Std /\ Std \in SUBSET (0..2)
    BY DEF Refs, WriteFds, TypeInvariant, KernelAssumption
  <2> QED BY <2>1, IntervalFinite, FS_Subset
<1>2. LiveRefs(k)' = LiveRefs(k) \ ({q} \X Refs(q, k))
  <2>1. Running' = Running \ {q}
    BY DEF Running, TypeInvariant
  <2>2. \A p \in Proc \ {q} : merged'[p] = merged[p]
    BY DEF TablesGo, TypeInvariant
  <2>3. \A p \in Running' : p \in Proc /\ p # q /\ p \in Running
    BY <2>1 DEF Running
  <2>4. LiveRefs(k)' = {r \in (Running \ {q}) \X Std : r[2] \in WriteFds(r[1]) /\ merged[r[1]][r[2]].pipe = k}
    BY <2>1, <2>2, <2>3 DEF LiveRefs, WriteFds
  <2> QED BY <2>4 DEF LiveRefs, Refs
<1>3. {q} \X Refs(q, k) \subseteq LiveRefs(k)
  BY DEF LiveRefs, Refs, Running, WriteFds, TypeInvariant
<1>4. /\ IsFiniteSet(LiveRefs(k)) /\ LiveHolds(k) \in Nat
      /\ IsFiniteSet({q} \X Refs(q, k))
      /\ Cardinality({q} \X Refs(q, k)) = HeldBy(q, k) /\ HeldBy(q, k) \in Nat
  BY <1>1, RefsFinite, PairsOfOne DEF Refs, HeldBy
<1>5. Cardinality(LiveRefs(k) \ ({q} \X Refs(q, k))) =
         LiveHolds(k) - Cardinality(LiveRefs(k) \intersect ({q} \X Refs(q, k)))
  BY <1>4, FS_Difference DEF LiveHolds
<1>6. LiveRefs(k) \intersect ({q} \X Refs(q, k)) = {q} \X Refs(q, k)
  BY <1>3
<1>7. LiveHolds(k)' = LiveHolds(k) - HeldBy(q, k)
  BY <1>2, <1>4, <1>5, <1>6 DEF LiveHolds
<1>8. HeldBy(q, k) <= LiveHolds(k)
  <2>1. {q} \X Refs(q, k) \in SUBSET LiveRefs(k)
    BY <1>3
  <2> QED BY <1>4, <2>1, FS_Subset DEF LiveHolds
<1> QED BY <1>4, <1>7, <1>8

\* Nothing moves while phases and maps stay as they are.
LEMMA SameRefs ==
    ASSUME NEW k, Running' = Running, \A p \in Running : merged'[p] = merged[p]
    PROVE  LiveHolds(k)' = LiveHolds(k)
BY DEF LiveHolds, LiveRefs, WriteFds

\* No running process refers to a pipe that has not been made.
LEMMA FreshUnreferenced ==
    ASSUME TypeInvariant, NEW k, k \notin 1..made
    PROVE  LiveHolds(k) = 0
<1>1. LiveRefs(k) = {}
  BY DEF LiveRefs, Running, WriteFds, TypeInvariant, FdEntry
<1> QED BY <1>1, FS_EmptySet DEF LiveHolds

-----------------------------------------------------------------------------
(* The invariant.                                                            *)

\* Before anything is spawned the host's pipes exist and nobody holds them.
LEMMA InitIInv == KernelAssumption /\ Init => IInv
<1> SUFFICES ASSUME KernelAssumption, Init PROVE IInv
  OBVIOUS
<1>1. Cardinality(HostFds) \in Nat
  <2>1. HostFds \in SUBSET (0..2)
    BY DEF KernelAssumption
  <2> QED BY <2>1, IntervalFinite, FS_Subset, FS_CardinalityType
<1>2. TypeInvariant
  BY <1>1 DEF Init, TypeInvariant, KernelAssumption, NoFds, Idle, Phase, Pipe
<1>3. ASSUME NEW k PROVE LiveHolds(k) = 0
  <2>1. LiveRefs(k) = {}
    BY DEF Init, LiveRefs, Running
  <2> QED BY <2>1, FS_EmptySet DEF LiveHolds
<1> QED BY <1>2, <1>3 DEF IInv, NoHolderForgotten, Init

\* spawnWithEntries up to its first await, called with well-typed entries.
LEMMA BeginKeeps ==
    ASSUME KernelAssumption, IInv, NEW q \in Proc, NEW provided, NEW files,
           DOMAIN provided \subseteq Std, \A f \in DOMAIN provided : provided[f] \in FdEntry,
           Begin(q, provided, files),
           children' \in [Proc -> SUBSET Proc], op' = op
    PROVE  IInv' /\ ClosesLast
<1> DEFINE missing == Std \ (DOMAIN provided \union files)
           Default(f) == made + Cardinality({g \in missing : g <= f})
           fresh == {Default(f) : f \in missing}
<1>1. /\ made \in Nat /\ MaxPipes \in Nat /\ Cardinality(missing) \in Nat
      /\ Cardinality(HostFds) \in Nat
      /\ \A f \in missing : Default(f) \in made + 1 .. made + Cardinality(missing)
  <2>1. missing \in SUBSET (0..2) /\ HostFds \in SUBSET (0..2)
    BY DEF KernelAssumption
  <2>2. IsFiniteSet(missing) /\ IsFiniteSet(HostFds)
    BY <2>1, IntervalFinite, FS_Subset
  <2>3. Cardinality(missing) \in Nat /\ Cardinality(HostFds) \in Nat
    BY <2>2, FS_CardinalityType
  <2>4. \A f \in missing : Cardinality({g \in missing : g <= f}) \in 1..Cardinality(missing)
    BY <2>1, Rank
  <2>5. made \in Nat /\ MaxPipes \in Nat
    BY <2>3 DEF IInv, TypeInvariant, KernelAssumption
  <2> HIDE DEF missing
  <2> QED BY <2>3, <2>4, <2>5
<1>2. /\ made' = made + Cardinality(missing)
      /\ made' <= MaxPipes
      /\ ends' = ends \union ({"read", "write"} \X fresh)
      /\ closed' \in [Pipe -> BOOLEAN]
      /\ \A k \in Pipe : closed'[k] /\ ~closed[k] => k \in fresh
      /\ phase[q] = "unborn" /\ phase' = [phase EXCEPT ![q] = "opening"]
      /\ given' = [given EXCEPT ![q] = DOMAIN provided]
      /\ merged' = [merged EXCEPT ![q] =
              Over(provided, [f \in missing |-> End(IF f = 0 THEN "read" ELSE "write", Default(f))])]
      /\ owned' = [owned EXCEPT ![q] = fresh]
      /\ UNCHANGED <<holders, level, fds, nextFd>>
  <2>1. closed' = [k \in Pipe |-> closed[k] \/ (0 \in missing /\ k = Default(0))]
    BY DEF Begin
  <2>2. 0 \in missing => Default(0) \in fresh
    OBVIOUS
  <2>3. \A k \in Pipe : closed'[k] /\ ~closed[k] => k \in fresh
    <3> HIDE DEF missing, Default, fresh
    <3> QED BY <2>1, <2>2
  <2>4. closed' \in [Pipe -> BOOLEAN]
    BY <2>1 DEF IInv, TypeInvariant
  <2> QED BY <2>3, <2>4 DEF Begin, IInv, TypeInvariant
<1>3. drain' \in [Pipe -> {"none", "running", "ended"}]
  BY DEF Begin, IInv, TypeInvariant
<1>4. made' \in Cardinality(HostFds)..MaxPipes /\ 1..made \subseteq 1..made'
  <2>1. made \in Cardinality(HostFds)..MaxPipes
    BY DEF IInv, TypeInvariant
  <2> HIDE DEF missing
  <2>2. made' = made + Cardinality(missing) /\ made' <= MaxPipes
    BY <1>2
  <2> QED BY <1>1, <2>1, <2>2
<1>5. fresh \subseteq 1..made' /\ \A k \in fresh : k \notin 1..made
  <2>1. \A k \in fresh : \E f \in missing : k = Default(f)
    OBVIOUS
  <2> HIDE DEF missing, fresh, Default
  <2>2. \A k \in fresh : k \in made + 1 .. made + Cardinality(missing)
    BY <1>1, <2>1
  <2>3. made' = made + Cardinality(missing)
    BY <1>2
  <2> HIDE DEF missing
  <2> QED BY <1>1, <2>2, <2>3
<1>6. FdEntry \subseteq FdEntry'
  BY <1>4 DEF FdEntry
<1>7. /\ DOMAIN merged'[q] \subseteq Std
      /\ \A f \in DOMAIN merged'[q] : merged'[q][f] \in FdEntry'
  <2> DEFINE dflt == [f \in missing |-> End(IF f = 0 THEN "read" ELSE "write", Default(f))]
  <2>1. merged'[q] = Over(provided, dflt)
    BY <1>2 DEF IInv, TypeInvariant
  <2>2. \A f \in missing : dflt[f] \in FdEntry'
    <3> HIDE DEF missing
    <3>1. \A f \in missing : Default(f) \in 1..made'
      <4>1. \A f \in missing : Default(f) \in fresh
        OBVIOUS
      <4> HIDE DEF Default, fresh
      <4> QED BY <1>5, <4>1
    <3> HIDE DEF Default
    <3> QED BY <3>1 DEF End, FdEntry
  <2>3. DOMAIN dflt = missing
    OBVIOUS
  <2> HIDE DEF dflt, missing
  <2>4. DOMAIN Over(provided, dflt) = DOMAIN provided \union missing
    BY <2>3 DEF Over
  <2>5. \A f \in DOMAIN provided \union missing :
           Over(provided, dflt)[f] = IF f \in DOMAIN provided THEN provided[f] ELSE dflt[f]
    BY <2>3 DEF Over
  <2> QED BY <1>6, <2>1, <2>2, <2>4, <2>5 DEF missing
<1> HIDE DEF missing, fresh, Default
<1>8. TypeInvariant'
  <2>1. /\ DOMAIN merged' = Proc /\ DOMAIN fds' = Proc
        /\ \A p \in Proc :
              /\ DOMAIN merged'[p] \subseteq Std
              /\ \A f \in DOMAIN merged'[p] : merged'[p][f] \in FdEntry'
              /\ \A f \in DOMAIN fds'[p] : fds'[p][f] \in FdEntry'
    BY <1>2, <1>6, <1>7 DEF IInv, TypeInvariant
  <2>2. ends' \subseteq {"read", "write"} \X (1..made')
    BY <1>2, <1>4, <1>5 DEF IInv, TypeInvariant
  <2>3. /\ phase' \in [Proc -> Phase]
        /\ given' \in [Proc -> SUBSET Std]
        /\ owned' \in [Proc -> SUBSET (1..made')]
    BY <1>2, <1>4, <1>5 DEF IInv, TypeInvariant, Phase
  <2>4. op' \in [Proc -> [call : {"none", "read", "write", "join"}, pipe : 0..made', child : Proc]]
    BY <1>1, <1>2 DEF IInv, TypeInvariant
  <2> QED BY <1>2, <1>3, <1>4, <2>1, <2>2, <2>3, <2>4 DEF IInv, TypeInvariant
<1>9. ASSUME NEW k PROVE LiveHolds(k)' = LiveHolds(k)
  <2>1. Running' = Running /\ q \notin Running
    BY <1>2 DEF Running, IInv, TypeInvariant
  <2>2. \A p \in Running : merged'[p] = merged[p]
    BY <1>2, <2>1 DEF IInv, TypeInvariant
  <2> QED BY <2>1, <2>2, SameRefs
<1>10. ASSUME NEW k \in Pipe, <<"write", k>> \in ends' PROVE holders'[k] >= LiveHolds(k)'
  <2>1. CASE <<"write", k>> \in ends
    BY <1>2, <1>9, <2>1 DEF IInv, NoHolderForgotten
  <2>2. CASE <<"write", k>> \notin ends
    <3>1. k \notin 1..made
      BY <1>2, <1>5, <1>10, <2>2
    <3> QED BY <1>2, <1>9, <3>1, FreshUnreferenced DEF IInv, TypeInvariant
  <2> QED BY <2>1, <2>2
<1>11. ClosesLast
  <2> SUFFICES ASSUME NEW k \in Pipe, closed'[k], ~closed[k] PROVE LiveHolds(k)' = 0
    BY DEF ClosesLast
  <2>1. k \notin 1..made
    BY <1>2, <1>5
  <2> QED BY <1>9, <2>1, FreshUnreferenced DEF IInv
<1> QED BY <1>8, <1>10, <1>11 DEF IInv, NoHolderForgotten

\* The number of pipes made is a number.
LEMMA IInvMade == ASSUME KernelAssumption, IInv PROVE made \in Nat
<1>1. HostFds \in SUBSET (0..2)
  BY DEF KernelAssumption
<1>2. Cardinality(HostFds) \in Nat
  BY <1>1, IntervalFinite, FS_Subset, FS_CardinalityType
<1> QED BY <1>2 DEF IInv, TypeInvariant, KernelAssumption

\* Emptying a pipe, or adding a byte to one that has room, keeps the levels in their range.
LEMMA LevelTypes ==
    ASSUME KernelAssumption, IInv, NEW k
    PROVE  /\ [level EXCEPT ![k] = 0] \in [Pipe -> 0..Capacity]
           /\ level[k] < Capacity => [level EXCEPT ![k] = @ + 1] \in [Pipe -> 0..Capacity]
<1>1. level \in [Pipe -> 0..Capacity] /\ Capacity \in Nat
  BY DEF IInv, TypeInvariant, KernelAssumption
<1>2. 0 \in 0..Capacity /\ \A n \in 0..Capacity : n < Capacity => n + 1 \in 0..Capacity
  BY <1>1
<1>3. CASE k \in Pipe
  <2>1. level[k] \in 0..Capacity
    BY <1>1, <1>3
  <2> QED BY <1>1, <1>2, <2>1
<1>4. CASE k \notin Pipe
  <2>1. [level EXCEPT ![k] = 0] = level /\ [level EXCEPT ![k] = @ + 1] = level
    BY <1>1, <1>4
  <2> QED BY <1>1, <2>1
<1> QED BY <1>3, <1>4

\* A step that leaves the table, the phases and the maps alone.
LEMMA HeldStays ==
    ASSUME IInv, TypeInvariant', UNCHANGED <<ends, holders, closed, phase, merged>>
    PROVE  IInv' /\ ClosesLast
<1>1. ASSUME NEW k PROVE LiveHolds(k)' = LiveHolds(k)
  BY SameRefs DEF Running
<1> QED BY <1>1 DEF IInv, NoHolderForgotten, ClosesLast

\* The worker starts: each write end in `merged` gets its holder.
LEMMA StartKeeps ==
    ASSUME KernelAssumption, IInv, NEW q \in Proc, Start(q)
    PROVE  IInv' /\ ClosesLast
<1>1. ASSUME NEW k
      PROVE  /\ Acquires(q, k) = HeldBy(q, k) /\ HeldBy(q, k) \in Nat
             /\ LiveHolds(k)' = LiveHolds(k) + HeldBy(q, k)
  <2>1. Acquired(q) = WriteFds(q)
    BY DEF Start, Acquired
  <2>2. LiveHolds(k)' = LiveHolds(k) + HeldBy(q, k) /\ HeldBy(q, k) \in Nat
    BY StartRefs DEF Start, IInv
  <2> QED BY <2>1, <2>2 DEF Acquires, HeldBy
<1>2. /\ holders' \in [Pipe -> Nat]
      /\ \A k \in Pipe : holders'[k] = holders[k] + HeldBy(q, k) /\ holders[k] \in Nat
  <2>1. holders' = [k \in Pipe |-> holders[k] + HeldBy(q, k)]
    BY <1>1 DEF Start
  <2> QED BY <1>1, <2>1 DEF IInv, TypeInvariant
<1>3. TypeInvariant'
  <2>1. fds' = [fds EXCEPT ![q] = merged[q]] /\ phase' = [phase EXCEPT ![q] = "running"]
    BY DEF Start
  <2>2. phase' \in [Proc -> Phase] /\ DOMAIN fds' = Proc
    BY <2>1 DEF IInv, TypeInvariant, Phase
  <2>3. UNCHANGED <<made, ends, closed, level, drain, given, merged, owned, nextFd, children, op>>
    BY DEF Start
  <2>4. \A p \in Proc : \A f \in DOMAIN fds'[p] : fds'[p][f] \in FdEntry
    BY <2>1 DEF IInv, TypeInvariant
  <2> QED BY <1>2, <2>2, <2>3, <2>4 DEF IInv, TypeInvariant, FdEntry
<1>4. \A k \in Pipe : LiveHolds(k) \in Nat
  BY RefsFinite
<1>5. NoHolderForgotten'
  BY <1>1, <1>2, <1>4 DEF Start, IInv, NoHolderForgotten
<1>6. ClosesLast
  BY DEF Start, ClosesLast
<1> QED BY <1>3, <1>5, <1>6 DEF IInv

\* A process ends, by exit or by error: its references go as its holders do, and an end
\* whose count reaches zero has no other.
LEMMA EndKeeps ==
    ASSUME KernelAssumption, IInv, NEW q \in Proc, NEW ph \in {"draining", "failed"},
           phase[q] = "running", phase' = [phase EXCEPT ![q] = ph],
           CloseWriteEnds(q), TablesGo(q), UNCHANGED <<owned, children, op>>
    PROVE  IInv' /\ ClosesLast
<1> DEFINE Closes(k) == IF <<"write", k>> \in ends THEN HeldBy(q, k) ELSE 0
           Left(k)   == IF holders[k] > Closes(k) THEN holders[k] - Closes(k) ELSE 0
<1>1. /\ holders' = [k \in Pipe |-> Left(k)]
      /\ closed' = [k \in Pipe |-> closed[k] \/ (Closes(k) > 0 /\ LastHolder(k, Left(k)))]
      /\ UNCHANGED <<made, ends, level, drain>>
  BY DEF CloseWriteEnds
<1>2. ASSUME NEW k \in Pipe
      PROVE  /\ LiveHolds(k)' \in Nat /\ HeldBy(q, k) \in Nat /\ holders[k] \in Nat
             /\ LiveHolds(k) = LiveHolds(k)' + HeldBy(q, k)
  BY EndRefs DEF IInv, TypeInvariant
<1>3. ASSUME NEW k \in Pipe
      PROVE  /\ Left(k) \in Nat
             /\ <<"write", k>> \in ends => Left(k) >= LiveHolds(k)'
  <2>1. <<"write", k>> \in ends => holders[k] >= LiveHolds(k)' + HeldBy(q, k)
    BY <1>2 DEF IInv, NoHolderForgotten
  <2> QED BY <1>2, <2>1
<1>4. TypeInvariant'
  <2>1. holders' \in [Pipe -> Nat] /\ closed' \in [Pipe -> BOOLEAN]
    BY <1>1, <1>3 DEF IInv, TypeInvariant
  <2>2. phase' \in [Proc -> Phase]
    BY DEF IInv, TypeInvariant, Phase
  <2>3. given' \in [Proc -> SUBSET Std] /\ nextFd' \in [Proc -> Nat]
    BY DEF IInv, TypeInvariant, TablesGo
  <2>4. /\ DOMAIN merged' = Proc /\ DOMAIN fds' = Proc
        /\ \A p \in Proc :
              /\ DOMAIN merged'[p] \subseteq Std
              /\ \A f \in DOMAIN merged'[p] : merged'[p][f] \in FdEntry
              /\ \A f \in DOMAIN fds'[p] : fds'[p][f] \in FdEntry
    <3>1. DOMAIN NoFds = {}
      BY DEF NoFds
    <3> QED BY <3>1 DEF IInv, TypeInvariant, TablesGo
  <2> QED BY <1>1, <2>1, <2>2, <2>3, <2>4 DEF IInv, TypeInvariant, FdEntry
<1>5. NoHolderForgotten'
  BY <1>1, <1>3 DEF NoHolderForgotten
<1>6. ClosesLast
  <2> SUFFICES ASSUME NEW k \in Pipe, closed'[k], ~closed[k] PROVE LiveHolds(k)' = 0
    BY DEF ClosesLast
  <2>1. Closes(k) > 0 /\ Left(k) = 0
    BY <1>1 DEF LastHolder
  <2>2. <<"write", k>> \in ends
    BY <2>1
  <2> QED BY <1>2, <1>3, <2>1, <2>2
<1> QED BY <1>4, <1>5, <1>6 DEF IInv

\* Every step keeps the invariant and closes a pipe at its last holder only.
LEMMA NextIInv ==
    ASSUME KernelAssumption, IInv, [Next]_vars
    PROVE  IInv' /\ ClosesLast
<1> USE DEF IInv
<1>1. CASE HostSpawn
  <2> DEFINE entries == [f \in HostFds |-> End(IF f = 0 THEN "read" ELSE "write", HostPipe(f))]
  <2>1. HostFds \in SUBSET (0..2) /\ HostFds \subseteq Std /\ Root \in Proc
    BY DEF KernelAssumption
  <2>2. \A f \in HostFds : HostPipe(f) \in 1..made
    <3>1. \A f \in HostFds : HostPipe(f) \in 1..Cardinality(HostFds)
      BY <2>1, Rank DEF HostPipe
    <3>2. made \in Cardinality(HostFds)..MaxPipes
      BY DEF TypeInvariant
    <3>3. \A f \in HostFds : Cardinality(HostFds) \in Nat
      BY <2>1, Rank
    <3> QED BY <3>1, <3>2, <3>3 DEF KernelAssumption
  <2>3. \A f \in HostFds : entries[f] \in FdEntry
    BY <2>2 DEF End, FdEntry
  <2>4. DOMAIN entries = HostFds
    OBVIOUS
  <2>5. Begin(Root, entries, {}) /\ UNCHANGED <<children, op>>
    BY <1>1 DEF HostSpawn
  <2>6. children' \in [Proc -> SUBSET Proc]
    BY <2>5 DEF TypeInvariant
  <2> HIDE DEF entries
  <2> QED BY <2>1, <2>3, <2>4, <2>5, <2>6, BeginKeeps
<1>2. ASSUME NEW p \in Proc, Start(p) PROVE IInv' /\ ClosesLast
  BY <1>2, StartKeeps
<1>3. ASSUME NEW p \in Proc, NEW m, DOMAIN m \subseteq DOMAIN merged[p],
             \A f \in DOMAIN m : m[f] = merged[p][f],
             merged' = [merged EXCEPT ![p] = m],
             given' = [given EXCEPT ![p] = {}], fds' = [fds EXCEPT ![p] = NoFds],
             nextFd' = [nextFd EXCEPT ![p] = 16],
             phase' = [phase EXCEPT ![p] = "failed"], phase[p] = "opening",
             holders' \in [Pipe -> Nat], \A k \in Pipe : holders'[k] >= holders[k],
             UNCHANGED <<made, ends, closed, level, drain, owned, children, op>>
      PROVE  IInv' /\ ClosesLast
  <2>1. TypeInvariant'
    <3>1. phase' \in [Proc -> Phase]
      BY <1>3 DEF TypeInvariant, Phase
    <3>2. given' \in [Proc -> SUBSET Std] /\ nextFd' \in [Proc -> Nat]
      BY <1>3 DEF TypeInvariant
    <3>3. /\ DOMAIN merged' = Proc /\ DOMAIN fds' = Proc
          /\ \A q \in Proc :
                /\ DOMAIN merged'[q] \subseteq Std
                /\ \A f \in DOMAIN merged'[q] : merged'[q][f] \in FdEntry
                /\ \A f \in DOMAIN fds'[q] : fds'[q][f] \in FdEntry
      <4>1. DOMAIN NoFds = {}
        BY DEF NoFds
      <4> QED BY <1>3, <4>1 DEF TypeInvariant
    <3> QED BY <1>3, <3>1, <3>2, <3>3 DEF TypeInvariant, FdEntry
  <2>2. ASSUME NEW k PROVE LiveHolds(k)' = LiveHolds(k)
    <3>1. Running' = Running /\ p \notin Running
      BY <1>3 DEF Running, TypeInvariant
    <3>2. \A q \in Running : merged'[q] = merged[q]
      BY <1>3, <3>1 DEF TypeInvariant
    <3> QED BY <3>1, <3>2, SameRefs
  <2>3. NoHolderForgotten'
    <3>1. \A k \in Pipe : LiveHolds(k) \in Nat /\ holders[k] \in Nat /\ holders'[k] \in Nat
      BY <1>3, RefsFinite DEF TypeInvariant
    <3> QED BY <1>3, <2>2, <3>1 DEF NoHolderForgotten
  <2>4. ClosesLast
    BY <1>3 DEF ClosesLast
  <2> QED BY <2>1, <2>3, <2>4
<1>4. ASSUME NEW p \in Proc, AcquireFails(p) PROVE IInv' /\ ClosesLast
  <2>1. \A k : Acquires(p, k) \in Nat
    <3> TAKE k
    <3>1. /\ {f \in Acquired(p) : merged[p][f].pipe = k} \in SUBSET Std
          /\ Std \in SUBSET (0..2)
      BY DEF Acquired, WriteFds, TypeInvariant, KernelAssumption
    <3> QED BY <3>1, IntervalFinite, FS_Subset, FS_CardinalityType DEF Acquires
  <2>2. holders' \in [Pipe -> Nat] /\ \A k \in Pipe : holders'[k] >= holders[k]
    <3>1. holders' = [k \in Pipe |-> holders[k] + Acquires(p, k)] /\ holders \in [Pipe -> Nat]
      BY <1>4 DEF AcquireFails, TypeInvariant
    <3> QED BY <2>1, <3>1
  <2> DEFINE m == [f \in Acquired(p) |-> merged[p][f]]
  <2>3. DOMAIN m \subseteq DOMAIN merged[p] /\ \A f \in DOMAIN m : m[f] = merged[p][f]
    BY DEF Acquired, WriteFds
  <2>4. /\ phase' = [phase EXCEPT ![p] = "failed"] /\ phase[p] = "opening"
        /\ merged' = [merged EXCEPT ![p] = m]
        /\ given' = [given EXCEPT ![p] = {}] /\ fds' = [fds EXCEPT ![p] = NoFds]
        /\ nextFd' = [nextFd EXCEPT ![p] = 16]
        /\ UNCHANGED <<made, ends, closed, level, drain, owned, children, op>>
    BY <1>4 DEF AcquireFails
  <2> HIDE DEF m
  <2> QED BY <1>3, <2>2, <2>3, <2>4
<1>5. ASSUME NEW p \in Proc, StartFails(p) PROVE IInv' /\ ClosesLast
  <2>1. holders' \in [Pipe -> Nat] /\ \A k \in Pipe : holders'[k] >= holders[k]
    BY <1>5 DEF StartFails, pipeVars, TypeInvariant
  <2>2. DOMAIN NoFds = {}
    BY DEF NoFds
  <2> QED BY <1>3, <1>5, <2>1, <2>2 DEF StartFails, TablesGo, pipeVars
<1>6. ASSUME NEW p \in Proc, Exit(p) PROVE IInv' /\ ClosesLast
  BY <1>6, EndKeeps DEF Exit
<1>7. ASSUME NEW p \in Proc, Crash(p) PROVE IInv' /\ ClosesLast
  BY <1>7, EndKeeps DEF Crash
<1>8. ASSUME NEW p \in Proc, Finish(p) PROVE IInv' /\ ClosesLast
  <2>1. TypeInvariant'
    <3>1. phase' \in [Proc -> Phase] /\ ends' \subseteq ends
      BY <1>8 DEF Finish, TypeInvariant, Phase
    <3>2. UNCHANGED <<made, holders, closed, level, drain, given, merged, owned, fds, nextFd, children, op>>
      BY <1>8 DEF Finish
    <3> QED BY <3>1, <3>2 DEF TypeInvariant, FdEntry
  <2>2. ASSUME NEW k PROVE LiveHolds(k)' = LiveHolds(k)
    <3>1. Running' = Running /\ merged' = merged
      BY <1>8 DEF Finish, Running, TypeInvariant
    <3> QED BY <3>1, SameRefs
  <2> QED BY <1>8, <2>1, <2>2 DEF Finish, NoHolderForgotten, ClosesLast
<1>9. ASSUME NEW k \in Pipe, Drain(k) PROVE IInv' /\ ClosesLast
  <2>1. level' \in [Pipe -> 0..Capacity] /\ drain' \in [Pipe -> {"none", "running", "ended"}]
    <3>1. level \in [Pipe -> 0..Capacity] /\ drain \in [Pipe -> {"none", "running", "ended"}]
      BY DEF IInv, TypeInvariant
    <3>2. [level EXCEPT ![k] = 0] \in [Pipe -> 0..Capacity]
      BY LevelTypes
    <3> QED BY <1>9, <3>1, <3>2 DEF Drain
  <2>2. TypeInvariant'
    BY <1>9, <2>1 DEF Drain, TypeInvariant, FdEntry, procVars
  <2> QED BY <1>9, <2>2, HeldStays DEF Drain, procVars
<1>10. ASSUME NEW p \in Proc, FdPipe(p) PROVE IInv' /\ ClosesLast
  <2> DEFINE both == [f \in {nextFd[p], nextFd[p] + 1} |->
                         End(IF f = nextFd[p] THEN "read" ELSE "write", made + 1)]
  <2>1. /\ made' = made + 1 /\ made < MaxPipes
        /\ ends' = ends \union ({"read", "write"} \X {made + 1})
        /\ fds' = [fds EXCEPT ![p] = Over(both, @)]
        /\ nextFd' = [nextFd EXCEPT ![p] = @ + 2]
        /\ UNCHANGED <<holders, closed, level, drain, phase, given, merged, owned, children, op>>
    BY <1>10 DEF FdPipe
  <2>2. /\ made' \in Cardinality(HostFds)..MaxPipes /\ made + 1 \in 1..made' /\ made \in Nat
        /\ 1..made \subseteq 1..made' /\ 0..made \subseteq 0..made'
    <3>1. Cardinality(HostFds) \in Nat /\ MaxPipes \in Nat
      <4>1. HostFds \in SUBSET (0..2)
        BY DEF KernelAssumption
      <4> QED BY <4>1, IntervalFinite, FS_Subset, FS_CardinalityType DEF KernelAssumption
    <3>2. made \in Cardinality(HostFds)..MaxPipes
      BY DEF TypeInvariant
    <3> QED BY <2>1, <3>1, <3>2
  <2>3. FdEntry \subseteq FdEntry'
    BY <2>2 DEF FdEntry
  <2>4. DOMAIN fds' = Proc /\ \A q \in Proc : \A f \in DOMAIN fds'[q] : fds'[q][f] \in FdEntry'
    <3>1. \A f \in DOMAIN both : both[f] \in FdEntry'
      BY <2>2 DEF End, FdEntry
    <3> HIDE DEF both
    <3>2. \A f \in DOMAIN Over(both, fds[p]) : Over(both, fds[p])[f] \in FdEntry'
      BY <2>3, <3>1 DEF Over, TypeInvariant
    <3> QED BY <2>1, <2>3, <3>2 DEF TypeInvariant
  <2> HIDE DEF both
  <2>5. TypeInvariant'
    <3>1. ends' \subseteq {"read", "write"} \X (1..made')
      BY <2>1, <2>2 DEF TypeInvariant
    <3>2. /\ owned' \in [Proc -> SUBSET (1..made')] /\ nextFd' \in [Proc -> Nat]
          /\ op' \in [Proc -> [call : {"none", "read", "write", "join"}, pipe : 0..made', child : Proc]]
      BY <2>1, <2>2 DEF TypeInvariant
    <3> QED BY <2>1, <2>2, <2>3, <2>4, <3>1, <3>2 DEF TypeInvariant
  <2>6. ASSUME NEW k PROVE LiveHolds(k)' = LiveHolds(k)
    BY <2>1, SameRefs DEF Running
  <2>7. NoHolderForgotten'
    <3> SUFFICES ASSUME NEW k \in Pipe, <<"write", k>> \in ends' PROVE holders'[k] >= LiveHolds(k)'
      BY DEF NoHolderForgotten
    <3>1. CASE <<"write", k>> \in ends
      BY <2>1, <2>6, <3>1 DEF NoHolderForgotten
    <3>2. CASE <<"write", k>> \notin ends
      <4>1. k \notin 1..made
        BY <2>1, <2>2, <3>2
      <4> QED BY <2>1, <2>6, <4>1, FreshUnreferenced DEF TypeInvariant
    <3> QED BY <3>1, <3>2
  <2> QED BY <2>1, <2>5, <2>7 DEF ClosesLast
<1>11. ASSUME NEW p \in Proc, NEW fd, FdClose(p, fd) PROVE IInv' /\ ClosesLast
  <2>1. TypeInvariant'
    <3>1. DOMAIN fds' = Proc /\ \A q \in Proc : \A f \in DOMAIN fds'[q] : fds'[q][f] \in FdEntry
      BY <1>11 DEF FdClose, TypeInvariant
    <3>2. UNCHANGED <<pipeVars, phase, given, merged, owned, nextFd, children, op>>
      BY <1>11 DEF FdClose
    <3> QED BY <3>1, <3>2 DEF TypeInvariant, FdEntry, pipeVars
  <2> QED BY <1>11, <2>1, HeldStays DEF FdClose, pipeVars
<1>12. ASSUME NEW p \in Proc, NEW fd, NEW side \in {"read", "write"}, FdCall(p, fd, side)
       PROVE  IInv' /\ ClosesLast
  <2>1. fds[p][fd] \in FdEntry
    BY <1>12 DEF FdCall, Usable, TypeInvariant
  <2>2. fds[p][fd].pipe \in 0..made
    BY <2>1 DEF FdEntry
  <2>3. op' \in [Proc -> [call : {"none", "read", "write", "join"}, pipe : 0..made, child : Proc]]
    BY <1>12, <2>2 DEF FdCall, Idle, TypeInvariant, KernelAssumption
  <2>4. TypeInvariant'
    BY <1>12, <2>3 DEF FdCall, TypeInvariant, FdEntry, pipeVars, procButOp
  <2> QED BY <1>12, <2>4, HeldStays DEF FdCall, pipeVars, procButOp
<1>13. ASSUME op' \in [Proc -> [call : {"none", "read", "write", "join"}, pipe : 0..made, child : Proc]],
              level' \in [Pipe -> 0..Capacity],
              UNCHANGED <<made, ends, holders, closed, drain, procButOp>>
       PROVE  IInv' /\ ClosesLast
  <2>1. TypeInvariant'
    BY <1>13 DEF TypeInvariant, FdEntry, procButOp
  <2> QED BY <1>13, <2>1, HeldStays DEF procButOp
<1>14. \A p \in Proc : [op EXCEPT ![p] = Idle] \in
          [Proc -> [call : {"none", "read", "write", "join"}, pipe : 0..made, child : Proc]]
  <2>1. Idle \in [call : {"none", "read", "write", "join"}, pipe : 0..made, child : Proc]
    <3>1. made \in Nat
      BY IInvMade
    <3> QED BY <3>1 DEF Idle, KernelAssumption
  <2> QED BY <2>1 DEF TypeInvariant
<1>15. ASSUME NEW p \in Proc, ReadReturns(p) PROVE IInv' /\ ClosesLast
  <2>1. level' \in [Pipe -> 0..Capacity]
    <3>1. level \in [Pipe -> 0..Capacity] /\ Capacity \in Nat
      BY DEF IInv, TypeInvariant, KernelAssumption
    <3>2. PICK n \in Remains(op[p].pipe) : level' = [level EXCEPT ![op[p].pipe] = n]
      BY <1>15 DEF ReadReturns
    <3>3. CASE op[p].pipe \in Pipe
      <4>1. level[op[p].pipe] \in 0..Capacity
        BY <3>1, <3>3
      <4>2. n \in 0..Capacity
        BY <3>1, <3>2, <4>1 DEF Remains
      <4> QED BY <3>1, <3>2, <4>2
    <3>4. CASE op[p].pipe \notin Pipe
      BY <3>1, <3>2, <3>4
    <3> QED BY <3>3, <3>4
  <2> QED BY <1>13, <1>14, <1>15, <2>1 DEF ReadReturns
<1>16. ASSUME NEW p \in Proc, WriteReturns(p) PROVE IInv' /\ ClosesLast
  <2>1. level' \in [Pipe -> 0..Capacity]
    BY <1>16, LevelTypes DEF WriteReturns, Room, TypeInvariant
  <2> QED BY <1>13, <1>14, <1>16, <2>1 DEF WriteReturns
<1>17. ASSUME NEW p \in Proc, JoinReturns(p) PROVE IInv' /\ ClosesLast
  BY <1>13, <1>14, <1>17 DEF JoinReturns, pipeVars, TypeInvariant
<1>18. ASSUME NEW p \in Proc, NEW q \in Proc, ProcJoin(p, q) PROVE IInv' /\ ClosesLast
  <2>1. op' \in [Proc -> [call : {"none", "read", "write", "join"}, pipe : 0..made, child : Proc]]
    <3>1. made \in Nat
      BY IInvMade
    <3>2. op' = [op EXCEPT ![p] = [call |-> "join", pipe |-> 0, child |-> q]]
      BY <1>18 DEF ProcJoin
    <3> QED BY <3>1, <3>2 DEF TypeInvariant
  <2>2. children' \in [Proc -> SUBSET Proc]
    BY <1>18 DEF ProcJoin, TypeInvariant
  <2>3. TypeInvariant'
    BY <1>18, <2>1, <2>2 DEF ProcJoin, TypeInvariant, FdEntry, pipeVars
  <2> QED BY <1>18, <2>3, HeldStays DEF ProcJoin, pipeVars
<1>19. ASSUME NEW p \in Proc, NEW q \in Proc, NEW fdmap \in FdMaps(p), NEW files,
              ProcSpawn(p, q, fdmap, files)
       PROVE  IInv' /\ ClosesLast
  <2> DEFINE entries == [c \in DOMAIN fdmap |-> fds[p][fdmap[c]]]
  <2>1. DOMAIN fdmap \subseteq Std /\ \A c \in DOMAIN fdmap : fdmap[c] \in DOMAIN fds[p]
    <3>1. \E D \in SUBSET Std : fdmap \in [D -> DOMAIN fds[p]]
      BY DEF FdMaps
    <3>2. PICK D \in SUBSET Std : fdmap \in [D -> DOMAIN fds[p]]
      BY <3>1
    <3> QED BY <3>2
  <2>2. \A c \in DOMAIN entries : entries[c] \in FdEntry
    BY <2>1 DEF TypeInvariant
  <2>3. DOMAIN entries \subseteq Std
    BY <2>1
  <2>4. Begin(q, entries, files) /\ op' = op /\ children' = [children EXCEPT ![p] = @ \union {q}]
    BY <1>19 DEF ProcSpawn
  <2>5. children' \in [Proc -> SUBSET Proc]
    BY <2>4 DEF TypeInvariant
  <2> HIDE DEF entries
  <2> QED BY <2>2, <2>3, <2>4, <2>5, BeginKeeps
<1>20. CASE UNCHANGED vars
  BY <1>13, <1>20 DEF vars, pipeVars, procVars, procButOp, TypeInvariant
<1>21. CASE KernelStep
  BY <1>1, <1>2, <1>4, <1>5, <1>8, <1>9, <1>15, <1>16, <1>17, <1>21 DEF KernelStep
<1>22. ASSUME NEW p \in Proc, GuestStep(p) PROVE IInv' /\ ClosesLast
  BY <1>6, <1>7, <1>10, <1>11, <1>12, <1>18, <1>19, <1>22 DEF GuestStep, FdRead, FdWrite
<1> QED BY <1>20, <1>21, <1>22 DEF Next

-----------------------------------------------------------------------------
(* The theorems.                                                             *)

\* The invariant holds in every reachable state.
LEMMA Invariance == Spec => []IInv
<1>1. Init => IInv
  BY InitIInv, KernelAssumption
<1>2. IInv /\ [Next]_vars => IInv'
  BY NextIInv, KernelAssumption
<1> QED BY <1>1, <1>2, PTL DEF Spec

\* The table of ends, the descriptor tables and the processes keep their types.
THEOREM TypesHold == Spec => []TypeInvariant
<1>1. IInv => TypeInvariant
  BY DEF IInv
<1> QED BY <1>1, Invariance, PTL

\* acquireWriteEnd and closeWriteEnd never forget a holder: a write end's count is at least
\* the number of references that running processes were started with.
THEOREM NoHolderIsForgotten == Spec => []NoHolderForgotten
<1>1. IInv => NoHolderForgotten
  BY DEF IInv
<1> QED BY <1>1, Invariance, PTL

\* A step that closes a pipe leaves no running process that was started with its write end.
THEOREM ClosedByTheLast == Spec => ClosedByLastHolder
<1>1. IInv /\ [Next]_vars => [ClosesLast]_vars
  BY NextIInv, KernelAssumption
<1>2. [ClosesLast]_vars => [\A k \in Pipe : closed'[k] /\ ~closed[k] => LiveHolds(k)' = 0]_vars
  BY DEF ClosesLast
<1> QED BY <1>1, <1>2, Invariance, PTL DEF Spec, ClosedByLastHolder

-----------------------------------------------------------------------------
(* What a result means.                                                      *)

\* What spawnWithEntries makes up to its first await: pipes nobody has seen, of which
\* each is either closed or drained.
LEMMA BeginMakesFresh ==
    ASSUME KernelAssumption, IInv, NEW q \in Proc, NEW provided, NEW files,
           Begin(q, provided, files)
    PROVE  \E fresh \in SUBSET (made + 1 .. made') :
              /\ made <= made'
              /\ ends' = ends \union ({"read", "write"} \X fresh)
              /\ owned' = [owned EXCEPT ![q] = fresh]
              /\ level' = level
              /\ \A k \in Pipe :
                    /\ closed[k] => closed'[k]
                    /\ k \in fresh => drain'[k] = "running" \/ closed'[k]
                    /\ k \notin fresh => drain'[k] = drain[k]
<1> DEFINE missing == Std \ (DOMAIN provided \union files)
           Default(f) == made + Cardinality({g \in missing : g <= f})
           fresh == {Default(f) : f \in missing}
<1>1. /\ made' = made + Cardinality(missing)
      /\ ends' = ends \union ({"read", "write"} \X fresh)
      /\ closed' = [k \in Pipe |-> closed[k] \/ (0 \in missing /\ k = Default(0))]
      /\ drain' = [k \in Pipe |-> IF \E f \in missing \ {0} : k = Default(f)
                                  THEN "running" ELSE drain[k]]
      /\ owned' = [owned EXCEPT ![q] = fresh]
      /\ level' = level
  BY DEF Begin
<1>2. missing \in SUBSET (0..2)
  BY DEF KernelAssumption
<1>3. made \in Nat
  BY IInvMade
<1> HIDE DEF missing
<1>4. IsFiniteSet(missing) /\ Cardinality(missing) \in Nat
  BY <1>2, IntervalFinite, FS_Subset, FS_CardinalityType
<1>5. \A f \in missing : Default(f) \in made + 1 .. made'
  <2>1. \A f \in missing : Cardinality({g \in missing : g <= f}) \in 1..Cardinality(missing)
    BY <1>2, Rank
  <2> QED BY <1>1, <1>3, <1>4, <2>1
<1>6. fresh \in SUBSET (made + 1 .. made') /\ \A f \in missing : Default(f) \in fresh
  <2> HIDE DEF Default
  <2> QED BY <1>5
<1>7. \A k \in fresh : \E f \in missing : k = Default(f)
  OBVIOUS
<1>8. made <= made'
  BY <1>1, <1>3, <1>4
<1> HIDE DEF Default, fresh
<1>9. ASSUME NEW k \in Pipe
      PROVE  /\ closed[k] => closed'[k]
             /\ k \in fresh => drain'[k] = "running" \/ closed'[k]
             /\ k \notin fresh => drain'[k] = drain[k]
  BY <1>1, <1>6, <1>7
<1> QED BY <1>1, <1>6, <1>8, <1>9

\* Each pipe a process captures output from is drained or has nothing to drain, and a
\* drain ends on a closed empty pipe; what has not been made is empty.
Captured ==
    /\ \A k \in Pipe : k > made => level[k] = 0
    /\ \A k \in Pipe : drain[k] = "ended" => closed[k] /\ level[k] = 0
    /\ \A p \in Proc : \A k \in owned[p] :
          /\ drain[k] = "none" => closed[k] /\ level[k] = 0
          /\ phase[p] = "done" => drain[k] # "running"

\* The pipes a process owns are pipes.
LEMMA OwnedArePipes ==
    ASSUME KernelAssumption, IInv, NEW p \in Proc
    PROVE  /\ owned[p] \subseteq Pipe /\ \A k \in owned[p] : k <= made
           /\ made \in Nat
<1>1. made \in Nat
  BY IInvMade
<1>2. made <= MaxPipes /\ owned[p] \subseteq 1..made /\ MaxPipes \in Nat
  <2>1. made \in Cardinality(HostFds)..MaxPipes
    BY DEF IInv, TypeInvariant
  <2> QED BY <2>1 DEF IInv, TypeInvariant, KernelAssumption
<1> QED BY <1>1, <1>2 DEF Pipe

\* A step that only ever closes pipes, empties them and lets drains be.
LEMMA CapturedStays ==
    ASSUME KernelAssumption, IInv, Captured,
           made <= made', made' \in Nat, UNCHANGED <<owned, drain>>,
           \A k \in Pipe : closed[k] => closed'[k],
           \A k \in Pipe : level'[k] = level[k] \/ level'[k] = 0,
           \A p \in Proc : phase'[p] = "done" => phase[p] = "done"
    PROVE  Captured'
<1> USE DEF Pipe
<1>1. made \in Nat
  BY IInvMade
<1>2. \A k \in Pipe : k > made' => k > made
  BY <1>1
<1>3. \A k \in Pipe : level[k] = 0 => level'[k] = 0
  OBVIOUS
<1>4. \A p \in Proc : owned[p] \subseteq Pipe
  BY OwnedArePipes
<1> HIDE DEF Pipe
<1>5. \A k \in Pipe : k > made' => level'[k] = 0
  BY <1>2, <1>3 DEF Captured
<1>6. \A k \in Pipe : drain'[k] = "ended" => closed'[k] /\ level'[k] = 0
  BY <1>3 DEF Captured
<1>7. ASSUME NEW p \in Proc, NEW k \in owned'[p]
      PROVE  /\ drain'[k] = "none" => closed'[k] /\ level'[k] = 0
             /\ phase'[p] = "done" => drain'[k] # "running"
  BY <1>3, <1>4, <1>7 DEF Captured
<1> QED BY <1>5, <1>6, <1>7 DEF Captured

\* A process begins: its pipes are fresh, so nobody else's result is about them.
LEMMA BeginCaptures ==
    ASSUME KernelAssumption, IInv, IInv', Captured, NEW q \in Proc, NEW provided, NEW files,
           Begin(q, provided, files)
    PROVE  Captured'
<1>1. PICK fresh \in SUBSET (made + 1 .. made') :
              /\ made <= made'
              /\ ends' = ends \union ({"read", "write"} \X fresh)
              /\ owned' = [owned EXCEPT ![q] = fresh]
              /\ level' = level
              /\ \A k \in Pipe :
                    /\ closed[k] => closed'[k]
                    /\ k \in fresh => drain'[k] = "running" \/ closed'[k]
                    /\ k \notin fresh => drain'[k] = drain[k]
  BY BeginMakesFresh
<1>2. made \in Nat /\ made' \in Nat
  <2>1. made \in Nat
    BY IInvMade
  <2>2. made' = made + Cardinality(Std \ (DOMAIN provided \union files))
    BY DEF Begin
  <2>3. Std \ (DOMAIN provided \union files) \in SUBSET (0..2)
    BY DEF KernelAssumption
  <2>4. Cardinality(Std \ (DOMAIN provided \union files)) \in Nat
    BY <2>3, IntervalFinite, FS_Subset, FS_CardinalityType
  <2> QED BY <2>1, <2>2, <2>4
<1>3. fresh \subseteq Pipe /\ \A k \in fresh : k > made
  <2>1. made' <= MaxPipes /\ MaxPipes \in Nat
    BY DEF Begin, KernelAssumption
  <2> QED BY <1>2, <2>1 DEF Pipe
<1>4. \A p \in Proc : owned[p] \subseteq Pipe /\ \A k \in owned[p] : k \notin fresh
  BY <1>2, <1>3, OwnedArePipes DEF Pipe
<1>5. \A k \in Pipe : k > made' => k > made
  BY <1>1, <1>2 DEF Pipe
<1>6. \A k \in fresh : level[k] = 0
  BY <1>3 DEF Captured
<1>7. /\ phase' = [phase EXCEPT ![q] = "opening"] /\ phase \in [Proc -> Phase]
      /\ owned \in [Proc -> SUBSET (1..made)]
  BY DEF Begin, IInv, TypeInvariant
<1>8. \A k \in Pipe : k > made' => level'[k] = 0
  BY <1>1, <1>5 DEF Captured
<1>9. \A k \in Pipe : drain'[k] = "ended" => closed'[k] /\ level'[k] = 0
  BY <1>1, <1>6 DEF Captured
<1>10. ASSUME NEW p \in Proc, NEW k \in owned'[p]
       PROVE  /\ drain'[k] = "none" => closed'[k] /\ level'[k] = 0
              /\ phase'[p] = "done" => drain'[k] # "running"
  <2>1. CASE p = q
    BY <1>1, <1>3, <1>6, <1>7, <1>10, <2>1
  <2>2. CASE p # q
    BY <1>1, <1>4, <1>7, <1>10, <2>2 DEF Captured
  <2> QED BY <2>1, <2>2
<1> QED BY <1>8, <1>9, <1>10 DEF Captured

\* Every step keeps it: one case per action that touches the pipes or the phases.
LEMMA NextCaptures ==
    KernelAssumption /\ IInv /\ IInv' /\ Captured /\ [Next]_vars => Captured'
<1> SUFFICES ASSUME KernelAssumption, IInv, IInv', Captured, [Next]_vars PROVE Captured'
  OBVIOUS
<1>1. made \in Nat /\ phase \in [Proc -> Phase]
  BY IInvMade DEF IInv, TypeInvariant
<1>2. ASSUME UNCHANGED <<made, closed, drain, owned, phase>>,
             \A k \in Pipe : level'[k] = level[k] \/ level'[k] = 0
      PROVE  Captured'
  BY <1>1, <1>2, CapturedStays
<1>3. CASE HostSpawn
  BY <1>3, BeginCaptures DEF HostSpawn, KernelAssumption
<1>4. ASSUME NEW p \in Proc, Start(p) \/ AcquireFails(p) \/ StartFails(p) PROVE Captured'
  <2>1. /\ UNCHANGED <<made, closed, level, drain, owned>>
        /\ \E ph \in {"running", "failed"} : phase' = [phase EXCEPT ![p] = ph]
    BY <1>4 DEF Start, AcquireFails, StartFails, pipeVars
  <2>2. \A q \in Proc : phase'[q] = "done" => phase[q] = "done"
    BY <1>1, <2>1
  <2> QED BY <1>1, <2>1, <2>2, CapturedStays
<1>5. ASSUME NEW p \in Proc, Exit(p) \/ Crash(p) PROVE Captured'
  <2>1. /\ UNCHANGED <<made, level, drain, owned>>
        /\ \A k \in Pipe : closed[k] => closed'[k]
        /\ \E ph \in {"draining", "failed"} : phase' = [phase EXCEPT ![p] = ph]
    BY <1>5 DEF Exit, Crash, CloseWriteEnds
  <2>2. \A q \in Proc : phase'[q] = "done" => phase[q] = "done"
    BY <1>1, <2>1
  <2> QED BY <1>1, <2>1, <2>2, CapturedStays
<1>6. ASSUME NEW p \in Proc, Finish(p) PROVE Captured'
  <2>1. /\ UNCHANGED <<made, closed, level, drain, owned>>
        /\ \A k \in owned[p] : drain[k] # "running"
        /\ \A q \in Proc \ {p} : phase'[q] = phase[q]
    BY <1>1, <1>6 DEF Finish, DrainsEnded
  <2> QED BY <2>1 DEF Captured
<1>7. ASSUME NEW k \in Pipe, Drain(k) PROVE Captured'
  <2>1. CASE level[k] > 0 /\ level' = [level EXCEPT ![k] = 0] /\ UNCHANGED drain
    BY <1>2, <1>7, <2>1 DEF Drain, procVars, IInv, TypeInvariant
  <2>2. CASE /\ level[k] = 0 /\ closed[k] /\ UNCHANGED level
             /\ drain' = [drain EXCEPT ![k] = "ended"]
    <3>1. UNCHANGED <<made, closed, level, owned, phase>>
      BY <1>7, <2>2 DEF Drain, procVars
    <3>2. drain \in [Pipe -> {"none", "running", "ended"}]
      BY DEF IInv, TypeInvariant
    <3>3. \A p \in Proc : owned[p] \subseteq Pipe
      BY OwnedArePipes
    <3> QED BY <2>2, <3>1, <3>2, <3>3 DEF Captured
  <2> QED BY <1>7, <2>1, <2>2 DEF Drain
<1>8. ASSUME NEW p \in Proc, ReadReturns(p) PROVE Captured'
  <2>1. UNCHANGED <<made, closed, drain, owned, phase>>
    BY <1>8 DEF ReadReturns, procButOp
  <2>2. ASSUME NEW k \in Pipe, level[k] = 0 PROVE level'[k] = 0
    <3>1. level \in [Pipe -> 0..Capacity]
      BY DEF IInv, TypeInvariant
    <3>2. PICK n \in Remains(op[p].pipe) : level' = [level EXCEPT ![op[p].pipe] = n]
      BY <1>8 DEF ReadReturns
    <3>3. CASE op[p].pipe = k
      <4>1. n = 0
        BY <2>2, <3>2, <3>3 DEF Remains
      <4> QED BY <3>1, <3>2, <3>3, <4>1
    <3>4. CASE op[p].pipe # k
      BY <2>2, <3>1, <3>2, <3>4
    <3> QED BY <3>3, <3>4
  <2>3. \A q \in Proc : owned[q] \subseteq Pipe
    BY OwnedArePipes
  <2> QED BY <2>1, <2>2, <2>3 DEF Captured
<1>9. ASSUME NEW p \in Proc, WriteReturns(p) PROVE Captured'
  <2>1. UNCHANGED <<made, closed, drain, owned, phase>>
    BY <1>9 DEF WriteReturns, procButOp
  <2>2. CASE UNCHANGED level
    BY <1>2, <2>1, <2>2
  <2>3. CASE ~closed[op[p].pipe] /\ level' = [level EXCEPT ![op[p].pipe] = @ + 1]
    <3>1. op[p].pipe \in 0..made
      BY DEF IInv, TypeInvariant
    <3>2. \A k \in Pipe : k # op[p].pipe => level'[k] = level[k]
      BY <2>3 DEF IInv, TypeInvariant
    <3>3. \A k \in Pipe : k > made' => level'[k] = 0
      BY <1>1, <2>1, <3>1, <3>2 DEF Captured, Pipe
    <3>4. \A q \in Proc : owned[q] \subseteq Pipe
      BY OwnedArePipes
    <3> QED BY <2>1, <2>3, <3>2, <3>3, <3>4 DEF Captured
  <2> QED BY <1>9, <2>2, <2>3 DEF WriteReturns
<1>10. ASSUME NEW p \in Proc, FdPipe(p) PROVE Captured'
  <2>1. made' = made + 1 /\ UNCHANGED <<closed, level, drain, phase, owned>>
    BY <1>10 DEF FdPipe
  <2> QED BY <1>1, <2>1, CapturedStays
<1>11. ASSUME NEW p \in Proc, NEW q \in Proc, NEW fdmap, NEW files, ProcSpawn(p, q, fdmap, files)
       PROVE  Captured'
  BY <1>11, BeginCaptures DEF ProcSpawn
<1>12. ASSUME NEW p \in Proc, GuestStep(p) PROVE Captured'
  <2>1. CASE \E fd : FdClose(p, fd) \/ FdRead(p, fd) \/ FdWrite(p, fd)
    BY <1>2, <2>1 DEF FdClose, FdRead, FdWrite, FdCall, pipeVars, procButOp
  <2>2. CASE \E q \in Proc : ProcJoin(p, q)
    BY <1>2, <2>2 DEF ProcJoin, pipeVars
  <2> QED BY <1>5, <1>10, <1>11, <1>12, <2>1, <2>2 DEF GuestStep
<1>13. CASE KernelStep
  <2>1. CASE \E p \in Proc : JoinReturns(p)
    BY <1>2, <2>1 DEF JoinReturns, pipeVars, procButOp
  <2> QED BY <1>3, <1>4, <1>6, <1>7, <1>8, <1>9, <1>13, <2>1 DEF KernelStep
<1>14. CASE UNCHANGED vars
  BY <1>2, <1>14 DEF vars, pipeVars, procVars
<1> QED BY <1>12, <1>13, <1>14 DEF Next

\* Once spawn() has resolved, no byte of the process's output can still come.
THEOREM ResultsAreComplete == Spec => []ResultIsComplete
<1>1. Init => Captured
  BY KernelAssumption DEF Init, Captured
<1>2. IInv /\ IInv' /\ Captured /\ [Next]_vars => Captured'
  BY NextCaptures, KernelAssumption
<1>3. IInv /\ Captured => ResultIsComplete
  <2> SUFFICES ASSUME IInv, Captured, NEW p \in Proc, phase[p] = "done", NEW k \in owned[p]
               PROVE  closed[k] /\ level[k] = 0 /\ drain[k] # "running"
    BY DEF ResultIsComplete
  <2>1. k \in Pipe
    BY OwnedArePipes, KernelAssumption
  <2>2. drain[k] \in {"none", "running", "ended"}
    BY <2>1 DEF IInv, TypeInvariant
  <2> QED BY <2>1, <2>2 DEF Captured
<1> QED BY <1>1, <1>2, <1>3, Invariance, PTL DEF Spec

-----------------------------------------------------------------------------
(* What a join means.                                                        *)

Released(q) == owned[q] \intersect {e[2] : e \in ends} = {}

\* A child is registered with its parent, or joined, until it has failed or its ends are
\* released; they stay so, for what is made later is made of fresh pipes.
Barrier ==
    /\ JoinIsBarrier
    /\ \A q \in Proc : phase[q] = "done" => Released(q)

\* A step that makes no ends and lets every process be registered, or done, as it was.
LEMMA BarrierStays ==
    ASSUME Barrier, ends' \subseteq ends, owned' = owned,
           \A q \in Proc :
              /\ phase'[q] = "unborn" <=> phase[q] = "unborn"
              /\ phase'[q] = "done" <=> phase[q] = "done"
              /\ phase[q] = "failed" => phase'[q] = "failed",
           \A q \in Proc \ {Root} :
              (\E p \in Proc : q \in children[p] \union Joining(p))
                 => \/ \E p \in Proc : q \in children'[p] \union Joining(p)'
                    \/ phase'[q] = "failed" \/ phase'[q] = "done"
    PROVE  Barrier'
<1>1. \A q \in Proc : Released(q) => Released(q)'
  BY DEF Released
<1> HIDE DEF Released
<1>2. \A q \in Proc : phase'[q] = "done" => Released(q)'
  BY <1>1 DEF Barrier
<1>3. ASSUME NEW q \in Proc \ {Root}, phase'[q] # "unborn"
      PROVE  \/ \E p \in Proc : q \in children'[p] \union Joining(p)'
             \/ phase'[q] = "failed"
             \/ phase'[q] = "done" /\ Released(q)'
  <2>1. \/ \E p \in Proc : q \in children[p] \union Joining(p)
        \/ phase[q] = "failed"
        \/ phase[q] = "done"
    BY <1>3 DEF Barrier, JoinIsBarrier
  <2> QED BY <1>2, <2>1
<1>4. JoinIsBarrier'
  BY <1>3 DEF JoinIsBarrier, Released
<1> QED BY <1>2, <1>4 DEF Barrier

\* What is made of fresh pipes is nobody's released end.
LEMMA ReleasedStays ==
    ASSUME KernelAssumption, IInv, NEW q \in Proc, Released(q), NEW fresh,
           \A k \in fresh : k \notin 1..made,
           ends' = ends \union ({"read", "write"} \X fresh), owned'[q] = owned[q]
    PROVE  Released(q)'
BY DEF Released, IInv, TypeInvariant

\* The calls that start or end without a join leave the joiners what they were.
LEMMA SameJoiners ==
    ASSUME IInv, NEW p \in Proc, op[p].call # "join", NEW new, new.call # "join",
           op' = [op EXCEPT ![p] = new]
    PROVE  \A q \in Proc : Joining(q)' = Joining(q)
BY DEF Joining, IInv, TypeInvariant

\* A process begins; unless it is the host's, it is registered in the same step.
LEMMA BeginKeepsBarrier ==
    ASSUME KernelAssumption, IInv, Barrier, NEW q \in Proc, NEW provided, NEW files,
           Begin(q, provided, files), op' = op,
           \A p \in Proc : children[p] \subseteq children'[p],
           q # Root => \E p \in Proc : q \in children'[p]
    PROVE  Barrier'
<1>1. PICK fresh \in SUBSET (made + 1 .. made') :
              /\ ends' = ends \union ({"read", "write"} \X fresh)
              /\ owned' = [owned EXCEPT ![q] = fresh]
  BY BeginMakesFresh
<1>2. /\ phase' = [phase EXCEPT ![q] = "opening"] /\ phase[q] = "unborn"
      /\ phase \in [Proc -> Phase] /\ owned \in [Proc -> SUBSET (1..made)]
  BY DEF Begin, IInv, TypeInvariant
<1>3. \A k \in fresh : k \notin 1..made
  <2>1. made \in Nat
    BY IInvMade
  <2> QED BY <2>1
<1>4. ASSUME NEW r \in Proc, phase'[r] = "done" PROVE Released(r)'
  <2>1. r # q /\ phase[r] = "done"
    BY <1>2, <1>4
  <2>2. Released(r) /\ owned'[r] = owned[r]
    BY <1>1, <1>2, <2>1 DEF Barrier
  <2> QED BY <1>1, <1>3, <2>2, ReleasedStays
<1>5. \A r \in Proc : Joining(r)' = Joining(r)
  BY DEF Joining
<1>6. ASSUME NEW r \in Proc \ {Root}, phase'[r] # "unborn"
      PROVE  \/ \E p \in Proc : r \in children'[p] \union Joining(p)'
             \/ phase'[r] = "failed"
             \/ phase'[r] = "done" /\ Released(r)'
  <2>1. CASE r = q
    BY <1>6, <2>1
  <2>2. CASE r # q
    <3>1. phase'[r] = phase[r]
      BY <1>2, <2>2
    <3>2. \/ \E p \in Proc : r \in children[p] \union Joining(p)
          \/ phase[r] = "failed"
          \/ phase[r] = "done"
      BY <1>6, <3>1 DEF Barrier, JoinIsBarrier
    <3> QED BY <1>4, <1>5, <3>1, <3>2
  <2> QED BY <2>1, <2>2
<1>7. JoinIsBarrier'
  BY <1>6 DEF JoinIsBarrier, Released
<1> QED BY <1>4, <1>7 DEF Barrier

\* Every step keeps the barrier.
LEMMA NextBarrier ==
    KernelAssumption /\ IInv /\ Barrier /\ [Next]_vars => Barrier'
<1> SUFFICES ASSUME KernelAssumption, IInv, Barrier, [Next]_vars PROVE Barrier'
  OBVIOUS
<1>1. phase \in [Proc -> Phase] /\ DOMAIN phase = Proc
      /\ op \in [Proc -> [call : {"none", "read", "write", "join"}, pipe : 0..made, child : Proc]]
      /\ children \in [Proc -> SUBSET Proc] /\ owned \in [Proc -> SUBSET (1..made)]
  BY DEF IInv, TypeInvariant
<1>2. ASSUME UNCHANGED <<ends, owned, phase, children>>,
             \A q \in Proc : Joining(q)' = Joining(q)
      PROVE  Barrier'
  BY <1>2, BarrierStays
<1>3. UNCHANGED op => \A q \in Proc : Joining(q)' = Joining(q)
  BY DEF Joining
<1>4. CASE HostSpawn
  BY <1>4, BeginKeepsBarrier DEF HostSpawn, KernelAssumption
<1>5. ASSUME NEW p \in Proc, NEW from \in {"opening", "running"},
             NEW to \in {"running", "draining", "failed"},
             phase[p] = from, phase' = [phase EXCEPT ![p] = to],
             UNCHANGED <<ends, owned, children, op>>
      PROVE  Barrier'
  <2>1. \A q \in Proc :
              /\ phase'[q] = "unborn" <=> phase[q] = "unborn"
              /\ phase'[q] = "done" <=> phase[q] = "done"
              /\ phase[q] = "failed" => phase'[q] = "failed"
    BY <1>1, <1>5
  <2> QED BY <1>3, <1>5, <2>1, BarrierStays
<1>6. ASSUME NEW p \in Proc, Start(p) \/ AcquireFails(p) \/ StartFails(p) \/ Exit(p) \/ Crash(p)
      PROVE  Barrier'
  BY <1>5, <1>6 DEF Start, AcquireFails, StartFails, Exit, Crash, CloseWriteEnds, pipeVars
<1>7. ASSUME NEW p \in Proc, Finish(p) PROVE Barrier'
  <2>1. /\ ends' = ends \ ({"read", "write"} \X owned[p])
        /\ phase[p] = "draining" /\ phase' = [phase EXCEPT ![p] = "done"]
        /\ UNCHANGED <<owned, children, op>>
    BY <1>7 DEF Finish
  <2>2. Released(p)'
    BY <2>1 DEF Released, IInv, TypeInvariant
  <2>3. \A q \in Proc : Released(q) => Released(q)'
    BY <2>1 DEF Released
  <2>4. \A q \in Proc : phase'[q] = "done" => Released(q)'
    BY <1>1, <2>1, <2>2, <2>3 DEF Barrier
  <2>5. ASSUME NEW q \in Proc \ {Root}, phase'[q] # "unborn"
        PROVE  \/ \E r \in Proc : q \in children'[r] \union Joining(r)'
               \/ phase'[q] = "failed"
               \/ phase'[q] = "done" /\ Released(q)'
    <3>1. phase[q] # "unborn"
      BY <1>1, <2>1, <2>5
    <3>2. \/ \E r \in Proc : q \in children[r] \union Joining(r)
          \/ phase[q] = "failed"
          \/ phase[q] = "done"
      BY <3>1 DEF Barrier, JoinIsBarrier
    <3>3. phase[q] = "failed" => phase'[q] = "failed"
      BY <1>1, <2>1
    <3>4. phase[q] = "done" => phase'[q] = "done"
      BY <1>1, <2>1
    <3> QED BY <1>3, <2>1, <2>4, <3>2, <3>3, <3>4
  <2>6. JoinIsBarrier'
    BY <2>5 DEF JoinIsBarrier, Released
  <2> QED BY <2>4, <2>6 DEF Barrier
<1>8. ASSUME NEW k, Drain(k) PROVE Barrier'
  BY <1>2, <1>3, <1>8 DEF Drain, procVars
<1>9. ASSUME NEW p \in Proc, ReadReturns(p) \/ WriteReturns(p) PROVE Barrier'
  <2>1. op[p].call # "join" /\ op' = [op EXCEPT ![p] = Idle] /\ Idle.call # "join"
    BY <1>9 DEF ReadReturns, WriteReturns, Idle
  <2>2. \A q \in Proc : Joining(q)' = Joining(q)
    BY <2>1, SameJoiners
  <2> QED BY <1>2, <1>9, <2>2 DEF ReadReturns, WriteReturns, procButOp
<1>10. ASSUME NEW p \in Proc, JoinReturns(p) PROVE Barrier'
  <2>1. /\ UNCHANGED <<ends, owned, phase, children>>
        /\ op' = [op EXCEPT ![p] = Idle] /\ phase[op[p].child] \in {"done", "failed"}
    BY <1>10 DEF JoinReturns, Settled, pipeVars, procButOp
  <2>2. \A q \in Proc : q # p => Joining(q)' = Joining(q)
    BY <1>1, <2>1 DEF Joining
  <2>3. \A q \in Joining(p) : phase'[q] \in {"done", "failed"}
    BY <2>1 DEF Joining
  <2>4. \A q \in Proc \ {Root} :
              (\E r \in Proc : q \in children[r] \union Joining(r))
                 => \/ \E r \in Proc : q \in children'[r] \union Joining(r)'
                    \/ phase'[q] = "failed" \/ phase'[q] = "done"
    BY <2>1, <2>2, <2>3
  <2> QED BY <2>1, <2>4, BarrierStays
<1>11. ASSUME NEW p \in Proc, FdPipe(p) PROVE Barrier'
  <2>1. /\ ends' = ends \union ({"read", "write"} \X {made + 1})
        /\ UNCHANGED <<owned, phase, children, op>>
    BY <1>11 DEF FdPipe
  <2>2. \A k \in {made + 1} : k \notin 1..made
    <3>1. made \in Nat
      BY IInvMade
    <3> QED BY <3>1
  <2>3. ASSUME NEW q \in Proc, Released(q) PROVE Released(q)'
    <3>1. owned[q] \subseteq 1..made /\ owned'[q] = owned[q]
      BY <2>1 DEF IInv, TypeInvariant
    <3>2. {e[2] : e \in ends'} \subseteq {e[2] : e \in ends} \union {made + 1}
      BY <2>1
    <3> QED BY <2>2, <2>3, <3>1, <3>2 DEF Released
  <2>4. \A q \in Proc : phase'[q] = "done" => Released(q)'
    BY <2>1, <2>3 DEF Barrier
  <2>5. JoinIsBarrier'
    BY <1>3, <2>1, <2>4 DEF Barrier, JoinIsBarrier, Released
  <2> QED BY <2>4, <2>5 DEF Barrier
<1>12. ASSUME NEW p \in Proc, NEW fd, FdClose(p, fd) \/ FdRead(p, fd) \/ FdWrite(p, fd) PROVE Barrier'
  <2>1. CASE FdClose(p, fd)
    BY <1>2, <1>3, <2>1 DEF FdClose, pipeVars
  <2>2. ASSUME NEW side \in {"read", "write"}, FdCall(p, fd, side) PROVE Barrier'
    <3> DEFINE new == [call |-> side, pipe |-> fds[p][fd].pipe, child |-> p]
    <3>1. op[p].call # "join" /\ op' = [op EXCEPT ![p] = new] /\ new.call # "join"
      BY <2>2 DEF FdCall, Calling, Idle
    <3> HIDE DEF new
    <3>2. \A q \in Proc : Joining(q)' = Joining(q)
      BY <3>1, SameJoiners
    <3> QED BY <1>2, <2>2, <3>2 DEF FdCall, pipeVars, procButOp
  <2> QED BY <1>12, <2>1, <2>2 DEF FdRead, FdWrite
<1>13. ASSUME NEW p \in Proc, NEW q \in Proc, ProcJoin(p, q) PROVE Barrier'
  <2>1. /\ UNCHANGED <<ends, owned, phase>>
        /\ children' = [children EXCEPT ![p] = @ \ {q}]
        /\ op[p] = Idle
        /\ op' = [op EXCEPT ![p] = [call |-> "join", pipe |-> 0, child |-> q]]
    BY <1>13 DEF ProcJoin, Calling, pipeVars
  <2>2. Joining(p) = {} /\ q \in Joining(p)'
    BY <1>1, <2>1 DEF Joining, Idle
  <2>3. \A r \in Proc : r # p => children'[r] = children[r] /\ Joining(r)' = Joining(r)
    BY <1>1, <2>1 DEF Joining
  <2>4. children'[p] = children[p] \ {q}
    BY <1>1, <2>1
  <2>5. \A c \in Proc \ {Root} :
              (\E r \in Proc : c \in children[r] \union Joining(r))
                 => \E r \in Proc : c \in children'[r] \union Joining(r)'
    BY <2>2, <2>3, <2>4
  <2> QED BY <2>1, <2>5, BarrierStays
<1>14. ASSUME NEW p \in Proc, NEW q \in Proc, NEW fdmap, NEW files, ProcSpawn(p, q, fdmap, files)
       PROVE  Barrier'
  <2>1. children' = [children EXCEPT ![p] = @ \union {q}] /\ op' = op
    BY <1>14 DEF ProcSpawn
  <2>2. /\ \A r \in Proc : children[r] \subseteq children'[r]
        /\ q \in children'[p]
    BY <1>1, <2>1
  <2> QED BY <1>14, <2>1, <2>2, BeginKeepsBarrier DEF ProcSpawn
<1>15. ASSUME NEW p \in Proc, GuestStep(p) PROVE Barrier'
  BY <1>6, <1>11, <1>12, <1>13, <1>14, <1>15 DEF GuestStep
<1>16. CASE KernelStep
  BY <1>4, <1>6, <1>7, <1>8, <1>9, <1>10, <1>16 DEF KernelStep
<1>17. CASE UNCHANGED vars
  BY <1>2, <1>3, <1>17 DEF vars, pipeVars, procVars
<1> QED BY <1>15, <1>16, <1>17 DEF Next

\* A child that nobody can join any more, and nobody waits for, has ended, and its pipes
\* are nobody's.
THEOREM JoinsAreBarriers == Spec => []JoinIsBarrier
<1>1. Init => Barrier
  BY DEF Init, Barrier, JoinIsBarrier
<1>2. IInv /\ Barrier /\ [Next]_vars => Barrier'
  BY NextBarrier, KernelAssumption
<1>3. Barrier => JoinIsBarrier
  BY DEF Barrier
<1> QED BY <1>1, <1>2, <1>3, Invariance, PTL DEF Spec
=============================================================================
