--------------------------- MODULE MemoryFsProofs ---------------------------
(* The nodes of MemoryFs stay a forest with at most one name each, for any   *)
(* names, any number of nodes and any sequence of calls, also those that     *)
(* move a directory below itself.  Where no call does, whatever a directory  *)
(* lists has a path, and the paths are changed as FileTree promises.         *)
(*                                                                           *)
(* A path leads to a node along a walk from the root; lookup finds what it   *)
(* leads to, and no node has two.                                            *)
EXTENDS MemoryFs, FiniteSetTheorems, SequenceTheorems, TLAPS

IInv == TypeInvariant /\ OneName

-----------------------------------------------------------------------------
(* What the methods do to the nodes comes down to four effects.              *)

Keeps    == kind' = kind /\ children' = children
Adds     == \E dir, fresh \in Node, name \in Name, type \in {"file", "directory"} :
                kind[dir] = "directory" /\ Makes(dir, name, fresh, type)
Removes  == \E dir \in Node, name \in Name :
                children' = [children EXCEPT ![dir] = Without(@, name)] /\ kind' = kind
Moves    == \E fromDir, toDir \in Node, fromName, toName \in Name :
                /\ Has(fromDir, fromName)
                /\ kind[toDir] = "directory"
                /\ children' = Relinked(fromDir, fromName, toDir, toName,
                                        children[fromDir][fromName])
                /\ kind' = kind

\* parentDir answers a directory, or throws.
LEMMA ParentIsDirectory ==
    ASSUME NEW path, ParentDir(path) \in Node
    PROVE  kind[ParentDir(path)] = "directory"
<1>1. ParentDir(path) # "ENOTDIR"
  BY MemoryFsAssumption DEF Errno
<1>. QED
  BY <1>1 DEF ParentDir

LEMMA LastIsAName ==
    ASSUME NEW path \in Path, path # << >>
    PROVE  Last(path) \in Name
<1>1. PICK n \in 0..MaxDepth : path \in [1..n -> Name]
  BY DEF Path
<1>2. n # 0
  <2>. SUFFICES ASSUME n = 0  PROVE FALSE
    OBVIOUS
  <2>1. path = << >>
    BY <1>1
  <2>. QED
    BY <2>1
<1>3. Len(path) = n
  BY <1>1, MemoryFsAssumption
<1>. QED
  BY <1>1, <1>2, <1>3, MemoryFsAssumption DEF Last

-----------------------------------------------------------------------------
(* Each effect preserves the invariant on the nodes.                         *)

Tree ==
    /\ kind \in [Node -> {"free", "file", "directory"}]
    /\ kind[RootDir] = "directory"
    /\ DOMAIN children = Node
    /\ \A d \in Node :
          /\ DOMAIN children[d] \subseteq Name
          /\ \A m \in DOMAIN children[d] : children[d][m] \in Node /\ kind[children[d][m]] # "free"
          /\ DOMAIN children[d] # {} => kind[d] = "directory"
    /\ OneName

LEMMA AddsKeepTree ==
    ASSUME Tree, Adds
    PROVE  Tree'
<1>1. PICK dir \in Node, fresh \in Node, name \in Name, type \in {"file", "directory"} :
        kind[dir] = "directory" /\ Makes(dir, name, fresh, type)
  BY DEF Adds
<1>. USE DEF Tree, Makes, With, OneName
<1>2. \A d \in Node : \A m \in DOMAIN children'[d] :
        \/ m \in DOMAIN children[d] /\ children'[d][m] = children[d][m]
        \/ d = dir /\ m = name /\ children'[d][m] = fresh
  BY <1>1
<1>3. kind' \in [Node -> {"free", "file", "directory"}] /\ kind'[RootDir] = "directory"
      /\ DOMAIN children' = Node
  BY <1>1
<1>4. \A d \in Node : DOMAIN children'[d] \subseteq Name
  BY <1>1, <1>2
<1>5. \A d \in Node : \A m \in DOMAIN children'[d] :
        children'[d][m] \in Node /\ kind'[children'[d][m]] # "free"
  BY <1>1, <1>2
<1>6. \A d \in Node : DOMAIN children'[d] # {} => kind'[d] = "directory"
  BY <1>1, <1>2
<1>7. OneName'
  BY <1>1, <1>2
<1>. QED
  BY <1>3, <1>4, <1>5, <1>6, <1>7

LEMMA RemovesKeepTree ==
    ASSUME Tree, Removes
    PROVE  Tree'
<1>1. PICK dir \in Node, name \in Name :
        children' = [children EXCEPT ![dir] = Without(@, name)] /\ kind' = kind
  BY DEF Removes
<1>. USE DEF Tree, Without, OneName
<1>2. DOMAIN children' = Node
      /\ \A d \in Node : \A m \in DOMAIN children'[d] :
            m \in DOMAIN children[d] /\ children'[d][m] = children[d][m]
  BY <1>1
<1>. QED
  BY <1>1, <1>2

\* The entry that is deleted and the one that is set are of the same node, so it has one
\* name before and one after.
LEMMA MovesKeepTree ==
    ASSUME Tree, Moves
    PROVE  Tree'
<1>1. PICK fromDir \in Node, toDir \in Node, fromName \in Name, toName \in Name :
        /\ Has(fromDir, fromName)
        /\ kind[toDir] = "directory"
        /\ children' = Relinked(fromDir, fromName, toDir, toName, children[fromDir][fromName])
        /\ kind' = kind
  BY DEF Moves
<1>. DEFINE node == children[fromDir][fromName]
            deleted == [children EXCEPT ![fromDir] = Without(@, fromName)]
<1>2. node \in Node /\ kind[node] # "free"
  BY <1>1 DEF Tree, Has
<1>3. DOMAIN deleted = Node
      /\ \A d \in Node : \A m \in DOMAIN deleted[d] :
            /\ m \in DOMAIN children[d] /\ deleted[d][m] = children[d][m]
            /\ ~(d = fromDir /\ m = fromName)
  BY DEF Tree, Without
<1>4. children' = [deleted EXCEPT ![toDir] = With(@, toName, node)]
  BY <1>1 DEF Relinked
<1>5. DOMAIN children' = Node
      /\ \A d \in Node : \A m \in DOMAIN children'[d] :
            \/ /\ m \in DOMAIN children[d] /\ children'[d][m] = children[d][m]
               /\ ~(d = fromDir /\ m = fromName)
            \/ d = toDir /\ m = toName /\ children'[d][m] = node
  <2>. HIDE DEF node, deleted
  <2>. QED
    BY <1>3, <1>4 DEF With
<1>6. \A d \in Node : \A m \in DOMAIN children[d] :
        children[d][m] = node => d = fromDir /\ m = fromName
  BY <1>1 DEF Tree, OneName, Has
<1>. HIDE DEF node
<1>7. OneName'
  <2>. SUFFICES ASSUME NEW d \in Node, NEW e \in Node,
                       NEW m \in DOMAIN children'[d], NEW n \in DOMAIN children'[e]
                PROVE  /\ children'[d][m] # RootDir
                       /\ children'[d][m] = children'[e][n] => d = e /\ m = n
    BY DEF OneName
  <2>1. children'[d][m] # RootDir
    <3>1. node # RootDir
      BY <1>1 DEF Tree, OneName, Has, node
    <3>. QED
      BY <1>5, <3>1 DEF Tree, OneName
  <2>2. ASSUME children'[d][m] = children'[e][n]  PROVE d = e /\ m = n
    BY <1>5, <1>6, <2>2 DEF Tree, OneName
  <2>. QED
    BY <2>1, <2>2
<1>8. \A d \in Node :
        /\ DOMAIN children'[d] \subseteq Name
        /\ \A m \in DOMAIN children'[d] : children'[d][m] \in Node /\ kind'[children'[d][m]] # "free"
        /\ DOMAIN children'[d] # {} => kind'[d] = "directory"
  BY <1>1, <1>2, <1>5 DEF Tree
<1>. QED
  BY <1>1, <1>5, <1>7, <1>8 DEF Tree

-----------------------------------------------------------------------------
(* Every call has one of the effects, and keeps the types of the rest.       *)

Effect == Keeps \/ Adds \/ Removes \/ Moves
Rest   == bytes \in [Node -> Seq(Byte)] /\ answer \in Errno \union {"ok"}

LEMMA ThrowsKeeps ==
    ASSUME Rest, NEW errno \in Errno, Throws(errno)
    PROVE  Effect /\ Rest'
BY DEF Rest, Throws, Effect, Keeps

LEMMA OpenHasEffect ==
    ASSUME IInv, NEW path \in Path, NEW create, NEW exclusive, NEW truncate, NEW write,
           Open(path, create, exclusive, truncate, write)
    PROVE  Effect /\ Rest'
<1>. DEFINE dir == ParentDir(path)
            name == Last(path)
            node == children[dir][name]
<1>1. Rest
  BY DEF IInv, TypeInvariant, Rest
<1>2. \/ \E errno \in Errno : Throws(errno)
      \/ /\ path # << >> /\ dir \in Node /\ ~Has(dir, name)
         /\ \E fresh \in Node : Makes(dir, name, fresh, "file")
         /\ answer' = "ok" /\ UNCHANGED bytes
      \/ /\ path # << >> /\ dir \in Node /\ Has(dir, name)
         /\ bytes' = [bytes EXCEPT ![node] = IF truncate /\ write THEN << >> ELSE @]
         /\ answer' = "ok" /\ UNCHANGED <<kind, children>>
  BY DEF Open, OnEntry, Errno
<1>3. CASE \E errno \in Errno : Throws(errno)
  BY <1>1, <1>3, ThrowsKeeps
<1>4. CASE /\ path # << >> /\ dir \in Node /\ ~Has(dir, name)
           /\ \E fresh \in Node : Makes(dir, name, fresh, "file")
           /\ answer' = "ok" /\ UNCHANGED bytes
  <2>1. kind[dir] = "directory" /\ name \in Name
    BY <1>4, ParentIsDirectory, LastIsAName
  <2>. QED
    BY <1>1, <1>4, <2>1 DEF Effect, Adds, Rest
<1>5. CASE /\ path # << >> /\ dir \in Node /\ Has(dir, name)
           /\ bytes' = [bytes EXCEPT ![node] = IF truncate /\ write THEN << >> ELSE @]
           /\ answer' = "ok" /\ UNCHANGED <<kind, children>>
  <2>1. (IF truncate /\ write THEN << >> ELSE bytes[node]) \in Seq(Byte) \/ node \notin Node
    BY <1>1 DEF Rest
  <2>. QED
    BY <1>1, <1>5, <2>1 DEF Effect, Keeps, Rest
<1>. QED
  BY <1>2, <1>3, <1>4, <1>5

LEMMA MkdirHasEffect ==
    ASSUME IInv, NEW path \in Path, Mkdir(path)
    PROVE  Effect /\ Rest'
<1>. DEFINE dir == ParentDir(path)
            name == Last(path)
<1>1. Rest
  BY DEF IInv, TypeInvariant, Rest
<1>2. \/ \E errno \in Errno : Throws(errno)
      \/ /\ path # << >> /\ dir \in Node
         /\ \E fresh \in Node : Makes(dir, name, fresh, "directory")
         /\ answer' = "ok" /\ UNCHANGED bytes
  BY DEF Mkdir, OnEntry, Errno
<1>3. CASE \E errno \in Errno : Throws(errno)
  BY <1>1, <1>3, ThrowsKeeps
<1>4. CASE /\ path # << >> /\ dir \in Node
           /\ \E fresh \in Node : Makes(dir, name, fresh, "directory")
           /\ answer' = "ok" /\ UNCHANGED bytes
  <2>1. kind[dir] = "directory" /\ name \in Name
    BY <1>4, ParentIsDirectory, LastIsAName
  <2>. QED
    BY <1>1, <1>4, <2>1 DEF Effect, Adds, Rest
<1>. QED
  BY <1>2, <1>3, <1>4

LEMMA DeletesHasEffect ==
    ASSUME IInv, NEW path \in Path, path # << >>, ParentDir(path) \in Node,
           Deletes(ParentDir(path), Last(path))
    PROVE  Effect /\ Rest'
BY LastIsAName DEF Deletes, Effect, Removes, Rest, IInv, TypeInvariant

LEMMA RmdirHasEffect ==
    ASSUME IInv, NEW path \in Path, Rmdir(path)
    PROVE  Effect /\ Rest'
<1>1. \/ \E errno \in Errno : Throws(errno)
      \/ path # << >> /\ ParentDir(path) \in Node /\ Deletes(ParentDir(path), Last(path))
  BY DEF Rmdir, OnEntry, Errno
<1>. QED
  BY <1>1, ThrowsKeeps, DeletesHasEffect DEF IInv, TypeInvariant, Rest

LEMMA UnlinkHasEffect ==
    ASSUME IInv, NEW path \in Path, Unlink(path)
    PROVE  Effect /\ Rest'
<1>1. \/ \E errno \in Errno : Throws(errno)
      \/ path # << >> /\ ParentDir(path) \in Node /\ Deletes(ParentDir(path), Last(path))
  BY DEF Unlink, OnEntry, Errno
<1>. QED
  BY <1>1, ThrowsKeeps, DeletesHasEffect DEF IInv, TypeInvariant, Rest

LEMMA RenameHasEffect ==
    ASSUME IInv, NEW from \in Path, NEW to \in Path, Rename(from, to)
    PROVE  Effect /\ Rest'
<1>. DEFINE fromDir == ParentDir(from)
            toDir   == ParentDir(to)
            node    == children[fromDir][Last(from)]
<1>1. Rest
  BY DEF IInv, TypeInvariant, Rest
<1>2. \/ \E errno \in Errno : Throws(errno)
      \/ /\ from # << >> /\ fromDir \in Node /\ Has(fromDir, Last(from))
         /\ to # << >> /\ toDir \in Node
         /\ children' = Relinked(fromDir, Last(from), toDir, Last(to), node)
         /\ answer' = "ok" /\ UNCHANGED <<kind, bytes>>
  BY DEF Rename, OnEntry, Errno
<1>3. CASE \E errno \in Errno : Throws(errno)
  BY <1>1, <1>3, ThrowsKeeps
<1>4. CASE /\ from # << >> /\ fromDir \in Node /\ Has(fromDir, Last(from))
           /\ to # << >> /\ toDir \in Node
           /\ children' = Relinked(fromDir, Last(from), toDir, Last(to), node)
           /\ answer' = "ok" /\ UNCHANGED <<kind, bytes>>
  <2>1. kind[toDir] = "directory" /\ Last(from) \in Name /\ Last(to) \in Name
    BY <1>4, ParentIsDirectory, LastIsAName
  <2>2. Moves
    BY <1>4, <2>1 DEF Moves
  <2>. QED
    BY <1>1, <1>4, <2>2 DEF Effect, Rest
<1>. QED
  BY <1>2, <1>3, <1>4

\* What is written and what is left after a cut are sequences of bytes again.
LEMMA WrittenType ==
    ASSUME NEW s \in Seq(Byte), NEW buf \in Seq(Byte), NEW at \in Nat
    PROVE  Written(s, buf, at) \in Seq(Byte)
<1>. DEFINE n == Larger(Len(s), at + Len(buf))
<1>1. n \in Nat
  BY DEF Larger
<1>2. Grown(s, at + Len(buf)) \in [1..n -> Byte]
  <2>1. \A i \in 1..n : i <= Len(s) => s[i] \in Byte
    OBVIOUS
  <2>. QED
    BY <2>1, MemoryFsAssumption DEF Grown
<1>3. \A i \in 1..n : i \in at + 1..at + Len(buf) => buf[i - at] \in Byte
  <2>. SUFFICES ASSUME NEW i \in at + 1..at + Len(buf)  PROVE buf[i - at] \in Byte
    OBVIOUS
  <2>1. i - at \in 1..Len(buf)
    OBVIOUS
  <2>. QED
    BY <2>1
<1>. HIDE DEF n
<1>4. Written(s, buf, at) \in [1..n -> Byte]
  BY <1>2, <1>3 DEF Written
<1>. QED
  BY <1>1, <1>4

LEMMA WriteHasEffect ==
    ASSUME IInv, NEW h \in Handles, NEW buf \in Buffers, NEW at \in 0..MaxSize,
           Write(h, buf, at)
    PROVE  Effect /\ Rest'
<1>1. Rest
  BY DEF IInv, TypeInvariant, Rest
<1>2. CASE Throws("EINVAL")
  BY <1>1, <1>2, ThrowsKeeps DEF Errno
<1>3. CASE /\ bytes' = [bytes EXCEPT ![h.node] = Written(@, buf, at)]
           /\ answer' = "ok" /\ UNCHANGED <<kind, children>>
  <2>1. h.node \in Node
    BY DEF Handles
  <2>2. buf \in Seq(Byte)
    BY MemoryFsAssumption DEF Buffers
  <2>3. bytes[h.node] \in Seq(Byte)
    BY <1>1, <2>1 DEF Rest
  <2>4. at \in Nat
    BY MemoryFsAssumption
  <2>5. Written(bytes[h.node], buf, at) \in Seq(Byte)
    BY <2>2, <2>3, <2>4, WrittenType
  <2>. QED
    BY <1>1, <1>3, <2>5 DEF Effect, Keeps, Rest
<1>. QED
  BY <1>2, <1>3 DEF Write

LEMMA TruncateHasEffect ==
    ASSUME IInv, NEW h \in Handles, NEW size \in 0..MaxSize, Truncate(h, size)
    PROVE  Effect /\ Rest'
<1>1. Rest
  BY DEF IInv, TypeInvariant, Rest
<1>2. h.node \in Node
  BY DEF Handles
<1>. DEFINE s == bytes[h.node]
            cut == [i \in 1..size |-> IF i <= Len(s) THEN s[i] ELSE 0]
<1>3. s \in Seq(Byte)
  BY <1>1, <1>2 DEF Rest
<1>4. cut \in Seq(Byte)
  <2>1. \A i \in 1..size : i <= Len(s) => s[i] \in Byte
    BY <1>3, MemoryFsAssumption
  <2>2. cut \in [1..size -> Byte]
    BY <2>1, MemoryFsAssumption
  <2>. QED
    BY <2>2, MemoryFsAssumption
<1>5. bytes' = [bytes EXCEPT ![h.node] = cut] /\ answer' = "ok" /\ UNCHANGED <<kind, children>>
  BY DEF Truncate
<1>. HIDE DEF cut
<1>. QED
  BY <1>1, <1>4, <1>5 DEF Effect, Keeps, Rest

-----------------------------------------------------------------------------
LEMMA InitIInv == Init => IInv
<1>. SUFFICES ASSUME Init  PROVE IInv
  OBVIOUS
<1>1. TypeInvariant
  BY MemoryFsAssumption DEF Init, TypeInvariant, NoNames, Method
<1>2. OneName
  BY MemoryFsAssumption DEF Init, OneName, NoNames
<1>. QED
  BY <1>1, <1>2 DEF IInv

LEMMA EffectKeepsIInv ==
    ASSUME IInv, Effect, Rest', call' \in Method \X (0..MaxSize)
    PROVE  IInv'
<1>1. Tree
  BY DEF IInv, TypeInvariant, Tree
<1>2. Tree'
  BY <1>1, AddsKeepTree, RemovesKeepTree, MovesKeepTree DEF Effect, Keeps, Tree, OneName
<1>. QED
  BY <1>2 DEF Tree, Rest, IInv, TypeInvariant

LEMMA NextIInv == IInv /\ [Next]_vars => IInv'
<1>. SUFFICES ASSUME IInv, [Next]_vars  PROVE IInv'
  OBVIOUS
<1>. USE EffectKeepsIInv, MemoryFsAssumption DEF Calls, Method
<1>1. CASE Calls("open", 0) /\ \E p \in Path : \E c, x, t, w \in BOOLEAN : Open(p, c, x, t, w)
  BY <1>1, OpenHasEffect
<1>2. CASE Calls("mkdir", 0) /\ \E p \in Path : Mkdir(p)
  BY <1>2, MkdirHasEffect
<1>3. CASE Calls("rmdir", 0) /\ \E p \in Path : Rmdir(p)
  BY <1>3, RmdirHasEffect
<1>4. CASE Calls("unlink", 0) /\ \E p \in Path : Unlink(p)
  BY <1>4, UnlinkHasEffect
<1>5. CASE Calls("rename", 0) /\ \E p, q \in Path : Rename(p, q)
  BY <1>5, RenameHasEffect
<1>6. CASE \E at \in 0..MaxSize :
              Calls("write", at) /\ \E h \in Handles, buf \in Buffers : Write(h, buf, at)
  BY <1>6, WriteHasEffect
<1>7. CASE Calls("truncate", 0) /\ \E h \in Handles, n \in 0..MaxSize : Truncate(h, n)
  BY <1>7, TruncateHasEffect
<1>8. CASE Calls("read", 0) /\ \E h \in Handles : ReadRefused(h)
  <2>1. Effect /\ Rest'
    BY <1>8, ThrowsKeeps DEF ReadRefused, IInv, TypeInvariant, Rest, Errno
  <2>. QED
    BY <1>8, <2>1
<1>9. CASE UNCHANGED vars
  BY <1>9 DEF vars, IInv, TypeInvariant, OneName
<1>. QED
  BY <1>1, <1>2, <1>3, <1>4, <1>5, <1>6, <1>7, <1>8, <1>9 DEF Next

\* The types of the nodes, for every tree: entries lead to nodes that were made, and only
\* directories have entries, whatever MemoryFs is asked.
THEOREM TypesHold == Spec => []TypeInvariant
<1>1. IInv => TypeInvariant
  BY DEF IInv
<1>. QED
  BY <1>1, InitIInv, NextIInv, PTL DEF Spec

\* No node ever has two names and the root has none, whatever is renamed over whatever
\* (MemoryFs.rename): a directory entry is the only way to its node.
THEOREM NothingHasTwoNames == Spec => []OneName
<1>1. IInv => OneName
  BY DEF IInv
<1>. QED
  BY <1>1, InitIInv, NextIInv, PTL DEF Spec

-----------------------------------------------------------------------------
(* Induction on the numbers, for a set of them, and what recursion makes.    *)

\* Induction: a set that has 0 and with each number the next has them all.  If not, the
\* numbers outside of it up to some n, each less one, would all be among the same but n.
LEMMA NatSetInduction ==
  ASSUME NEW S, 0 \in S, \A n \in Nat : n \in S => n+1 \in S
  PROVE \A n \in Nat : n \in S
<1> SUFFICES ASSUME NEW n \in Nat, n \notin S PROVE FALSE
  OBVIOUS
<1> DEFINE U == {m \in 0..n : m \notin S}
           V == U \ {n}
           f == [m \in U |-> m - 1]
<1>1. IsFiniteSet(U)
  <2>1. IsFiniteSet(0..n)  BY FS_Interval
  <2>2. U \in SUBSET (0..n)  OBVIOUS
  <2>3. QED  BY <2>1, <2>2, FS_Subset
<1>2. f \in Injection(U, V)
  <2>1. \A m \in U : m - 1 \in V
    <3> TAKE m \in U
    <3>1. m # 0 /\ m - 1 \in Nat /\ (m - 1) + 1 = m  OBVIOUS
    <3>2. m - 1 \notin S  BY <3>1
    <3>3. QED BY <3>1, <3>2
  <2>2. f \in [U -> V]  BY <2>1
  <2>3. \A a, b \in U : f[a] = f[b] => a = b  OBVIOUS
  <2>4. QED  BY <2>2, <2>3, Zenon DEF Injection, IsInjective
<1>3. n \in U  OBVIOUS
<1>4. V \in SUBSET U /\ V # U  BY <1>3
<1>5. IsFiniteSet(V) /\ Cardinality(V) <= Cardinality(U) /\ Cardinality(V) # Cardinality(U)
  BY <1>1, <1>4, FS_Subset
<1>6. Cardinality(U) <= Cardinality(V)
  BY <1>2, <1>5, FS_Injection
<1>7. Cardinality(U) \in Nat /\ Cardinality(V) \in Nat
  BY <1>1, <1>5, FS_CardinalityType
<1>8. QED BY <1>5, <1>6, <1>7

\* A path that is not empty is its directory's path and a name.
LEMMA FrontAndLast ==
    ASSUME NEW S, NEW s \in Seq(S), s # << >>
    PROVE  /\ Front(s) \in Seq(S)
           /\ Len(Front(s)) = Len(s) - 1
           /\ \A i \in 1..Len(s) - 1 : Front(s)[i] = s[i]
           /\ Last(s) \in S /\ Last(s) = s[Len(s)]
           /\ s = Append(Front(s), Last(s))
<1>1. Len(s) \in Nat \ {0} /\ \A i \in 1..Len(s) : s[i] \in S
  BY EmptySeq, ElementOfSeq
<1>2. /\ Front(s) \in Seq(S)
      /\ Len(Front(s)) = Len(s) - 1
      /\ \A i \in 1..Len(s) - 1 : Front(s)[i] = s[i]
  <2>1. PICK n \in Nat : n = Len(s) - 1
    BY <1>1
  <2>2. \A i \in 1..n : s[i] \in S
    BY <1>1, <2>1
  <2>3. /\ SubSeq(s, 1, n) \in Seq(S)
        /\ Len(SubSeq(s, 1, n)) = IF 1 <= n THEN n - 1 + 1 ELSE 0
        /\ \A i \in 1..n - 1 + 1 : SubSeq(s, 1, n)[i] = s[1 + i - 1]
    BY <2>2, SubSeqProperties
  <2>4. Front(s) = SubSeq(s, 1, n)
    BY <2>1 DEF Front
  <2>5. /\ Front(s) \in Seq(S)
        /\ Len(Front(s)) = n
        /\ \A i \in 1..n : Front(s)[i] = s[i]
    BY <2>3, <2>4
  <2>. QED
    BY <2>1, <2>5
<1>3. Last(s) \in S /\ Last(s) = s[Len(s)]
  BY <1>1 DEF Last
<1>4. s = Append(Front(s), Last(s))
  <2>1. /\ Append(Front(s), Last(s)) \in Seq(S)
        /\ Len(Append(Front(s), Last(s))) = Len(Front(s)) + 1
        /\ \A i \in 1..Len(Front(s)) : Append(Front(s), Last(s))[i] = Front(s)[i]
        /\ Append(Front(s), Last(s))[Len(Front(s)) + 1] = Last(s)
    BY <1>2, <1>3, AppendProperties
  <2>2. Len(s) = Len(Append(Front(s), Last(s)))
    BY <1>1, <1>2, <2>1
  <2>3. \A i \in 1..Len(s) : s[i] = Append(Front(s), Last(s))[i]
    BY <1>1, <1>2, <1>3, <2>1
  <2>. QED
    BY <2>1, <2>2, <2>3, SeqEqual
<1>. QED
  BY <1>2, <1>3, <1>4

\* One path begins with another when it begins with its names.
LEMMA PrefixNames ==
    ASSUME NEW S, NEW s \in Seq(S), NEW t \in Seq(S)
    PROVE  IsPrefix(s, t) <=> Len(s) <= Len(t) /\ \A i \in 1..Len(s) : s[i] = t[i]
<1>1. Len(s) \in Nat /\ Len(t) \in Nat /\ SubSeq(s, 1, Len(s)) = s
  BY LenProperties, SubSeqFull
<1>. SUFFICES ASSUME Len(s) <= Len(t)
              PROVE  s = SubSeq(t, 1, Len(s)) <=> \A i \in 1..Len(s) : s[i] = t[i]
  BY <1>1 DEF IsPrefix
<1>2. \A i \in 1..Len(s) : t[i] \in S
  BY <1>1, ElementOfSeq
<1>3. /\ SubSeq(t, 1, Len(s)) \in Seq(S)
      /\ Len(SubSeq(t, 1, Len(s))) = IF 1 <= Len(s) THEN Len(s) - 1 + 1 ELSE 0
      /\ \A i \in 1..Len(s) - 1 + 1 : SubSeq(t, 1, Len(s))[i] = t[1 + i - 1]
  <2>1. 1 \in Int /\ Len(s) \in Int
    BY <1>1
  <2>. QED
    BY <1>2, <2>1, SubSeqProperties
<1>4. Len(SubSeq(t, 1, Len(s))) = Len(s) /\ \A i \in 1..Len(s) : SubSeq(t, 1, Len(s))[i] = t[i]
  BY <1>1, <1>3
<1>. QED
  BY <1>3, <1>4, SeqEqual

\* A function defined by recursion on its argument exists.
Turns(X) == [Nat -> [X -> X]]
Iterates(X, a, G, n) ==
    \E g \in [0..n -> X] : g[0] = a /\ \A i \in 1..n : g[i] = G[i][g[i - 1]]

\* A function that is defined by what it was one step before is there.
LEMMA Recursion ==
    ASSUME NEW X, NEW a \in X, NEW G \in Turns(X), NEW n \in Nat
    PROVE  Iterates(X, a, G, n)
<1>. USE DEF Turns, Iterates
<1>. DEFINE S == {k \in Nat : \E g \in [0..k -> X] :
                    g[0] = a /\ \A i \in 1..k : g[i] = G[i][g[i - 1]]}
<1>1. 0 \in S
  <2>. DEFINE g == [i \in 0..0 |-> a]
  <2>1. g \in [0..0 -> X] /\ g[0] = a /\ \A i \in 1..0 : g[i] = G[i][g[i - 1]]
    OBVIOUS
  <2>. QED
    BY <2>1
<1>2. ASSUME NEW k \in Nat, k \in S  PROVE k + 1 \in S
  <2>1. PICK g \in [0..k -> X] : g[0] = a /\ \A i \in 1..k : g[i] = G[i][g[i - 1]]
    BY <1>2
  <2>. DEFINE h == [i \in 0..k + 1 |-> IF i = k + 1 THEN G[k + 1][g[k]] ELSE g[i]]
  <2>2. G[k + 1][g[k]] \in X
    <3>1. g[k] \in X /\ k + 1 \in Nat
      BY <2>1
    <3>2. G[k + 1] \in [X -> X]
      BY <3>1
    <3>. QED
      BY <3>1, <3>2
  <2>3. h \in [0..k + 1 -> X]
    BY <2>1, <2>2
  <2>4. h[0] = a
    BY <2>1
  <2>5. \A i \in 1..k + 1 : h[i] = G[i][h[i - 1]]
    <3>. SUFFICES ASSUME NEW i \in 1..k + 1  PROVE h[i] = G[i][h[i - 1]]
      OBVIOUS
    <3>1. h[i - 1] = g[i - 1]
      OBVIOUS
    <3>2. CASE i = k + 1
      BY <3>1, <3>2
    <3>3. CASE i \in 1..k
      BY <3>1, <3>3, <2>1
    <3>. QED
      BY <3>2, <3>3
  <2>. HIDE DEF h
  <2>. QED
    BY <2>3, <2>4, <2>5
<1>. HIDE DEF S
<1>3. n \in S
  BY <1>1, <1>2, NatSetInduction
<1>. QED
  BY <1>3 DEF S

\* lookup's loop, turn by turn.
LEMMA LookupTurns ==
    ASSUME Tree, NEW path \in Seq(Name)
    PROVE  \E at \in [0..Len(path) -> Node \union Errno] :
              /\ at[0] = RootDir
              /\ \A i \in 1..Len(path) : at[i] = Descend(at[i - 1], path[i])
              /\ Lookup(path) = at[Len(path)]
<1>. DEFINE X == Node \union Errno
            n == Len(path)
            G == [i \in Nat |-> [x \in X |-> IF i \in 1..n THEN Descend(x, path[i]) ELSE x]]
            at[i \in 0..n] == IF i = 0 THEN RootDir ELSE Descend(at[i - 1], path[i])
<1>1. n \in Nat
  OBVIOUS
<1>2. ASSUME NEW x \in X, NEW name  PROVE Descend(x, name) \in X
  BY DEF Descend, Tree, Errno
<1>3. G \in [Nat -> [X -> X]]
  BY <1>2
<1>4. RootDir \in X
  BY MemoryFsAssumption
<1>5. PICK g \in [0..n -> X] : g[0] = RootDir /\ \A i \in 1..n : g[i] = G[i][g[i - 1]]
  <2>. HIDE DEF X, n, G
  <2>. QED
    <3>1. G \in Turns(X)
      BY <1>3 DEF Turns
    <3>2. Iterates(X, RootDir, G, n)
      BY <1>1, <1>4, <3>1, Recursion
    <3>. QED
      BY <3>2 DEF Iterates
<1>6. \A i \in 1..n : g[i] = Descend(g[i - 1], path[i])
  <2>. SUFFICES ASSUME NEW i \in 1..n  PROVE g[i] = Descend(g[i - 1], path[i])
    OBVIOUS
  <2>. HIDE DEF X
  <2>1. g[i - 1] \in X
    BY <1>5
  <2>2. G[i] = [x \in X |-> IF i \in 1..n THEN Descend(x, path[i]) ELSE x]
    OBVIOUS
  <2>3. G[i][g[i - 1]] = Descend(g[i - 1], path[i])
    BY <2>1, <2>2
  <2>. QED
    BY <1>5, <2>3
<1>7. g = [i \in 0..n |-> IF i = 0 THEN RootDir ELSE Descend(g[i - 1], path[i])]
  <2>1. \A i \in 0..n : g[i] = IF i = 0 THEN RootDir ELSE Descend(g[i - 1], path[i])
    BY <1>5, <1>6
  <2>. HIDE DEF X, n
  <2>. QED
    BY <1>5, <2>1
<1>8. at = [i \in 0..n |-> IF i = 0 THEN RootDir ELSE Descend(at[i - 1], path[i])]
  <2>. HIDE DEF X, n
  <2>. DEFINE R(f) == [i \in 0..n |-> IF i = 0 THEN RootDir ELSE Descend(f[i - 1], path[i])]
  <2>1. \E f : f = R(f)
    BY <1>7
  <2>2. at = CHOOSE f : f = R(f)
    BY DEF at
  <2>. HIDE DEF at, R
  <2>3. at = R(at)
    BY <2>1, <2>2
  <2>. QED
    BY <2>3 DEF R
<1>9. Lookup(path) = at[n]
  BY DEF Lookup
<1>. HIDE DEF at
<1>10. at[0] = RootDir /\ \A i \in 1..n : at[i] = Descend(at[i - 1], path[i])
  BY <1>8
<1>11. \A i \in 0..n : at[i] \in X
  <2>. DEFINE S == {i \in Nat : i <= n => at[i] \in X}
  <2>. HIDE DEF X
  <2>1. 0 \in S
    BY <1>4, <1>10
  <2>2. ASSUME NEW i \in Nat, i \in S  PROVE i + 1 \in S
    BY <1>2, <1>10, <2>2
  <2>. HIDE DEF S
  <2>3. \A i \in Nat : i \in S
    BY <2>1, <2>2, NatSetInduction
  <2>. QED
    BY <2>3 DEF S
<1>12. at \in [0..n -> X]
  BY <1>8, <1>11
<1>. QED
  BY <1>9, <1>10, <1>12

-----------------------------------------------------------------------------
(* Paths through the tree.                                                   *)

IsWalk(p, w) ==
    /\ w[0] = RootDir
    /\ \A i \in 1..Len(p) : Has(w[i - 1], p[i]) /\ w[i] = children[w[i - 1]][p[i]]
Leads(p, n) == \E w \in [0..Len(p) -> Node] : IsWalk(p, w) /\ w[Len(p)] = n

\* What lookup answers, if it is a node, is at the end of the path.
LEMMA LookupLeads ==
    ASSUME Tree, NEW path \in Seq(Name), Lookup(path) \in Node
    PROVE  Leads(path, Lookup(path))
<1>. DEFINE n == Len(path)
<1>1. PICK at \in [0..n -> Node \union Errno] :
         /\ at[0] = RootDir
         /\ \A i \in 1..n : at[i] = Descend(at[i - 1], path[i])
         /\ Lookup(path) = at[n]
  BY LookupTurns
<1>. HIDE DEF n
<1>2. n \in Nat
  BY DEF n
<1>3. \A k \in 0..n : at[n - k] \in Node
  <2>. DEFINE S == {k \in Nat : k <= n => at[n - k] \in Node}
  <2>1. 0 \in S
    BY <1>1, <1>2
  <2>2. ASSUME NEW k \in Nat, k \in S  PROVE k + 1 \in S
    <3>. SUFFICES ASSUME k + 1 <= n  PROVE at[n - (k + 1)] \in Node
      OBVIOUS
    <3>1. n - k \in 1..n /\ (n - k) - 1 = n - (k + 1) /\ at[n - k] \in Node
      BY <1>2, <2>2
    <3>2. at[n - k] = Descend(at[n - (k + 1)], path[n - k])
      BY <1>1, <3>1
    <3>3. at[n - (k + 1)] \in Node \union Errno
      BY <1>1, <1>2, <3>1
    <3>. QED
      BY <3>1, <3>2, <3>3, MemoryFsAssumption DEF Descend
  <2>. HIDE DEF S
  <2>3. \A k \in Nat : k \in S
    BY <2>1, <2>2, NatSetInduction
  <2>. QED
    BY <1>2, <2>3 DEF S
<1>4. \A i \in 0..n : at[i] \in Node
  <2>. SUFFICES ASSUME NEW i \in 0..n  PROVE at[i] \in Node
    OBVIOUS
  <2>1. n - i \in 0..n /\ n - (n - i) = i
    BY <1>2
  <2>. QED
    BY <1>3, <2>1
<1>5. at \in [0..n -> Node]
  BY <1>1, <1>4
<1>6. ASSUME NEW i \in 1..n  PROVE Has(at[i - 1], path[i]) /\ at[i] = children[at[i - 1]][path[i]]
  <2>1. at[i] \in Node /\ at[i - 1] \in Node /\ at[i] = Descend(at[i - 1], path[i])
    BY <1>1, <1>2, <1>4
  <2>2. at[i] \notin Errno /\ at[i - 1] \notin Errno
    BY <2>1, MemoryFsAssumption
  <2>. QED
    BY <2>1, <2>2 DEF Descend, Errno, Has
<1>. QED
  BY <1>1, <1>5, <1>6 DEF Leads, IsWalk, n

\* ... and lookup answers what is at the end of a path.
LEMMA LeadsLookup ==
    ASSUME Tree, NEW path \in Seq(Name), NEW node \in Node, Leads(path, node)
    PROVE  Lookup(path) = node
<1>. DEFINE n == Len(path)
<1>1. PICK at \in [0..n -> Node \union Errno] :
         /\ at[0] = RootDir
         /\ \A i \in 1..n : at[i] = Descend(at[i - 1], path[i])
         /\ Lookup(path) = at[n]
  BY LookupTurns
<1>2. PICK w \in [0..n -> Node] : IsWalk(path, w) /\ w[n] = node
  BY DEF Leads
<1>3. n \in Nat /\ w[0] = RootDir
      /\ \A i \in 1..n : Has(w[i - 1], path[i]) /\ w[i] = children[w[i - 1]][path[i]]
  BY <1>2 DEF IsWalk
<1>. HIDE DEF n
<1>. DEFINE S == {k \in Nat : k <= n => at[k] = w[k]}
<1>4. 0 \in S
  BY <1>1, <1>3
<1>5. ASSUME NEW k \in Nat, k \in S  PROVE k + 1 \in S
  <2>. SUFFICES ASSUME k + 1 <= n  PROVE at[k + 1] = w[k + 1]
    OBVIOUS
  <2>1. k + 1 \in 1..n /\ (k + 1) - 1 = k /\ k \in 0..n /\ at[k] = w[k]
    BY <1>3, <1>5
  <2>2. at[k + 1] = Descend(at[k], path[k + 1])
    BY <1>1, <2>1
  <2>3. Has(w[k], path[k + 1]) /\ w[k + 1] = children[w[k]][path[k + 1]] /\ w[k] \in Node
    BY <1>2, <1>3, <2>1
  <2>4. kind[w[k]] = "directory"
    BY <2>3 DEF Tree, Has
  <2>5. w[k] \notin Errno
    BY <2>3, MemoryFsAssumption
  <2>. QED
    BY <2>1, <2>2, <2>3, <2>4, <2>5 DEF Descend, Has
<1>. HIDE DEF S
<1>6. \A k \in Nat : k \in S
  BY <1>4, <1>5, NatSetInduction
<1>7. n \in S
  BY <1>3, <1>6
<1>. QED
  BY <1>1, <1>2, <1>3, <1>7 DEF S

\* The empty path leads to the root.
LEMMA RootLeads == Leads(<< >>, RootDir)
<1>. DEFINE w == [i \in 0..0 |-> RootDir]
<1>1. w \in [0..Len(<< >>) -> Node] /\ IsWalk(<< >>, w) /\ w[Len(<< >>)] = RootDir
  BY MemoryFsAssumption DEF IsWalk
<1>. QED
  BY <1>1 DEF Leads

\* A path leads on to what its end lists.
LEMMA LeadsOn ==
    ASSUME Tree, NEW p \in Seq(Name), NEW d \in Node, Leads(p, d), NEW m, Has(d, m)
    PROVE  /\ Leads(Append(p, m), children[d][m])
           /\ m \in Name /\ Append(p, m) \in Seq(Name)
           /\ children[d][m] \in Node
<1>. DEFINE n == Len(p)
            q == Append(p, m)
<1>1. PICK w \in [0..n -> Node] : IsWalk(p, w) /\ w[n] = d
  BY DEF Leads
<1>2. m \in Name /\ children[d][m] \in Node
  BY DEF Tree, Has
<1>. DEFINE v == [i \in 0..n + 1 |-> IF i = n + 1 THEN children[d][m] ELSE w[i]]
<1>3. n \in Nat /\ Len(q) = n + 1 /\ q \in Seq(Name) /\ q[n + 1] = m
      /\ \A i \in 1..n : q[i] = p[i]
  BY <1>2
<1>4. v \in [0..n + 1 -> Node] /\ v[n + 1] = children[d][m] /\ v[0] = RootDir
  BY <1>1, <1>2, <1>3 DEF IsWalk
<1>. HIDE DEF q, n
<1>5. \A i \in 1..n + 1 : Has(v[i - 1], q[i]) /\ v[i] = children[v[i - 1]][q[i]]
  <2>. SUFFICES ASSUME NEW i \in 1..n + 1
                PROVE  Has(v[i - 1], q[i]) /\ v[i] = children[v[i - 1]][q[i]]
    OBVIOUS
  <2>1. v[i - 1] = w[i - 1]
    BY <1>3
  <2>2. CASE i = n + 1
    BY <1>1, <1>3, <2>1, <2>2
  <2>3. CASE i \in 1..n
    <3>1. v[i] = w[i] /\ q[i] = p[i]
      BY <1>3, <2>3
    <3>2. Has(w[i - 1], p[i]) /\ w[i] = children[w[i - 1]][p[i]]
      BY <1>1, <2>3 DEF IsWalk, n
    <3>. QED
      BY <2>1, <3>1, <3>2
  <2>. QED
    BY <1>3, <2>2, <2>3
<1>. HIDE DEF v
<1>. QED
  BY <1>2, <1>3, <1>4, <1>5 DEF Leads, IsWalk, q

\* What a path leads to is listed by what its directory's path leads to.
LEMMA LeadsBack ==
    ASSUME Tree, NEW p \in Seq(Name), NEW n \in Node, Leads(p, n), p # << >>
    PROVE  \E d \in Node : Leads(Front(p), d) /\ Has(d, Last(p)) /\ n = children[d][Last(p)]
<1>. DEFINE k == Len(p)
<1>1. PICK w \in [0..k -> Node] : IsWalk(p, w) /\ w[k] = n
  BY DEF Leads
<1>2. k \in Nat \ {0} /\ Front(p) \in Seq(Name) /\ Len(Front(p)) = k - 1
      /\ \A i \in 1..k - 1 : Front(p)[i] = p[i]
  BY DEF Front
<1>3. Last(p) = p[k]
  BY DEF Last
<1>. HIDE DEF k
<1>. DEFINE v == [i \in 0..k - 1 |-> w[i]]
<1>4. v \in [0..k - 1 -> Node] /\ v[0] = RootDir /\ v[k - 1] = w[k - 1]
  BY <1>1, <1>2 DEF IsWalk
<1>5. \A i \in 1..k : Has(w[i - 1], p[i]) /\ w[i] = children[w[i - 1]][p[i]]
  BY <1>1 DEF IsWalk, k
<1>6. \A i \in 1..k - 1 : Has(v[i - 1], Front(p)[i]) /\ v[i] = children[v[i - 1]][Front(p)[i]]
  <2>. SUFFICES ASSUME NEW i \in 1..k - 1
                PROVE  Has(v[i - 1], Front(p)[i]) /\ v[i] = children[v[i - 1]][Front(p)[i]]
    OBVIOUS
  <2>1. v[i - 1] = w[i - 1] /\ v[i] = w[i] /\ Front(p)[i] = p[i] /\ i \in 1..k
    BY <1>2
  <2>. QED
    BY <1>5, <2>1
<1>. HIDE DEF v
<1>7. Leads(Front(p), w[k - 1])
  BY <1>2, <1>4, <1>6 DEF Leads, IsWalk
<1>8. w[k - 1] \in Node /\ Has(w[k - 1], p[k]) /\ n = children[w[k - 1]][p[k]]
  BY <1>1, <1>2, <1>5
<1>. QED
  BY <1>3, <1>7, <1>8

\* One name each and none for the root: no two paths lead to one node.
LEMMA OnePath ==
    ASSUME Tree, NEW p \in Seq(Name), NEW q \in Seq(Name), NEW n \in Node,
           Leads(p, n), Leads(q, n)
    PROVE  p = q
<1>. DEFINE S == {k \in Nat : \A r, s \in Seq(Name), x \in Node :
                    Len(r) = k /\ Leads(r, x) /\ Leads(s, x) => r = s}
<1>1. ASSUME NEW s \in Seq(Name), Leads(s, RootDir)  PROVE s = << >>
  <2>. SUFFICES ASSUME s # << >>  PROVE FALSE
    OBVIOUS
  <2>1. PICK d \in Node : Has(d, Last(s)) /\ RootDir = children[d][Last(s)]
    BY <1>1, LeadsBack, MemoryFsAssumption
  <2>. QED
    BY <2>1 DEF Tree, OneName, Has
<1>2. 0 \in S
  <2>. SUFFICES ASSUME NEW r \in Seq(Name), NEW s \in Seq(Name), NEW x \in Node,
                       Len(r) = 0, Leads(r, x), Leads(s, x)
                PROVE  r = s
    OBVIOUS
  <2>1. r = << >>
    OBVIOUS
  <2>2. x = RootDir
    BY <2>1 DEF Leads, IsWalk
  <2>. QED
    BY <1>1, <2>1, <2>2
<1>3. ASSUME NEW k \in Nat, k \in S  PROVE k + 1 \in S
  <2>. SUFFICES ASSUME NEW r \in Seq(Name), NEW s \in Seq(Name), NEW x \in Node,
                       Len(r) = k + 1, Leads(r, x), Leads(s, x)
                PROVE  r = s
    OBVIOUS
  <2>1. r # << >>
    OBVIOUS
  <2>2. s # << >>
    <3>. SUFFICES ASSUME s = << >>  PROVE FALSE
      OBVIOUS
    <3>1. x = RootDir
      BY DEF Leads, IsWalk
    <3>. QED
      BY <1>1, <2>1, <3>1
  <2>3. PICK d \in Node : Leads(Front(r), d) /\ Has(d, Last(r)) /\ x = children[d][Last(r)]
    BY <2>1, LeadsBack
  <2>4. PICK e \in Node : Leads(Front(s), e) /\ Has(e, Last(s)) /\ x = children[e][Last(s)]
    BY <2>2, LeadsBack
  <2>5. d = e /\ Last(r) = Last(s)
    <3>1. Last(r) \in DOMAIN children[d] /\ Last(s) \in DOMAIN children[e]
          /\ children[d][Last(r)] = children[e][Last(s)]
      BY <2>3, <2>4 DEF Has
    <3>. QED
      BY <3>1 DEF Tree, OneName
  <2>6. Front(r) \in Seq(Name) /\ Front(s) \in Seq(Name) /\ Len(Front(r)) = k
    BY <2>1, <2>2 DEF Front
  <2>7. Front(r) = Front(s)
    BY <1>3, <2>3, <2>4, <2>5, <2>6
  <2>8. r = Append(Front(r), Last(r)) /\ s = Append(Front(s), Last(s))
    BY <2>1, <2>2 DEF Front, Last
  <2>. QED
    BY <2>5, <2>7, <2>8
<1>. HIDE DEF S
<1>4. \A k \in Nat : k \in S
  BY <1>2, <1>3, NatSetInduction
<1>5. Len(p) \in S
  BY <1>4
<1>. QED
  BY <1>5 DEF S

\* What a path goes through has the first names of it for a path.
LEMMA LeadsVia ==
    ASSUME NEW p \in Seq(Name), NEW w \in [0..Len(p) -> Node], IsWalk(p, w),
           NEW i \in 0..Len(p)
    PROVE  Leads(SubSeq(p, 1, i), w[i])
<1>. DEFINE q == SubSeq(p, 1, i)
            v == [j \in 0..i |-> w[j]]
<1>1. q \in Seq(Name) /\ Len(q) = i /\ \A j \in 1..i : q[j] = p[j]
  OBVIOUS
<1>2. v \in [0..i -> Node] /\ v[0] = RootDir /\ v[i] = w[i]
  BY DEF IsWalk
<1>. HIDE DEF q
<1>3. \A j \in 1..i : Has(v[j - 1], q[j]) /\ v[j] = children[v[j - 1]][q[j]]
  <2>. SUFFICES ASSUME NEW j \in 1..i
                PROVE  Has(v[j - 1], q[j]) /\ v[j] = children[v[j - 1]][q[j]]
    OBVIOUS
  <2>1. v[j - 1] = w[j - 1] /\ v[j] = w[j] /\ q[j] = p[j] /\ j \in 1..Len(p)
    BY <1>1
  <2>. QED
    BY <2>1 DEF IsWalk
<1>. HIDE DEF v
<1>. QED
  BY <1>1, <1>2, <1>3 DEF Leads, IsWalk, q

\* A path goes through different nodes, so there are fewer names on it than nodes.
LEMMA LeadsShort ==
    ASSUME Tree, NEW p \in Seq(Name), NEW n \in Node, Leads(p, n)
    PROVE  Len(p) < Cardinality(Node) /\ Cardinality(Node) \in Nat
<1>. DEFINE k == Len(p)
<1>1. PICK w \in [0..k -> Node] : IsWalk(p, w)
  BY DEF Leads
<1>2. ASSUME NEW i \in 0..k, NEW j \in 0..k, w[i] = w[j]  PROVE i = j
  <2>1. Leads(SubSeq(p, 1, i), w[i]) /\ Leads(SubSeq(p, 1, j), w[j])
    BY <1>1, LeadsVia
  <2>2. SubSeq(p, 1, i) \in Seq(Name) /\ SubSeq(p, 1, j) \in Seq(Name)
        /\ Len(SubSeq(p, 1, i)) = i /\ Len(SubSeq(p, 1, j)) = j
    OBVIOUS
  <2>3. w[i] \in Node
    OBVIOUS
  <2>4. SubSeq(p, 1, i) = SubSeq(p, 1, j)
    BY <1>2, <2>1, <2>2, <2>3, OnePath
  <2>. QED
    BY <2>2, <2>4
<1>3. w \in Injection(0..k, Node)
  BY <1>2 DEF Injection, IsInjective
<1>4. Cardinality(0..k) = k + 1
  BY FS_Interval
<1>5. Cardinality(0..k) <= Cardinality(Node)
  BY <1>3, FS_Injection, MemoryFsAssumption
<1>6. Cardinality(Node) \in Nat
  BY FS_CardinalityType, MemoryFsAssumption
<1>. QED
  BY <1>4, <1>5, <1>6

-----------------------------------------------------------------------------
(* Located, which walks the tree level by level, is what paths lead to.      *)

Places == [path : Seq(Name), node : Node]
OneDown(e) == {[path |-> Append(e.path, m), node |-> children[e.node][m]] :
                 m \in DOMAIN children[e.node]}
Level(E) == UNION {OneDown(e) : e \in E}

\* The levels of Located are of the type of the whole.
LEMMA LevelType ==
    ASSUME Tree, NEW E \in SUBSET Places
    PROVE  Level(E) \in SUBSET Places
<1>. SUFFICES ASSUME NEW e \in E, NEW m \in DOMAIN children[e.node]
              PROVE  [path |-> Append(e.path, m), node |-> children[e.node][m]] \in Places
  BY DEF Level, OneDown
<1>1. e.path \in Seq(Name) /\ e.node \in Node
  BY DEF Places
<1>2. m \in Name /\ children[e.node][m] \in Node
  BY <1>1 DEF Tree
<1>3. Append(e.path, m) \in Seq(Name)
  BY <1>1, <1>2
<1>. HIDE DEF Tree
<1>. QED
  BY <1>2, <1>3 DEF Places

\* Located is the union of its levels.
LEMMA LocatedLevels ==
    ASSUME Tree
    PROVE  \E at \in [0..Cardinality(Node) -> SUBSET Places] :
              /\ at[0] = {[path |-> << >>, node |-> RootDir]}
              /\ \A i \in 1..Cardinality(Node) : at[i] = Level(at[i - 1])
              /\ Located = UNION {at[i] : i \in 0..Cardinality(Node)}
<1>. DEFINE X == SUBSET Places
            n == Cardinality(Node)
            top == {[path |-> << >>, node |-> RootDir]}
            G == [i \in Nat |-> [E \in X |-> Level(E)]]
            Below(e) == {[path |-> Append(e.path, m), node |-> children[e.node][m]] :
                            m \in DOMAIN children[e.node]}
            at[i \in 0..n] == IF i = 0 THEN {[path |-> << >>, node |-> RootDir]}
                              ELSE UNION {Below(e) : e \in at[i - 1]}
<1>1. n \in Nat
  BY FS_CardinalityType, MemoryFsAssumption
<1>2. G \in Turns(X)
  BY LevelType DEF Turns
<1>3. top \in X
  BY MemoryFsAssumption DEF Places
<1>4. PICK g \in [0..n -> X] : g[0] = top /\ \A i \in 1..n : g[i] = G[i][g[i - 1]]
  <2>. HIDE DEF X, n, G, top
  <2>1. Iterates(X, top, G, n)
    BY <1>1, <1>2, <1>3, Recursion
  <2>. QED
    BY <2>1 DEF Iterates
<1>5. \A i \in 1..n : g[i] = Level(g[i - 1])
  <2>. SUFFICES ASSUME NEW i \in 1..n  PROVE g[i] = Level(g[i - 1])
    OBVIOUS
  <2>. HIDE DEF X
  <2>1. g[i - 1] \in X
    BY <1>1, <1>4
  <2>2. G[i] = [E \in X |-> Level(E)]
    BY <1>1
  <2>3. G[i][g[i - 1]] = Level(g[i - 1])
    BY <2>1, <2>2
  <2>. QED
    BY <1>4, <2>3
<1>6. ASSUME NEW E  PROVE UNION {Below(e) : e \in E} = Level(E)
  BY DEF Level, OneDown
<1>7. g = [i \in 0..n |-> IF i = 0 THEN top ELSE UNION {Below(e) : e \in g[i - 1]}]
  <2>. HIDE DEF X, n, top, Below
  <2>1. \A i \in 0..n : g[i] = IF i = 0 THEN top ELSE UNION {Below(e) : e \in g[i - 1]}
    BY <1>4, <1>5, <1>6, <1>1
  <2>. QED
    BY <1>4, <2>1
<1>8. at = [i \in 0..n |-> IF i = 0 THEN top ELSE UNION {Below(e) : e \in at[i - 1]}]
  <2>. HIDE DEF X, n, Below
  <2>. DEFINE R(f) == [i \in 0..n |-> IF i = 0 THEN {[path |-> << >>, node |-> RootDir]}
                                     ELSE UNION {Below(e) : e \in f[i - 1]}]
  <2>1. \E f : f = R(f)
    BY <1>7
  <2>2. at = CHOOSE f : f = R(f)
    BY DEF at
  <2>. HIDE DEF at, R
  <2>3. at = R(at)
    BY <2>1, <2>2
  <2>. QED
    BY <2>3 DEF R
<1>9. Located = UNION {at[i] : i \in 0..n}
  BY DEF Located
<1>. HIDE DEF at
<1>10. at[0] = top /\ \A i \in 1..n : at[i] = Level(at[i - 1])
  <2>. HIDE DEF n, top, Below
  <2>1. at[0] = top /\ \A i \in 1..n : at[i] = UNION {Below(e) : e \in at[i - 1]}
    BY <1>1, <1>8
  <2>. QED
    BY <1>6, <2>1, Zenon
<1>11. \A i \in 0..n : at[i] \in X
  <2>. DEFINE S == {i \in Nat : i <= n => at[i] \in X}
  <2>. HIDE DEF n, top
  <2>1. 0 \in S
    BY <1>3, <1>10
  <2>2. ASSUME NEW i \in Nat, i \in S  PROVE i + 1 \in S
    <3>. SUFFICES ASSUME i + 1 <= n  PROVE at[i + 1] \in X
      OBVIOUS
    <3>1. i + 1 \in 1..n /\ (i + 1) - 1 = i /\ at[i] \in X
      BY <1>1, <2>2
    <3>2. at[i + 1] = Level(at[i])
      BY <1>10, <3>1
    <3>. QED
      BY <3>1, <3>2, LevelType
  <2>. HIDE DEF S
  <2>3. \A i \in Nat : i \in S
    BY <2>1, <2>2, NatSetInduction
  <2>. QED
    BY <1>1, <2>3 DEF S
<1>12. at \in [0..n -> X]
  <2>. HIDE DEF X, n, top, Below
  <2>. QED
    BY <1>8, <1>11
<1>. QED
  BY <1>9, <1>10, <1>12

\* What is located is what paths lead to.
LEMMA LocatedLeads ==
    ASSUME Tree
    PROVE  /\ Located \subseteq Places
           /\ \A e \in Places : e \in Located <=> Leads(e.path, e.node)
<1>. DEFINE n == Cardinality(Node)
            top == {[path |-> << >>, node |-> RootDir]}
<1>1. PICK at \in [0..n -> SUBSET Places] :
         /\ at[0] = top
         /\ \A i \in 1..n : at[i] = Level(at[i - 1])
         /\ Located = UNION {at[i] : i \in 0..n}
  BY LocatedLevels
<1>2. n \in Nat
  BY FS_CardinalityType, MemoryFsAssumption
<1>. DEFINE S == {i \in Nat : i <= n => \A e \in Places :
                      e \in at[i] <=> Leads(e.path, e.node) /\ Len(e.path) = i}
<1>3. 0 \in S
  <2>. SUFFICES ASSUME NEW e \in Places
                PROVE  e \in at[0] <=> Leads(e.path, e.node) /\ Len(e.path) = 0
    BY <1>2
  <2>0. e.path \in Seq(Name) /\ e.node \in Node /\ e = [path |-> e.path, node |-> e.node]
    BY DEF Places
  <2>1. e \in at[0] <=> e.path = << >> /\ e.node = RootDir
    BY <1>1, <2>0
  <2>2. Len(e.path) = 0 <=> e.path = << >>
    BY <2>0
  <2>3. Leads(<< >>, e.node) <=> e.node = RootDir
    <3>1. Leads(<< >>, e.node) => e.node = RootDir
      BY DEF Leads, IsWalk
    <3>. QED
      BY <3>1, RootLeads
  <2>. QED
    BY <2>1, <2>2, <2>3
<1>4. ASSUME NEW i \in Nat, i \in S  PROVE i + 1 \in S
  <2>. SUFFICES ASSUME i + 1 <= n, NEW e \in Places
                PROVE  e \in at[i + 1] <=> Leads(e.path, e.node) /\ Len(e.path) = i + 1
    OBVIOUS
  <2>0. e.path \in Seq(Name) /\ e.node \in Node /\ e = [path |-> e.path, node |-> e.node]
    BY DEF Places
  <2>1. i \in 0..n /\ i + 1 \in 1..n /\ (i + 1) - 1 = i
    BY <1>2
  <2>2. at[i + 1] = Level(at[i])
    BY <1>1, <2>1
  <2>3. at[i] \subseteq Places
    BY <1>1, <2>1
  <2>4. \A f \in Places : f \in at[i] <=> Leads(f.path, f.node) /\ Len(f.path) = i
    BY <1>4, <1>2
  <2>5. ASSUME e \in at[i + 1]  PROVE Leads(e.path, e.node) /\ Len(e.path) = i + 1
    <3>1. PICK f \in at[i] : e \in OneDown(f)
      BY <2>2, <2>5 DEF Level
    <3>2. PICK m \in DOMAIN children[f.node] :
             e.path = Append(f.path, m) /\ e.node = children[f.node][m]
      BY <3>1 DEF OneDown
    <3>3. f.path \in Seq(Name) /\ f.node \in Node /\ Leads(f.path, f.node) /\ Len(f.path) = i
      BY <2>3, <2>4, <3>1 DEF Places
    <3>4. Has(f.node, m)
      BY <3>2 DEF Has
    <3>5. Leads(Append(f.path, m), children[f.node][m]) /\ m \in Name
      BY <3>3, <3>4, LeadsOn
    <3>6. Len(Append(f.path, m)) = i + 1
      BY <3>3, <3>5
    <3>. QED
      BY <3>2, <3>5, <3>6
  <2>6. ASSUME Leads(e.path, e.node), Len(e.path) = i + 1  PROVE e \in at[i + 1]
    <3>1. e.path # << >>
      BY <2>6
    <3>2. PICK d \in Node : Leads(Front(e.path), d) /\ Has(d, Last(e.path))
                            /\ e.node = children[d][Last(e.path)]
      BY <2>0, <2>6, <3>1, LeadsBack
    <3>3. /\ Front(e.path) \in Seq(Name) /\ Len(Front(e.path)) = i
          /\ e.path = Append(Front(e.path), Last(e.path))
      BY <2>0, <2>6, <3>1 DEF Front, Last
    <3>. DEFINE f == [path |-> Front(e.path), node |-> d]
    <3>4. f \in Places /\ f.path = Front(e.path) /\ f.node = d
      BY <3>2, <3>3 DEF Places
    <3>5. f \in at[i]
      BY <2>4, <3>2, <3>3, <3>4
    <3>6. e = [path |-> Append(f.path, Last(e.path)), node |-> children[f.node][Last(e.path)]]
      BY <2>0, <3>2, <3>3
    <3>7. Last(e.path) \in DOMAIN children[f.node]
      BY <3>2 DEF Has
    <3>8. e \in OneDown(f)
      BY <3>6, <3>7, Zenon DEF OneDown
    <3>. QED
      BY <2>2, <3>5, <3>8, Zenon DEF Level
  <2>. QED
    BY <2>5, <2>6
<1>. HIDE DEF S
<1>5. \A i \in Nat : i \in S
  BY <1>3, <1>4, NatSetInduction
<1>6. \A i \in 0..n : \A e \in Places : e \in at[i] <=> Leads(e.path, e.node) /\ Len(e.path) = i
  <2>. SUFFICES ASSUME NEW i \in 0..n
                PROVE  \A e \in Places : e \in at[i] <=> Leads(e.path, e.node) /\ Len(e.path) = i
    OBVIOUS
  <2>1. i \in S /\ i <= n
    BY <1>2, <1>5
  <2>. QED
    BY <2>1 DEF S
<1>7. Located \subseteq Places
  BY <1>1
<1>8. ASSUME NEW e \in Places, e \in Located  PROVE Leads(e.path, e.node)
  BY <1>1, <1>6, <1>8
<1>9. ASSUME NEW e \in Places, Leads(e.path, e.node)  PROVE e \in Located
  <2>1. e.path \in Seq(Name) /\ e.node \in Node
    BY DEF Places
  <2>2. Len(e.path) \in 0..n
    <3>1. Len(e.path) < n
      BY <1>9, <2>1, LeadsShort
    <3>. QED
      BY <1>2, <2>1, <3>1
  <2>3. e \in at[Len(e.path)]
    BY <1>6, <1>9, <2>2
  <2>. QED
    BY <1>1, <2>2, <2>3
<1>. QED
  BY <1>7, <1>8, <1>9

-----------------------------------------------------------------------------
(* Nothing is orphaned.                                                      *)

Closed(S)   == \A d \in S : \A m \in DOMAIN children[d] : children[d][m] \in S
\* Every set that has the root and, with a directory, what it lists, has all entries.
Rooted      == \A S \in SUBSET Node : RootDir \in S /\ Closed(S) => Entries(Node) \subseteq S

\* What some directory lists, when it can be reached at all, has a path.
LEMMA RootedLeads ==
    ASSUME Tree, Rooted, NEW n \in Entries(Node)
    PROVE  \E p \in Seq(Name) : Leads(p, n)
<1>. DEFINE S == {x \in Node : \E p \in Seq(Name) : Leads(p, x)}
<1>1. RootDir \in S
  <2>1. << >> \in Seq(Name)
    OBVIOUS
  <2>. QED
    BY <2>1, RootLeads, MemoryFsAssumption
<1>2. Closed(S)
  <2>. SUFFICES ASSUME NEW d \in S, NEW m \in DOMAIN children[d]  PROVE children[d][m] \in S
    BY DEF Closed
  <2>1. PICK p \in Seq(Name) : Leads(p, d)
    OBVIOUS
  <2>2. /\ Leads(Append(p, m), children[d][m])
        /\ Append(p, m) \in Seq(Name)
        /\ children[d][m] \in Node
    BY <2>1, LeadsOn DEF Has
  <2>. QED
    BY <2>2
<1>. HIDE DEF S
<1>3. S \in SUBSET Node
  BY DEF S
<1>4. n \in S
  BY <1>1, <1>2, <1>3 DEF Rooted
<1>. QED
  BY <1>4 DEF S

\* So it is in Located.
LEMMA RootedIsLocated ==
    ASSUME Tree, Rooted
    PROVE  NothingOrphaned
<1>. SUFFICES ASSUME NEW n \in Entries(Node)  PROVE n \in {e.node : e \in Located}
  BY DEF NothingOrphaned
<1>1. n \in Node
  BY DEF Tree, Entries
<1>2. PICK p \in Seq(Name) : Leads(p, n)
  BY RootedLeads
<1>. DEFINE e == [path |-> p, node |-> n]
<1>3. e \in Places /\ e.path = p /\ e.node = n
  BY <1>1 DEF Places
<1>4. e \in Located
  BY <1>2, <1>3, LocatedLeads
<1>. HIDE DEF e
<1>. QED
  BY <1>3, <1>4, Zenon

InTree(d) == d = RootDir \/ d \in Entries(Node)

\* What has a path is the root or listed.
LEMMA LeadsInTree ==
    ASSUME Tree, NEW p \in Seq(Name), NEW d \in Node, Leads(p, d)
    PROVE  InTree(d)
<1>1. CASE p = << >>
  BY <1>1 DEF InTree, Leads, IsWalk
<1>2. CASE p # << >>
  BY <1>2, LeadsBack DEF InTree, Entries, Has
<1>. QED
  BY <1>1, <1>2

\* The paths that are asked for are sequences of names.
LEMMA PathIsNames ==
    ASSUME NEW path \in Path
    PROVE  /\ path \in Seq(Name)
           /\ path # << >> => /\ Front(path) \in Seq(Name)
                              /\ Last(path) \in Name
                              /\ path = Append(Front(path), Last(path))
                              /\ Len(path) = Len(Front(path)) + 1
<1>1. path \in Seq(Name)
  BY MemoryFsAssumption DEF Path
<1>. QED
  BY <1>1, FrontAndLast, LenProperties

\* parentDir answers the directory that the path's directory leads to.
LEMMA ParentLeads ==
    ASSUME Tree, NEW path \in Path, path # << >>, ParentDir(path) \in Node
    PROVE  /\ Leads(Front(path), ParentDir(path))
           /\ kind[ParentDir(path)] = "directory"
<1>1. ParentDir(path) = Lookup(Front(path))
  BY MemoryFsAssumption DEF ParentDir, Errno
<1>2. Front(path) \in Seq(Name)
  BY PathIsNames
<1>. QED
  BY <1>1, <1>2, LookupLeads, ParentIsDirectory

\* A new entry below what can be reached can be reached.
LEMMA AddsKeepRooted ==
    ASSUME Tree, Rooted, NEW dir \in Node, NEW name \in Name, NEW fresh \in Node, NEW type,
           InTree(dir), ~Has(dir, name), Makes(dir, name, fresh, type)
    PROVE  Rooted'
<1>. SUFFICES ASSUME NEW S \in SUBSET Node, RootDir \in S, Closed(S)'
              PROVE  Entries(Node)' \subseteq S
  BY DEF Rooted
<1>1. DOMAIN children = Node
  BY DEF Tree
<1>2. /\ name \in DOMAIN children'[dir] /\ children'[dir][name] = fresh
      /\ \A d \in Node : \A m \in DOMAIN children'[d] :
            \/ m \in DOMAIN children[d] /\ children'[d][m] = children[d][m]
            \/ d = dir /\ m = name
      /\ \A d \in Node : \A m \in DOMAIN children[d] :
            m \in DOMAIN children'[d] /\ children'[d][m] = children[d][m]
  BY <1>1 DEF Makes, With, Has
<1>3. Closed(S)
  BY <1>2 DEF Closed
<1>4. Entries(Node) \subseteq S
  BY <1>3 DEF Rooted
<1>5. dir \in S
  BY <1>4 DEF InTree
<1>6. fresh \in S
  BY <1>2, <1>5 DEF Closed
<1>7. \A d \in Node : \A m \in DOMAIN children[d] : children[d][m] \in S
  BY <1>4 DEF Entries
<1>8. \A d \in Node : \A m \in DOMAIN children'[d] : children'[d][m] \in S
  BY <1>2, <1>6, <1>7
<1>. QED
  BY <1>8 DEF Entries

\* What is removed lists nothing.
LEMMA RemovesKeepRooted ==
    ASSUME Tree, Rooted, NEW dir \in Node, NEW name \in Name, Has(dir, name),
           DOMAIN children[children[dir][name]] = {},
           children' = [children EXCEPT ![dir] = Without(@, name)]
    PROVE  Rooted'
<1>. DEFINE gone == children[dir][name]
<1>. SUFFICES ASSUME NEW S \in SUBSET Node, RootDir \in S, Closed(S)'
              PROVE  Entries(Node)' \subseteq S
  BY DEF Rooted
<1>1. DOMAIN children = Node /\ gone \in Node
  BY DEF Tree, Has
<1>2. \A d \in Node : \A m \in DOMAIN children[d] :
         \/ m \in DOMAIN children'[d] /\ children'[d][m] = children[d][m]
         \/ d = dir /\ m = name
  BY <1>1 DEF Without
<1>3. \A d \in Node : \A m \in DOMAIN children'[d] :
         /\ m \in DOMAIN children[d] /\ children'[d][m] = children[d][m]
         /\ ~(d = dir /\ m = name)
  BY <1>1 DEF Without
<1>4. Closed(S \union {gone})
  BY <1>2 DEF Closed
<1>5. Entries(Node) \subseteq S \union {gone}
  BY <1>1, <1>4 DEF Rooted
<1>6. \A d \in Node : \A m \in DOMAIN children[d] : children[d][m] \in S \/ children[d][m] = gone
  BY <1>5 DEF Entries
<1>7. \A d \in Node : \A m \in DOMAIN children[d] : children[d][m] = gone => d = dir /\ m = name
  BY DEF Tree, OneName, Has
<1>. HIDE DEF gone
<1>8. \A d \in Node : \A m \in DOMAIN children'[d] : children'[d][m] \in S
  BY <1>3, <1>6, <1>7
<1>. QED
  BY <1>8 DEF Entries

\* What is moved goes to a directory that is not below it, and what was there lists nothing.
LEMMA MovesKeepRooted ==
    ASSUME Tree, Rooted, NEW fromDir \in Node, NEW fromName \in Name,
           NEW toDir \in Node, NEW toName \in Name,
           Has(fromDir, fromName), InTree(toDir),
           Has(toDir, toName) => DOMAIN children[children[toDir][toName]] = {},
           NEW D \in SUBSET Node, children[fromDir][fromName] \in D, Closed(D), toDir \notin D,
           children' = Relinked(fromDir, fromName, toDir, toName, children[fromDir][fromName])
    PROVE  Rooted'
<1>. DEFINE node == children[fromDir][fromName]
            deleted == [children EXCEPT ![fromDir] = Without(@, fromName)]
            There == {children[toDir][m] : m \in DOMAIN children[toDir] \intersect {toName}}
<1>. SUFFICES ASSUME NEW S \in SUBSET Node, RootDir \in S, Closed(S)'
              PROVE  Entries(Node)' \subseteq S
  BY DEF Rooted
<1>1. DOMAIN children = Node /\ node \in Node
  BY DEF Tree, Has
<1>2. /\ DOMAIN deleted = Node
      /\ \A d \in Node : \A m \in DOMAIN deleted[d] :
            /\ m \in DOMAIN children[d] /\ deleted[d][m] = children[d][m]
            /\ ~(d = fromDir /\ m = fromName)
      /\ \A d \in Node : \A m \in DOMAIN children[d] :
            \/ m \in DOMAIN deleted[d] /\ deleted[d][m] = children[d][m]
            \/ d = fromDir /\ m = fromName
  BY <1>1 DEF Without
<1>3. children' = [deleted EXCEPT ![toDir] = With(@, toName, node)]
  BY DEF Relinked
<1>. HIDE DEF node, deleted
<1>4. \A d \in Node : \A m \in DOMAIN children'[d] :
         \/ /\ m \in DOMAIN children[d] /\ children'[d][m] = children[d][m]
            /\ ~(d = fromDir /\ m = fromName) /\ ~(d = toDir /\ m = toName)
         \/ d = toDir /\ m = toName /\ children'[d][m] = node
  BY <1>2, <1>3 DEF With
<1>5. /\ toName \in DOMAIN children'[toDir] /\ children'[toDir][toName] = node
      /\ \A d \in Node : \A m \in DOMAIN children[d] :
            \/ m \in DOMAIN children'[d] /\ children'[d][m] = children[d][m]
            \/ d = fromDir /\ m = fromName
            \/ d = toDir /\ m = toName
  BY <1>2, <1>3 DEF With
<1>6. There \subseteq Node /\ \A x \in There : DOMAIN children[x] = {} /\ Has(toDir, toName)
  BY DEF Tree, Has
<1>7. \A m \in DOMAIN children[toDir] : m = toName => children[toDir][m] \in There
  OBVIOUS
<1>8. toDir \notin There
  BY <1>6 DEF Has
<1>9. \A x \in There : \A d \in Node : \A m \in DOMAIN children[d] :
         children[d][m] = x => d = toDir /\ m = toName
  BY DEF Tree, OneName
<1>. HIDE DEF There
<1>10. node \in S
  <2>1. Closed(S \union There \union D)
    <3>. SUFFICES ASSUME NEW d \in S \union There \union D, NEW m \in DOMAIN children[d]
                  PROVE  children[d][m] \in S \union There \union D
      BY DEF Closed
    <3>1. CASE d \in D
      BY <3>1 DEF Closed
    <3>2. CASE d \in There
      BY <3>2, <1>6
    <3>3. CASE d \in S
      <4>1. d \in Node
        BY <3>3
      <4>2. CASE m \in DOMAIN children'[d] /\ children'[d][m] = children[d][m]
        BY <3>3, <4>2 DEF Closed
      <4>3. CASE d = fromDir /\ m = fromName
        BY <4>3 DEF node
      <4>4. CASE d = toDir /\ m = toName
        BY <4>4, <1>7
      <4>. QED
        BY <4>1, <4>2, <4>3, <4>4, <1>5
    <3>. QED
      BY <3>1, <3>2, <3>3
  <2>2. S \union There \union D \in SUBSET Node
    BY <1>6
  <2>3. Entries(Node) \subseteq S \union There \union D
    BY <2>1, <2>2 DEF Rooted
  <2>4. toDir \in S
    BY <1>8, <2>3 DEF InTree
  <2>. QED
    BY <1>5, <2>4 DEF Closed
<1>11. Closed(S \union There)
  <2>. SUFFICES ASSUME NEW d \in S \union There, NEW m \in DOMAIN children[d]
                PROVE  children[d][m] \in S \union There
    BY DEF Closed
  <2>1. CASE d \in There
    BY <2>1, <1>6
  <2>2. CASE d \in S
    <3>1. d \in Node
      BY <2>2
    <3>2. CASE m \in DOMAIN children'[d] /\ children'[d][m] = children[d][m]
      BY <2>2, <3>2 DEF Closed
    <3>3. CASE d = fromDir /\ m = fromName
      BY <3>3, <1>10 DEF node
    <3>4. CASE d = toDir /\ m = toName
      BY <3>4, <1>7
    <3>. QED
      BY <3>1, <3>2, <3>3, <3>4, <1>5
  <2>. QED
    BY <2>1, <2>2
<1>12. Entries(Node) \subseteq S \union There
  BY <1>6, <1>11 DEF Rooted
<1>13. \A d \in Node : \A m \in DOMAIN children[d] : children[d][m] \in S \/ children[d][m] \in There
  BY <1>12 DEF Entries
<1>14. \A d \in Node : \A m \in DOMAIN children'[d] : children'[d][m] \in S
  BY <1>4, <1>9, <1>10, <1>13
<1>. QED
  BY <1>14 DEF Entries

\* All whose paths begin with `from` are a closed set.
LEMMA BelowIsClosed ==
    ASSUME Tree, NEW from \in Seq(Name), from # << >>, NEW node \in Node, Leads(from, node)
    PROVE  \E D \in SUBSET Node :
              /\ node \in D /\ Closed(D)
              /\ \A d \in D, p \in Seq(Name) : Leads(p, d) => IsPrefix(from, p)
<1>. DEFINE D == {d \in Node : \A p \in Seq(Name) : Leads(p, d) => IsPrefix(from, p)}
<1>1. node \in D
  <2>. SUFFICES ASSUME NEW p \in Seq(Name), Leads(p, node)  PROVE IsPrefix(from, p)
    OBVIOUS
  <2>1. p = from
    BY OnePath
  <2>. QED
    BY <2>1 DEF IsPrefix
<1>2. ASSUME NEW d \in D, NEW m \in DOMAIN children[d]  PROVE children[d][m] \in D
  <2>1. children[d][m] \in Node
    BY DEF Tree
  <2>. SUFFICES ASSUME NEW p \in Seq(Name), Leads(p, children[d][m])  PROVE IsPrefix(from, p)
    BY <2>1
  <2>2. p # << >>
    <3>. SUFFICES ASSUME p = << >>  PROVE FALSE
      OBVIOUS
    <3>1. children[d][m] = RootDir
      BY DEF Leads, IsWalk
    <3>. QED
      BY <3>1 DEF Tree, OneName
  <2>3. PICK e \in Node : Leads(Front(p), e) /\ Has(e, Last(p)) /\ children[d][m] = children[e][Last(p)]
    BY <2>1, <2>2, LeadsBack
  <2>4. d = e
    BY <2>3 DEF Tree, OneName, Has
  <2>5. Front(p) \in Seq(Name) /\ Len(Front(p)) = Len(p) - 1
        /\ \A i \in 1..Len(p) - 1 : Front(p)[i] = p[i]
    BY <2>2, FrontAndLast
  <2>6. IsPrefix(from, Front(p))
    BY <2>3, <2>4, <2>5
  <2>7. Len(from) <= Len(Front(p)) /\ \A i \in 1..Len(from) : from[i] = Front(p)[i]
    BY <2>5, <2>6, PrefixNames
  <2>8. Len(from) \in Nat /\ Len(p) \in Nat
    BY LenProperties
  <2>9. Len(from) <= Len(p) /\ \A i \in 1..Len(from) : from[i] = p[i]
    BY <2>5, <2>7, <2>8
  <2>. QED
    BY <2>9, PrefixNames
<1>. HIDE DEF D
<1>3. Closed(D)
  BY <1>2 DEF Closed
<1>. QED
  BY <1>1, <1>3 DEF D

TInv == IInv /\ Rooted

\* What changes no directory.
LEMMA KeepsKeepRooted ==
    ASSUME Rooted, children' = children
    PROVE  Rooted'
BY DEF Rooted, Closed, Entries

\* The parts of the invariant.
LEMMA TInvTree == ASSUME TInv  PROVE Tree /\ Rooted
BY DEF TInv, IInv, TypeInvariant, Tree

\* The directory of an entry can be reached.
LEMMA ParentInTree ==
    ASSUME Tree, NEW path \in Path, path # << >>, ParentDir(path) \in Node
    PROVE  InTree(ParentDir(path)) /\ Last(path) \in Name
BY ParentLeads, LeadsInTree, PathIsNames

\* open and mkdir make an entry, if they change anything.
LEMMA MakesKeepsRooted ==
    ASSUME TInv, NEW path \in Path, path # << >>, ParentDir(path) \in Node,
           ~Has(ParentDir(path), Last(path)), NEW fresh \in Node, NEW type,
           Makes(ParentDir(path), Last(path), fresh, type)
    PROVE  Rooted'
BY TInvTree, ParentInTree, AddsKeepRooted

LEMMA OpenKeepsRooted ==
    ASSUME TInv, NEW path \in Path, NEW create, NEW exclusive, NEW truncate, NEW write,
           Open(path, create, exclusive, truncate, write)
    PROVE  Rooted'
<1>1. \/ UNCHANGED children
      \/ /\ path # << >> /\ ParentDir(path) \in Node /\ ~Has(ParentDir(path), Last(path))
         /\ \E fresh \in Node : Makes(ParentDir(path), Last(path), fresh, "file")
  BY DEF Open, OnEntry, Throws
<1>. QED
  BY <1>1, TInvTree, KeepsKeepRooted, MakesKeepsRooted

LEMMA MkdirKeepsRooted ==
    ASSUME TInv, NEW path \in Path, Mkdir(path)
    PROVE  Rooted'
<1>1. \/ UNCHANGED children
      \/ /\ path # << >> /\ ParentDir(path) \in Node /\ ~Has(ParentDir(path), Last(path))
         /\ \E fresh \in Node : Makes(ParentDir(path), Last(path), fresh, "directory")
  BY DEF Mkdir, OnEntry, Throws
<1>. QED
  BY <1>1, TInvTree, KeepsKeepRooted, MakesKeepsRooted

\* Files list nothing, and a directory is removed when it lists nothing.
LEMMA RemovalKeepsRooted ==
    ASSUME TInv, NEW path \in Path, Rmdir(path) \/ Unlink(path)
    PROVE  Rooted'
<1>. DEFINE dir == ParentDir(path)
            node == children[dir][Last(path)]
<1>1. \/ UNCHANGED children
      \/ /\ dir \in Node /\ Has(dir, Last(path)) /\ Deletes(dir, Last(path))
         /\ Emptied(node) \/ kind[node] = "file"
  BY DEF Rmdir, Unlink, OnEntry, Throws
<1>2. CASE /\ dir \in Node /\ Has(dir, Last(path)) /\ Deletes(dir, Last(path))
           /\ Emptied(node) \/ kind[node] = "file"
  <2>1. Tree /\ Rooted
    BY TInvTree
  <2>2. node \in Node
    BY <1>2, <2>1 DEF Tree, Has
  <2>3. DOMAIN children[node] = {}
    BY <1>2, <2>1, <2>2 DEF Emptied, Tree
  <2>4. children' = [children EXCEPT ![dir] = Without(@, Last(path))]
    BY <1>2 DEF Deletes
  <2>5. Last(path) \in Name
    BY <1>2, <2>1 DEF Tree, Has
  <2>. HIDE DEF dir
  <2>. QED
    BY <1>2, <2>1, <2>3, <2>4, <2>5, RemovesKeepRooted
<1>. QED
  BY <1>1, <1>2, TInvTree, KeepsKeepRooted

LEMMA RenameKeepsRooted ==
    ASSUME TInv, ~MayNest, NEW from \in Path, NEW to \in Path, Rename(from, to)
    PROVE  Rooted'
<1>. DEFINE fromDir == ParentDir(from)
            toDir   == ParentDir(to)
            node    == children[fromDir][Last(from)]
            there   == children[toDir][Last(to)]
<1>0. Tree /\ Rooted
  BY TInvTree
<1>1. \/ UNCHANGED children
      \/ /\ from # << >> /\ fromDir \in Node /\ Has(fromDir, Last(from))
         /\ to # << >> /\ toDir \in Node
         /\ Has(toDir, Last(to)) => kind[there] # "directory" \/ Emptied(there)
         /\ children' = Relinked(fromDir, Last(from), toDir, Last(to), node)
  BY DEF Rename, OnEntry, Throws
<1>2. ~IsStrictPrefix(from, to)
  BY DEF Rename
<1>3. CASE /\ from # << >> /\ fromDir \in Node /\ Has(fromDir, Last(from))
           /\ to # << >> /\ toDir \in Node
           /\ Has(toDir, Last(to)) => kind[there] # "directory" \/ Emptied(there)
           /\ children' = Relinked(fromDir, Last(from), toDir, Last(to), node)
  <2>1. /\ from \in Seq(Name) /\ Front(from) \in Seq(Name) /\ Last(from) \in Name
        /\ from = Append(Front(from), Last(from))
        /\ to \in Seq(Name) /\ Front(to) \in Seq(Name) /\ Last(to) \in Name
        /\ Len(to) = Len(Front(to)) + 1
    BY <1>3, PathIsNames
  <2>2. Leads(Front(from), fromDir) /\ Leads(Front(to), toDir) /\ InTree(toDir)
    BY <1>0, <1>3, ParentLeads, ParentInTree
  <2>3. Leads(from, node) /\ node \in Node
    BY <1>0, <1>3, <2>1, <2>2, LeadsOn
  <2>4. PICK D \in SUBSET Node :
              /\ node \in D /\ Closed(D)
              /\ \A d \in D, p \in Seq(Name) : Leads(p, d) => IsPrefix(from, p)
    BY <1>0, <1>3, <2>1, <2>3, BelowIsClosed
  <2>5. ~IsPrefix(from, Front(to))
    <3>. SUFFICES ASSUME IsPrefix(from, Front(to))  PROVE FALSE
      OBVIOUS
    <3>0. Len(to) = Len(Front(to)) + 1
      BY <2>1
    <3>1. Len(from) <= Len(Front(to)) /\ \A i \in 1..Len(from) : from[i] = Front(to)[i]
      BY <2>1, PrefixNames
    <3>2. Len(from) \in Nat /\ Len(Front(to)) \in Nat /\ Len(to) \in Nat
      BY <2>1, LenProperties
    <3>3. \A i \in 1..Len(to) - 1 : Front(to)[i] = to[i]
      BY <1>3, <2>1, FrontAndLast
    <3>4. Len(from) <= Len(to) /\ \A i \in 1..Len(from) : from[i] = to[i]
      BY <3>1, <3>2, <3>3, <3>0, SMTT(20)
    <3>5. IsPrefix(from, to)
      BY <2>1, <3>4, PrefixNames
    <3>6. from # to
      BY <2>1, <3>1, <3>2
    <3>. QED
      BY <1>2, <3>5, <3>6 DEF IsStrictPrefix
  <2>6. toDir \notin D
    BY <2>1, <2>2, <2>4, <2>5
  <2>7. Has(toDir, Last(to)) => DOMAIN children[there] = {}
    BY <1>0, <1>3 DEF Emptied, Tree, Has
  <2>. HIDE DEF fromDir, toDir
  <2>. QED
    BY <1>0, <1>3, <2>1, <2>2, <2>4, <2>6, <2>7, MovesKeepRooted
<1>. QED
  BY <1>0, <1>1, <1>3, KeepsKeepRooted

LEMMA InitTInv == Init => TInv
<1>. SUFFICES ASSUME Init  PROVE TInv
  OBVIOUS
<1>1. IInv
  BY InitIInv
<1>2. Entries(Node) = {}
  BY DEF Init, Entries, NoNames
<1>. QED
  BY <1>1, <1>2 DEF TInv, Rooted

LEMMA NextTInv == ASSUME ~MayNest  PROVE TInv /\ [Next]_vars => TInv'
<1>. SUFFICES ASSUME TInv, [Next]_vars  PROVE TInv'
  OBVIOUS
<1>1. IInv'
  BY NextIInv DEF TInv
<1>. SUFFICES Rooted'
  BY <1>1 DEF TInv
<1>2. CASE \E p \in Path : \E c, x, t, w \in BOOLEAN : Open(p, c, x, t, w)
  BY <1>2, OpenKeepsRooted
<1>3. CASE \E p \in Path : Mkdir(p)
  BY <1>3, MkdirKeepsRooted
<1>4. CASE \E p \in Path : Rmdir(p) \/ Unlink(p)
  BY <1>4, RemovalKeepsRooted
<1>5. CASE \E p, q \in Path : Rename(p, q)
  BY <1>5, RenameKeepsRooted
<1>6. CASE UNCHANGED children
  BY <1>6, KeepsKeepRooted DEF TInv
<1>. QED
  BY <1>2, <1>3, <1>4, <1>5, <1>6 DEF Next, Write, Truncate, ReadRefused, Throws, vars

\* Where no directory is moved below itself (which the model leaves to a run of its own),
\* what a directory lists has a path, whatever is removed, renamed and replaced.
THEOREM NothingIsOrphaned == ~MayNest /\ Spec => []NothingOrphaned
<1>. SUFFICES ASSUME ~MayNest  PROVE Spec => []NothingOrphaned
  OBVIOUS
<1>1. TInv => NothingOrphaned
  BY TInvTree, RootedIsLocated
<1>2. TInv /\ [Next]_vars => TInv'
  BY NextTInv
<1>. QED
  BY <1>1, <1>2, InitTInv, PTL DEF Spec

-----------------------------------------------------------------------------
(* The tree of names, in terms of the paths.                                 *)

Shown(n) == IF kind[n] = "directory" THEN "directory" ELSE n

\* A path leads to one node.
LEMMA OneEnd ==
    ASSUME Tree, NEW p \in Seq(Name), NEW m \in Node, NEW n \in Node, Leads(p, m), Leads(p, n)
    PROVE  m = n
BY LeadsLookup

\* The tree of names has the paths that lead somewhere, and shows what they lead to.
LEMMA ListingOf ==
    ASSUME Tree
    PROVE  /\ DOMAIN Listing = {p \in Seq(Name) : \E n \in Node : Leads(p, n)}
           /\ \A p \in Seq(Name) : \A n \in Node : Leads(p, n) => Listing[p] = Shown(n)
           /\ Listing = [p \in DOMAIN Listing |-> Listing[p]]
<1>. DEFINE D == {e.path : e \in Located}
<1>1. D = {p \in Seq(Name) : \E n \in Node : Leads(p, n)}
  <2>1. ASSUME NEW p \in D  PROVE p \in Seq(Name) /\ \E n \in Node : Leads(p, n)
    <3>1. PICK e \in Located : p = e.path
      OBVIOUS
    <3>2. e \in Places /\ Leads(e.path, e.node)
      BY LocatedLeads
    <3>. QED
      BY <3>1, <3>2 DEF Places
  <2>2. ASSUME NEW p \in Seq(Name), NEW n \in Node, Leads(p, n)  PROVE p \in D
    <3>. DEFINE e == [path |-> p, node |-> n]
    <3>1. e \in Places /\ e.path = p /\ e.node = n
      BY DEF Places
    <3>2. e \in Located
      BY <2>2, <3>1, LocatedLeads
    <3>. QED
      BY <3>1, <3>2
  <2>. QED
    BY <2>1, <2>2
<1>2. ASSUME NEW p \in Seq(Name), NEW n \in Node, Leads(p, n)
      PROVE  Listing[p] = Shown(n)
  <2>1. p \in D
    BY <1>1, <1>2
  <2>2. \E e \in Located : e.path = p
    BY <2>1
  <2>. DEFINE f == CHOOSE e \in Located : e.path = p
  <2>3. f \in Located /\ f.path = p
    BY <2>2
  <2>. HIDE DEF f
  <2>4. f \in Places /\ Leads(p, f.node)
    BY <2>3, LocatedLeads
  <2>5. f.node = n
    BY <1>2, <2>4, OneEnd DEF Places
  <2>6. Listing[p] = IF kind[f.node] = "directory" THEN "directory" ELSE f.node
    BY <2>1 DEF Listing, f
  <2>. QED
    BY <2>5, <2>6 DEF Shown
<1>3. DOMAIN Listing = D /\ Listing = [p \in DOMAIN Listing |-> Listing[p]]
  BY DEF Listing
<1>. QED
  BY <1>1, <1>2, <1>3

\* No node is taken for a directory.
LEMMA ShownDirectory ==
    ASSUME NEW n \in Node
    PROVE  Shown(n) = "directory" <=> kind[n] = "directory"
BY MemoryFsAssumption DEF Shown

\* What exists in the tree of names, and what is a directory there.
LEMMA ExistsLeads ==
    ASSUME Tree, NEW p \in Seq(Name)
    PROVE  /\ Contract!Exists(p) <=> \E n \in Node : Leads(p, n)
           /\ Contract!IsDir(p) <=> \E n \in Node : Leads(p, n) /\ kind[n] = "directory"
           /\ \A n \in Node : Leads(p, n) => (Contract!IsDir(p) <=> kind[n] = "directory")
<1>1. Contract!Exists(p) <=> \E n \in Node : Leads(p, n)
  BY ListingOf DEF Contract!Exists
<1>2. \A n \in Node : Leads(p, n) => (Contract!IsDir(p) <=> kind[n] = "directory")
  BY <1>1, ListingOf, ShownDirectory DEF Contract!IsDir
<1>. QED
  BY <1>1, <1>2 DEF Contract!IsDir

\* What lookup throws: ENOTDIR when there is a file on the way, ENOENT when there is not.
LEMMA LookupThrows ==
    ASSUME Tree, NEW path \in Seq(Name), Lookup(path) \notin Node
    PROVE  /\ ~\E n \in Node : Leads(path, n)
           /\ \/ /\ Lookup(path) = "ENOTDIR"
                 /\ \E i \in 0..Len(path) - 1 : \E n \in Node :
                       Leads(SubSeq(path, 1, i), n) /\ kind[n] # "directory"
              \/ /\ Lookup(path) = "ENOENT"
                 /\ \A i \in 0..Len(path) : \A n \in Node :
                       Leads(SubSeq(path, 1, i), n) => kind[n] = "directory"
<1>. DEFINE k == Len(path)
<1>1. PICK at \in [0..k -> Node \union Errno] :
         /\ at[0] = RootDir
         /\ \A i \in 1..k : at[i] = Descend(at[i - 1], path[i])
         /\ Lookup(path) = at[k]
  BY LookupTurns
<1>2. k \in Nat
  BY LenProperties
<1>3. ~\E n \in Node : Leads(path, n)
  BY LeadsLookup
<1>. DEFINE p(i) == SubSeq(path, 1, i)
            File(i) == \E j \in 0..i - 1 : \E n \in Node : Leads(p(j), n) /\ kind[n] # "directory"
            OnlyDirs(i) == \A j \in 0..i : \A n \in Node : Leads(p(j), n) => kind[n] = "directory"
            S == {i \in Nat : i <= k =>
                    \/ at[i] \in Node /\ Leads(p(i), at[i])
                       /\ \A j \in 0..i - 1 : \A n \in Node : Leads(p(j), n) => kind[n] = "directory"
                    \/ at[i] = "ENOTDIR" /\ File(i)
                    \/ at[i] = "ENOENT" /\ OnlyDirs(i) /\ ~\E n \in Node : Leads(p(i), n)}
<1>4. \A i \in 0..k : p(i) \in Seq(Name) /\ Len(p(i)) = i
  BY <1>2, SubSeqProperties, ElementOfSeq
<1>5. \A i \in 0..k - 1 : p(i + 1) = Append(p(i), path[i + 1]) /\ path[i + 1] \in Name
  <2>. SUFFICES ASSUME NEW i \in 0..k - 1
                PROVE  p(i + 1) = Append(p(i), path[i + 1]) /\ path[i + 1] \in Name
    OBVIOUS
  <2>1. i + 1 \in 1..k
    BY <1>2
  <2>2. path[i + 1] \in Name
    BY <2>1, ElementOfSeq
  <2>. QED
    BY <2>1, <2>2, <1>2
<1>. HIDE DEF k, p
<1>6. ASSUME NEW i \in 0..k - 1, NEW n \in Node, Leads(p(i + 1), n)
      PROVE  \E d \in Node : Leads(p(i), d) /\ Has(d, path[i + 1]) /\ n = children[d][path[i + 1]]
  <2>1. i + 1 \in 0..k /\ i \in 0..k
    BY <1>2
  <2>2. p(i + 1) \in Seq(Name) /\ p(i + 1) # << >> /\ p(i) \in Seq(Name)
    BY <1>4, <1>5, <2>1
  <2>3. Front(p(i + 1)) = p(i) /\ Last(p(i + 1)) = path[i + 1]
    <3>2. /\ p(i + 1) = Append(Front(p(i + 1)), Last(p(i + 1)))
          /\ Front(p(i + 1)) \in Seq(Name) /\ Last(p(i + 1)) \in Name
      BY <2>2, FrontAndLast
    <3>3. /\ Append(p(i), path[i + 1]) = Append(Front(p(i + 1)), Last(p(i + 1)))
          /\ path[i + 1] \in Name
      BY <1>5, <3>2
    <3>. QED
      BY <2>2, <3>2, <3>3, AppendInjective
  <2>. QED
    BY <1>6, <2>2, <2>3, LeadsBack
<1>7. 0 \in S
  <2>1. p(0) = << >>
    BY DEF p
  <2>. QED
    BY <1>1, <2>1, RootLeads, MemoryFsAssumption
<1>8. ASSUME NEW i \in Nat, i \in S  PROVE i + 1 \in S
  <2>. SUFFICES ASSUME i + 1 <= k
                PROVE  \/ at[i + 1] \in Node /\ Leads(p(i + 1), at[i + 1])
                          /\ \A j \in 0..i : \A n \in Node :
                                Leads(p(j), n) => kind[n] = "directory"
                       \/ at[i + 1] = "ENOTDIR" /\ File(i + 1)
                       \/ /\ at[i + 1] = "ENOENT" /\ OnlyDirs(i + 1)
                          /\ ~\E n \in Node : Leads(p(i + 1), n)
    BY <1>2
  <2>1. i + 1 \in 1..k /\ (i + 1) - 1 = i /\ i \in 0..k - 1 /\ i \in 0..k /\ i <= k
    BY <1>2
  <2>2. at[i + 1] = Descend(at[i], path[i + 1])
    BY <1>1, <2>1
  <2>3. CASE at[i] = "ENOTDIR" /\ File(i)
    <3>1. at[i + 1] = "ENOTDIR"
      BY <2>2, <2>3 DEF Descend, Errno
    <3>2. File(i + 1)
      BY <2>1, <2>3
    <3>. QED
      BY <3>1, <3>2
  <2>4. CASE at[i] = "ENOENT" /\ OnlyDirs(i) /\ ~\E n \in Node : Leads(p(i), n)
    <3>1. at[i + 1] = "ENOENT"
      BY <2>2, <2>4 DEF Descend, Errno
    <3>2. ~\E n \in Node : Leads(p(i + 1), n)
      BY <1>6, <2>1, <2>4
    <3>3. OnlyDirs(i + 1)
      BY <2>1, <2>4, <3>2
    <3>. QED
      BY <3>1, <3>2, <3>3
  <2>5. CASE /\ at[i] \in Node /\ Leads(p(i), at[i])
             /\ \A j \in 0..i - 1 : \A n \in Node : Leads(p(j), n) => kind[n] = "directory"
    <3>1. at[i] \notin Errno /\ p(i) \in Seq(Name)
      BY <1>4, <2>1, <2>5, MemoryFsAssumption
    <3>2. CASE kind[at[i]] # "directory"
      <4>1. at[i + 1] = "ENOTDIR"
        BY <2>2, <3>1, <3>2 DEF Descend
      <4>2. File(i + 1)
        BY <2>1, <2>5, <3>2
      <4>. QED
        BY <4>1, <4>2
    <3>3. CASE kind[at[i]] = "directory"
      <4>1. \A j \in 0..i : \A n \in Node : Leads(p(j), n) => kind[n] = "directory"
        <5>1. \A n \in Node : Leads(p(i), n) => n = at[i]
          BY <2>5, <3>1, OneEnd
        <5>. QED
          BY <2>1, <2>5, <3>3, <5>1
      <4>2. CASE Has(at[i], path[i + 1])
        <5>1. at[i + 1] = children[at[i]][path[i + 1]]
          BY <2>2, <3>1, <3>3, <4>2 DEF Descend, Has
        <5>2. Leads(p(i + 1), at[i + 1]) /\ at[i + 1] \in Node
          <6>1. p(i + 1) = Append(p(i), path[i + 1])
            BY <1>5, <2>1
          <6>. QED
            BY <2>5, <3>1, <4>2, <5>1, <6>1, LeadsOn
        <5>. QED
          BY <4>1, <5>2
      <4>3. CASE ~Has(at[i], path[i + 1])
        <5>1. at[i + 1] = "ENOENT"
          BY <2>2, <3>1, <3>3, <4>3 DEF Descend, Has
        <5>2. ~\E n \in Node : Leads(p(i + 1), n)
          <6>. SUFFICES ASSUME NEW n \in Node, Leads(p(i + 1), n)  PROVE FALSE
            OBVIOUS
          <6>1. PICK d \in Node : Leads(p(i), d) /\ Has(d, path[i + 1])
            BY <1>6, <2>1
          <6>. QED
            BY <2>5, <3>1, <4>3, <6>1, OneEnd
        <5>3. OnlyDirs(i + 1)
          BY <2>1, <4>1, <5>2
        <5>. QED
          BY <5>1, <5>2, <5>3
      <4>. QED
        BY <4>2, <4>3
    <3>. QED
      BY <3>2, <3>3
  <2>. HIDE DEF File, OnlyDirs
  <2>. QED
    BY <1>8, <2>1, <2>3, <2>4, <2>5
<1>. HIDE DEF S
<1>9. k \in S
  BY <1>2, <1>7, <1>8, NatSetInduction
<1>10. at[k] \notin Node
  BY <1>1
<1>11. \/ at[k] = "ENOTDIR" /\ File(k)
       \/ at[k] = "ENOENT" /\ OnlyDirs(k)
  BY <1>2, <1>9, <1>10 DEF S
<1>. QED
  BY <1>1, <1>3, <1>11 DEF k, p

\* FileTree has the operators on sequences under names of its own.
LEMMA SameOperators ==
    ASSUME NEW p, NEW q
    PROVE  /\ Contract!Front(p) = Front(p)
           /\ Contract!IsPrefix(p, q) <=> IsPrefix(p, q)
           /\ Contract!IsStrictPrefix(p, q) <=> IsStrictPrefix(p, q)
BY DEF Contract!Front, Front, Contract!IsPrefix, IsPrefix, Contract!IsStrictPrefix, IsStrictPrefix

\* A path begins with a shorter one when its first names are that.
LEMMA StrictPrefix ==
    ASSUME NEW S, NEW s \in Seq(S), NEW t \in Seq(S)
    PROVE  IsStrictPrefix(s, t) <=> Len(s) < Len(t) /\ s = SubSeq(t, 1, Len(s))
<1>1. Len(s) \in Nat /\ Len(t) \in Nat
  BY LenProperties
<1>2. SubSeq(s, 1, Len(s)) = s /\ SubSeq(t, 1, Len(t)) = t
  BY SubSeqFull
<1>. QED
  BY <1>1, <1>2 DEF IsStrictPrefix, IsPrefix

\* What a path goes through are directories that list the next name.
LEMMA OnTheWay ==
    ASSUME Tree, NEW p \in Seq(Name), NEW n \in Node, Leads(p, n),
           NEW i \in 0..Len(p) - 1
    PROVE  \E d \in Node : Leads(SubSeq(p, 1, i), d) /\ Has(d, p[i + 1]) /\ kind[d] = "directory"
<1>1. Len(p) \in Nat
  BY LenProperties
<1>2. PICK w \in [0..Len(p) -> Node] : IsWalk(p, w)
  BY DEF Leads
<1>3. i \in 0..Len(p) /\ i + 1 \in 1..Len(p) /\ (i + 1) - 1 = i
  BY <1>1
<1>4. Leads(SubSeq(p, 1, i), w[i])
  BY <1>2, <1>3, LeadsVia
<1>5. Has(w[i], p[i + 1]) /\ w[i] \in Node
  BY <1>2, <1>3 DEF IsWalk
<1>6. kind[w[i]] = "directory"
  BY <1>5 DEF Tree, Has
<1>. QED
  BY <1>4, <1>5, <1>6

\* Nothing is below a path when its node lists nothing.
LEMMA EmptyLists ==
    ASSUME Tree, NEW p \in Seq(Name), NEW n \in Node, Leads(p, n)
    PROVE  Contract!Empty(p) <=> DOMAIN children[n] = {}
<1>1. ASSUME NEW q \in DOMAIN Listing, IsStrictPrefix(p, q)  PROVE DOMAIN children[n] # {}
  <2>1. q \in Seq(Name) /\ \E x \in Node : Leads(q, x)
    BY ListingOf
  <2>2. Len(p) < Len(q) /\ p = SubSeq(q, 1, Len(p)) /\ Len(p) \in Nat /\ Len(q) \in Nat
    BY <1>1, <2>1, StrictPrefix, LenProperties
  <2>3. Len(p) \in 0..Len(q) - 1
    BY <2>2
  <2>4. PICK d \in Node : Leads(p, d) /\ Has(d, q[Len(p) + 1])
    BY <2>1, <2>2, <2>3, OnTheWay
  <2>5. d = n
    BY <2>4, OneEnd
  <2>. QED
    BY <2>4, <2>5 DEF Has
<1>2. ASSUME NEW m \in DOMAIN children[n]
      PROVE  \E q \in DOMAIN Listing : IsStrictPrefix(p, q)
  <2>. DEFINE q == Append(p, m)
  <2>1. Leads(q, children[n][m]) /\ m \in Name /\ q \in Seq(Name) /\ children[n][m] \in Node
    BY LeadsOn DEF Has
  <2>2. q \in DOMAIN Listing
    BY <2>1, ListingOf
  <2>3. Len(q) = Len(p) + 1 /\ \A i \in 1..Len(p) : q[i] = p[i]
    BY <2>1, AppendProperties
  <2>. HIDE DEF q
  <2>4. Len(p) \in Nat /\ Len(q) \in Nat
    BY <2>1, LenProperties
  <2>5. IsPrefix(p, q)
    BY <2>1, <2>3, <2>4, PrefixNames
  <2>6. p # q
    BY <2>3, <2>4
  <2>. QED
    BY <2>2, <2>5, <2>6 DEF IsStrictPrefix
<1>. QED
  BY <1>1, <1>2, SameOperators DEF Contract!Empty

\* Nothing is wrong with the parent that parentDir answers.
LEMMA NoParentErrors ==
    ASSUME Tree, NEW path \in Path, path # << >>, ParentDir(path) \in Node
    PROVE  Contract!ParentErrors(path) = {}
<1>1. /\ path \in Seq(Name) /\ Front(path) \in Seq(Name)
      /\ Len(path) = Len(Front(path)) + 1 /\ Len(Front(path)) \in Nat
      /\ \A i \in 1..Len(Front(path)) : Front(path)[i] = path[i]
  <2>1. path \in Seq(Name) /\ Front(path) \in Seq(Name)
    BY PathIsNames
  <2>. QED
    BY <2>1, FrontAndLast, LenProperties
<1>. DEFINE dir == ParentDir(path)
<1>2. Leads(Front(path), dir) /\ kind[dir] = "directory"
  BY ParentLeads
<1>3. Contract!IsDir(Front(path))
  BY <1>1, <1>2, ExistsLeads
<1>4. ASSUME NEW q \in DOMAIN Listing, IsStrictPrefix(q, path)  PROVE Contract!IsDir(q)
  <2>1. q \in Seq(Name)
    BY ListingOf
  <2>2. Len(q) < Len(path) /\ Len(q) \in Nat
    BY <1>1, <1>4, <2>1, StrictPrefix, LenProperties
  <2>3. IsPrefix(q, path)
    BY <1>4 DEF IsStrictPrefix
  <2>4. \A i \in 1..Len(q) : q[i] = Front(path)[i]
    BY <1>1, <2>1, <2>2, <2>3, PrefixNames
  <2>5. IsPrefix(q, Front(path))
    BY <1>1, <2>1, <2>2, <2>4, PrefixNames
  <2>6. CASE q = Front(path)
    BY <1>3, <2>6
  <2>7. CASE q # Front(path)
    <3>1. q = SubSeq(Front(path), 1, Len(q)) /\ Len(q) < Len(Front(path))
      BY <1>1, <2>1, <2>5, <2>7, StrictPrefix DEF IsStrictPrefix
    <3>2. Len(q) \in 0..Len(Front(path)) - 1
      BY <1>1, <2>2, <3>1
    <3>3. \E d \in Node : Leads(q, d) /\ kind[d] = "directory"
      BY <1>1, <1>2, <3>1, <3>2, OnTheWay
    <3>. QED
      BY <2>1, <3>3, ExistsLeads
  <2>. QED
    BY <2>6, <2>7
<1>5. ~\E q \in DOMAIN Listing : IsStrictPrefix(q, path) /\ ~Contract!IsDir(q)
  BY <1>4
<1>. QED
  BY <1>3, <1>5, SameOperators DEF Contract!ParentErrors

\* What parentDir throws is what is wrong with the parent.
LEMMA ParentErrorIs ==
    ASSUME Tree, NEW path \in Path, path # << >>, ParentDir(path) \in Errno
    PROVE  Contract!ParentErrors(path) = {ParentDir(path)}
<1>. DEFINE up == Front(path)
<1>1. /\ path \in Seq(Name) /\ up \in Seq(Name)
      /\ Len(path) = Len(up) + 1 /\ Len(up) \in Nat
      /\ \A i \in 1..Len(up) : up[i] = path[i]
  <2>1. path \in Seq(Name) /\ up \in Seq(Name)
    BY PathIsNames
  <2>. QED
    BY <2>1, FrontAndLast, LenProperties
<1>. HIDE DEF up
<1>2. ASSUME NEW q \in Seq(Name), IsPrefix(q, up)  PROVE IsStrictPrefix(q, path)
  <2>1. Len(q) <= Len(up) /\ (\A i \in 1..Len(q) : q[i] = up[i]) /\ Len(q) \in Nat
    BY <1>1, <1>2, PrefixNames, LenProperties
  <2>2. IsPrefix(q, path)
    <3>1. \A i \in 1..Len(q) : q[i] = path[i]
      BY <1>1, <2>1
    <3>2. Len(q) <= Len(path)
      BY <1>1, <2>1
    <3>. QED
      BY <1>1, <3>1, <3>2, PrefixNames
  <2>3. q # path
    BY <1>1, <2>1
  <2>. QED
    BY <2>2, <2>3 DEF IsStrictPrefix
<1>3. ASSUME NEW q \in Seq(Name), IsStrictPrefix(q, path)
      PROVE  Len(q) \in 0..Len(up) /\ q = SubSeq(up, 1, Len(q))
  <2>1. Len(q) < Len(path) /\ Len(q) \in Nat /\ IsPrefix(q, path)
    BY <1>1, <1>3, StrictPrefix, LenProperties DEF IsStrictPrefix
  <2>2. \A i \in 1..Len(q) : q[i] = path[i]
    BY <1>1, <2>1, PrefixNames
  <2>3. \A i \in 1..Len(q) : q[i] = up[i]
    BY <1>1, <2>1, <2>2
  <2>4. IsPrefix(q, up)
    BY <1>1, <2>1, <2>3, PrefixNames
  <2>5. SubSeq(q, 1, Len(q)) = q
    BY SubSeqFull
  <2>. QED
    BY <1>1, <2>1, <2>4, <2>5 DEF IsPrefix
<1>4. CASE Lookup(up) \in Node
  <2>1. ParentDir(path) = "ENOTDIR" /\ kind[Lookup(up)] # "directory"
    BY <1>4, MemoryFsAssumption DEF ParentDir, up
  <2>2. Leads(up, Lookup(up))
    BY <1>1, <1>4, LookupLeads
  <2>3. ~Contract!IsDir(up) /\ up \in DOMAIN Listing
    BY <1>1, <1>4, <2>1, <2>2, ExistsLeads, ListingOf
  <2>4. IsPrefix(up, up)
    BY <1>1, PrefixNames
  <2>5. IsStrictPrefix(up, path)
    BY <1>1, <1>2, <2>4
  <2>6. \E q \in DOMAIN Listing : IsStrictPrefix(q, path) /\ ~Contract!IsDir(q)
    BY <2>3, <2>5
  <2>7. Contract!ParentErrors(path) = {"ENOTDIR"}
    BY <2>3, <2>6, SameOperators DEF Contract!ParentErrors, up
  <2>. QED
    BY <2>1, <2>7
<1>5. CASE Lookup(up) \notin Node
  <2>0. ParentDir(path) = Lookup(up)
    BY <1>5 DEF ParentDir, up
  <2>1. ~Contract!IsDir(up)
    BY <1>1, <1>5, LookupThrows, ExistsLeads
  <2>2. CASE /\ Lookup(up) = "ENOTDIR"
             /\ \E i \in 0..Len(up) - 1 : \E n \in Node :
                   Leads(SubSeq(up, 1, i), n) /\ kind[n] # "directory"
    <3>1. PICK i \in 0..Len(up) - 1, n \in Node :
             Leads(SubSeq(up, 1, i), n) /\ kind[n] # "directory"
      BY <2>2
    <3>. DEFINE q == SubSeq(up, 1, i)
    <3>2. i \in Int /\ 1 \in Int /\ i <= Len(up)
      BY <1>1
    <3>3. \A j \in 1..i : up[j] \in Name /\ j \in 1..Len(up)
      BY <1>1, <3>2, ElementOfSeq
    <3>4. q \in Seq(Name) /\ Len(q) = i /\ \A j \in 1..i : q[j] = up[j]
      <4>1. q \in Seq(Name) /\ Len(q) = (IF 1 <= i THEN i - 1 + 1 ELSE 0)
            /\ \A j \in 1..i - 1 + 1 : q[j] = up[1 + j - 1]
        BY <3>2, <3>3, SubSeqProperties
      <4>. HIDE DEF q
      <4>. QED
        BY <1>1, <3>2, <4>1
    <3>. HIDE DEF q
    <3>5. IsPrefix(q, up)
      BY <1>1, <3>2, <3>4, PrefixNames
    <3>6. q \in DOMAIN Listing /\ ~Contract!IsDir(q)
      BY <3>1, <3>4, ListingOf, ExistsLeads DEF q
    <3>7. \E r \in DOMAIN Listing : IsStrictPrefix(r, path) /\ ~Contract!IsDir(r)
      BY <1>2, <3>4, <3>5, <3>6
    <3>8. Contract!ParentErrors(path) = {"ENOTDIR"}
      BY <2>1, <3>7, SameOperators DEF Contract!ParentErrors, up
    <3>. QED
      BY <2>0, <2>2, <3>8
  <2>3. CASE /\ Lookup(up) = "ENOENT"
             /\ \A i \in 0..Len(up) : \A n \in Node :
                   Leads(SubSeq(up, 1, i), n) => kind[n] = "directory"
    <3>1. ASSUME NEW q \in DOMAIN Listing, IsStrictPrefix(q, path)  PROVE Contract!IsDir(q)
      <4>1. q \in Seq(Name)
        BY ListingOf
      <4>2. PICK n \in Node : Leads(q, n)
        BY ListingOf
      <4>3. Len(q) \in 0..Len(up) /\ q = SubSeq(up, 1, Len(q))
        BY <1>3, <3>1, <4>1
      <4>4. kind[n] = "directory"
        BY <2>3, <4>2, <4>3
      <4>. QED
        BY <4>1, <4>2, <4>4, ExistsLeads
    <3>2. ~\E q \in DOMAIN Listing : IsStrictPrefix(q, path) /\ ~Contract!IsDir(q)
      BY <3>1
    <3>3. Contract!ParentErrors(path) = {"ENOENT"}
      BY <2>1, <3>2, SameOperators DEF Contract!ParentErrors, up
    <3>. QED
      BY <2>0, <2>3, <3>3
  <2>. QED
    BY <1>1, <1>5, <2>2, <2>3, LookupThrows
<1>. QED
  BY <1>4, <1>5

\* The entry a path names, and what the tree says of the path.
LEMMA EntryIs ==
    ASSUME Tree, NEW path \in Path, path # << >>, ParentDir(path) \in Node,
           Has(ParentDir(path), Last(path))
    PROVE  /\ Leads(path, children[ParentDir(path)][Last(path)])
           /\ children[ParentDir(path)][Last(path)] \in Node
<1>1. /\ path \in Seq(Name) /\ Front(path) \in Seq(Name)
      /\ path = Append(Front(path), Last(path))
  BY PathIsNames
<1>2. Leads(Front(path), ParentDir(path))
  BY ParentLeads
<1>. QED
  BY <1>1, <1>2, LeadsOn

\* A path whose directory does not list its name leads nowhere.
LEMMA NoEntry ==
    ASSUME Tree, NEW path \in Path, path # << >>, ParentDir(path) \in Node,
           ~Has(ParentDir(path), Last(path))
    PROVE  ~\E n \in Node : Leads(path, n)
<1>. SUFFICES ASSUME NEW n \in Node, Leads(path, n)  PROVE FALSE
  OBVIOUS
<1>1. path \in Seq(Name) /\ Front(path) \in Seq(Name)
  BY PathIsNames
<1>2. PICK d \in Node : Leads(Front(path), d) /\ Has(d, Last(path))
  BY <1>1, LeadsBack
<1>3. d = ParentDir(path)
  BY <1>1, <1>2, ParentLeads, OneEnd
<1>. QED
  BY <1>2, <1>3

-----------------------------------------------------------------------------
(* What is known of paths, in one state and in the next.                     *)

PathLaws ==
    Tree =>
        /\ Leads(<< >>, RootDir) /\ \A n \in Node : Leads(<< >>, n) => n = RootDir
        /\ \A p \in Seq(Name) : \A d \in Node : \A m :
              Leads(p, d) /\ Has(d, m) => Leads(Append(p, m), children[d][m])
        /\ \A p \in Seq(Name) : \A n \in Node :
              Leads(p, n) /\ p # << >> =>
                 \E d \in Node : Leads(Front(p), d) /\ Has(d, Last(p)) /\ n = children[d][Last(p)]

\* They hold in every state, and so in the next.
LEMMA PathLawsHold == PathLaws
<1>1. ASSUME NEW n \in Node, Leads(<< >>, n)  PROVE n = RootDir
  BY <1>1 DEF Leads, IsWalk
<1>. QED
  BY <1>1, RootLeads, LeadsOn, LeadsBack DEF PathLaws

LEMMA PathLawsHoldNext == PathLaws'
BY PathLawsHold, PTL

ListingLaws ==
    Tree =>
        /\ DOMAIN Listing = {p \in Seq(Name) : \E n \in Node : Leads(p, n)}
        /\ \A p \in Seq(Name) : \A n \in Node : Leads(p, n) => Listing[p] = Shown(n)
        /\ Listing = [p \in DOMAIN Listing |-> Listing[p]]

\* The tree of names likewise.
LEMMA ListingLawsHold == ListingLaws
BY ListingOf DEF ListingLaws

LEMMA ListingLawsHoldNext == ListingLaws'
BY ListingLawsHold, PTL

\* The laws of paths, of the next state.
LEMMA NextRoot ==
    ASSUME Tree'
    PROVE  Leads(<< >>, RootDir)' /\ \A n \in Node : Leads(<< >>, n)' => n = RootDir
BY PathLawsHoldNext DEF PathLaws

LEMMA NextOn ==
    ASSUME Tree', NEW p \in Seq(Name), NEW d \in Node, NEW m, Leads(p, d)', Has(d, m)',
           NEW n, n = children'[d][m]
    PROVE  Leads(Append(p, m), n)'
<1>1. (Leads(Append(p, m), children[d][m]))'
  BY PathLawsHoldNext DEF PathLaws
<1>. QED
  BY <1>1

LEMMA NextBack ==
    ASSUME Tree', NEW p \in Seq(Name), NEW n \in Node, Leads(p, n)', p # << >>
    PROVE  \E d \in Node : Leads(Front(p), d)' /\ Has(d, Last(p))' /\ n = children'[d][Last(p)]
BY PathLawsHoldNext DEF PathLaws

\* A path is empty or goes on from its directory's.
LEMMA EmptyOrOn ==
    ASSUME NEW r \in Seq(Name)
    PROVE  \/ r = << >>
           \/ /\ r # << >> /\ Front(r) \in Seq(Name) /\ Last(r) \in Name
              /\ r = Append(Front(r), Last(r)) /\ Len(r) = Len(Front(r)) + 1
BY FrontAndLast, LenProperties

-----------------------------------------------------------------------------
(* What becomes of the paths.                                                *)

\* A new entry adds one path.
LEMMA AddsLeads ==
    ASSUME Tree, Tree', NEW q \in Seq(Name), NEW dir \in Node, Leads(q, dir),
           NEW name \in Name, ~Has(dir, name), kind[dir] = "directory",
           NEW fresh \in Node, NEW type, Makes(dir, name, fresh, type)
    PROVE  \A r \in Seq(Name) : \A n \in Node :
              Leads(r, n)' <=> Leads(r, n) \/ (r = Append(q, name) /\ n = fresh)
<1>. DEFINE p == Append(q, name)
            S == {k \in Nat : \A r \in Seq(Name) : \A n \in Node : Len(r) = k =>
                    (Leads(r, n)' <=> Leads(r, n) \/ (r = p /\ n = fresh))}
<1>1. p \in Seq(Name) /\ p # << >> /\ Len(p) = Len(q) + 1 /\ Len(q) \in Nat
  BY AppendProperties, LenProperties
<1>2. /\ name \in DOMAIN children'[dir] /\ children'[dir][name] = fresh
      /\ \A d \in Node : \A m \in DOMAIN children'[d] :
            \/ m \in DOMAIN children[d] /\ children'[d][m] = children[d][m]
            \/ d = dir /\ m = name
      /\ \A d \in Node : \A m \in DOMAIN children[d] :
            m \in DOMAIN children'[d] /\ children'[d][m] = children[d][m]
  BY DEF Makes, With, Has, Tree
<1>3. DOMAIN children'[fresh] = {}
  BY DEF Makes, Tree
<1>4. 0 \in S
  BY <1>1, NextRoot, PathLawsHold, EmptySeq DEF PathLaws
<1>5. ASSUME NEW k \in Nat, k \in S  PROVE k + 1 \in S
  <2>. SUFFICES ASSUME NEW r \in Seq(Name), NEW n \in Node, Len(r) = k + 1
                PROVE  Leads(r, n)' <=> Leads(r, n) \/ (r = p /\ n = fresh)
    OBVIOUS
  <2>. DEFINE f == Front(r)
              m == Last(r)
  <2>1. r # << >> /\ f \in Seq(Name) /\ m \in Name /\ r = Append(f, m) /\ Len(f) = k
    BY EmptyOrOn, EmptySeq, LenProperties
  <2>2. \A d \in Node : Leads(f, d)' <=> Leads(f, d) \/ (f = p /\ d = fresh)
    BY <1>5, <2>1
  <2>. HIDE DEF S, p, f, m
  <2>3. ASSUME Leads(r, n)'  PROVE Leads(r, n) \/ (r = p /\ n = fresh)
    <3>1. PICK d \in Node : Leads(f, d)' /\ Has(d, m)' /\ n = children'[d][m]
      BY <2>1, <2>3, NextBack DEF f, m
    <3>2. Has(d, m)' <=> m \in DOMAIN children'[d]
      BY DEF Has
    <3>3. d # fresh
      BY <1>3, <3>1, <3>2
    <3>4. Leads(f, d)
      BY <2>2, <3>1, <3>3
    <3>5. CASE m \in DOMAIN children[d] /\ children'[d][m] = children[d][m]
      <4>1. Leads(Append(f, m), children[d][m])
        BY <2>1, <3>4, <3>5, LeadsOn DEF Has
      <4>. QED
        BY <2>1, <3>1, <3>5, <4>1
    <3>6. CASE d = dir /\ m = name
      <4>1. f = q
        BY <2>1, <3>4, <3>6, OnePath
      <4>. QED
        BY <1>2, <2>1, <3>1, <3>6, <4>1 DEF p
    <3>. QED
      BY <1>2, <3>1, <3>2, <3>5, <3>6
  <2>4. ASSUME Leads(r, n)  PROVE Leads(r, n)'
    <3>1. PICK d \in Node : Leads(f, d) /\ Has(d, m) /\ n = children[d][m]
      BY <2>1, <2>4, LeadsBack DEF f, m
    <3>2. Has(d, m)' /\ n = children'[d][m]
      BY <1>2, <3>1 DEF Has
    <3>3. Leads(f, d)'
      BY <2>2, <3>1
    <3>. QED
      BY <2>1, <3>2, <3>3, NextOn
  <2>5. ASSUME r = p, n = fresh  PROVE Leads(r, n)'
    <3>1. f = q /\ m = name
      <4>1. Append(f, m) = Append(q, name)
        BY <2>1, <2>5 DEF p
      <4>. QED
        BY <2>1, <4>1, AppendInjective
    <3>2. Leads(q, dir)' /\ Has(dir, name)' /\ fresh = children'[dir][name]
      BY <1>2, <2>2, <3>1 DEF Has
    <3>3. Leads(Append(q, name), fresh)'
      BY <3>2, NextOn
    <3>. QED
      BY <2>5, <3>3 DEF p
  <2>. QED
    BY <2>3, <2>4, <2>5
<1>. HIDE DEF S
<1>6. \A k \in Nat : k \in S
  BY <1>4, <1>5, NatSetInduction
<1>. QED
  BY <1>6, LenProperties DEF S

\* An entry of what lists nothing takes one path away.
LEMMA RemovesLeads ==
    ASSUME Tree, Tree', NEW q \in Seq(Name), NEW dir \in Node, Leads(q, dir),
           NEW name \in Name, Has(dir, name), DOMAIN children[children[dir][name]] = {},
           children' = [children EXCEPT ![dir] = Without(@, name)]
    PROVE  \A r \in Seq(Name) : \A n \in Node :
              Leads(r, n)' <=> Leads(r, n) /\ r # Append(q, name)
<1>. DEFINE p == Append(q, name)
            S == {k \in Nat : \A r \in Seq(Name) : \A n \in Node : Len(r) = k =>
                    (Leads(r, n)' <=> Leads(r, n) /\ r # p)}
<1>1. p \in Seq(Name) /\ p # << >> /\ Len(p) = Len(q) + 1 /\ Len(q) \in Nat
  BY AppendProperties, LenProperties
<1>2. \A d \in Node : \A m : Has(d, m)' <=> Has(d, m) /\ ~(d = dir /\ m = name)
  BY DEF Without, Has, Tree
<1>3. \A d \in Node : \A m : Has(d, m)' => children'[d][m] = children[d][m]
  BY DEF Without, Has, Tree
<1>4. 0 \in S
  BY <1>1, NextRoot, PathLawsHold, EmptySeq DEF PathLaws
<1>5. ASSUME NEW k \in Nat, k \in S  PROVE k + 1 \in S
  <2>. SUFFICES ASSUME NEW r \in Seq(Name), NEW n \in Node, Len(r) = k + 1
                PROVE  Leads(r, n)' <=> Leads(r, n) /\ r # p
    OBVIOUS
  <2>. DEFINE f == Front(r)
              m == Last(r)
  <2>1. r # << >> /\ f \in Seq(Name) /\ m \in Name /\ r = Append(f, m) /\ Len(f) = k
    BY EmptyOrOn, EmptySeq, LenProperties
  <2>2. \A d \in Node : Leads(f, d)' <=> Leads(f, d) /\ f # p
    BY <1>5, <2>1
  <2>. HIDE DEF S, p, f, m
  <2>3. ASSUME Leads(r, n)'  PROVE Leads(r, n) /\ r # p
    <3>1. PICK d \in Node : Leads(f, d)' /\ Has(d, m)' /\ n = children'[d][m]
      BY <2>1, <2>3, NextBack DEF f, m
    <3>2. Leads(f, d) /\ Has(d, m) /\ ~(d = dir /\ m = name) /\ n = children[d][m]
      BY <1>2, <1>3, <2>2, <3>1
    <3>3. Leads(r, n)
      BY <2>1, <3>2, LeadsOn
    <3>4. r # p
      <4>. SUFFICES ASSUME r = p  PROVE FALSE
        OBVIOUS
      <4>1. f = q /\ m = name
        <5>1. Append(f, m) = Append(q, name) /\ name \in Name
          BY <2>1 DEF p, Has, Tree
        <5>. QED
          BY <2>1, <5>1, AppendInjective
      <4>2. d = dir
        BY <3>2, <4>1, OneEnd
      <4>. QED
        BY <3>2, <4>1, <4>2
    <3>. QED
      BY <3>3, <3>4
  <2>4. ASSUME Leads(r, n), r # p  PROVE Leads(r, n)'
    <3>1. PICK d \in Node : Leads(f, d) /\ Has(d, m) /\ n = children[d][m]
      BY <2>1, <2>4, LeadsBack DEF f, m
    <3>2. f # p
      <4>. SUFFICES ASSUME f = p  PROVE FALSE
        OBVIOUS
      <4>1. Leads(p, children[dir][name]) /\ children[dir][name] \in Node
        BY LeadsOn DEF p
      <4>2. d = children[dir][name]
        BY <1>1, <3>1, <4>1, OneEnd
      <4>. QED
        BY <3>1, <4>2 DEF Has
    <3>3. ~(d = dir /\ m = name)
      <4>. SUFFICES ASSUME d = dir, m = name  PROVE FALSE
        OBVIOUS
      <4>1. f = q
        BY <2>1, <3>1, OnePath
      <4>. QED
        BY <2>1, <2>4, <4>1 DEF p
    <3>4. Has(d, m)' /\ n = children'[d][m] /\ Leads(f, d)'
      BY <1>2, <1>3, <2>2, <3>1, <3>2, <3>3
    <3>. QED
      BY <2>1, <3>4, NextOn
  <2>. QED
    BY <2>3, <2>4
<1>. HIDE DEF S
<1>6. \A k \in Nat : k \in S
  BY <1>4, <1>5, NatSetInduction
<1>. QED
  BY <1>6, LenProperties DEF S

-----------------------------------------------------------------------------
(* What a rename makes of a path: below `to` it was below `from`.            *)

Was(from, to, r) == from \o SubSeq(r, Len(to) + 1, Len(r))

\* w is `from` and then what is left of r after its first b names.
Spliced(S, from, b, r, w) ==
    /\ w \in Seq(S)
    /\ Len(w) = Len(from) + (Len(r) - b)
    /\ \A i \in 1..Len(from) : w[i] = from[i]
    /\ \A j \in 1..Len(r) - b : w[Len(from) + j] = r[b + j]
    /\ IsPrefix(from, w)

\* The names of the path that was.
LEMMA WasNames ==
    ASSUME NEW S, NEW from \in Seq(S), NEW to \in Seq(S), NEW r \in Seq(S), IsPrefix(to, r)
    PROVE  Spliced(S, from, Len(to), r, Was(from, to, r))
<1>1. PICK a \in Nat, b \in Nat, c \in Nat : a = Len(from) /\ b = Len(to) /\ c = Len(r)
  BY LenProperties
<1>2. b <= c /\ \A i \in 1..b : to[i] = r[i]
  BY <1>1, PrefixNames
<1>. DEFINE t == SubSeq(r, b + 1, c)
<1>3. \A i \in b + 1..c : r[i] \in S
  BY <1>1, ElementOfSeq
<1>4. t \in Seq(S) /\ Len(t) = (IF b + 1 <= c THEN c - (b + 1) + 1 ELSE 0)
      /\ \A i \in 1..c - (b + 1) + 1 : t[i] = r[(b + 1) + i - 1]
  <2>1. b + 1 \in Int /\ c \in Int
    OBVIOUS
  <2>. QED
    BY <1>3, <2>1, SubSeqProperties, SMTT(20)
<1>. HIDE DEF t
<1>5. t \in Seq(S) /\ Len(t) = c - b /\ \A j \in 1..c - b : t[j] = r[b + j]
  <2>1. Len(t) = c - b
    BY <1>2, <1>4
  <2>2. ASSUME NEW j \in 1..c - b  PROVE t[j] = r[b + j]
    <3>1. j \in 1..c - (b + 1) + 1 /\ (b + 1) + j - 1 = b + j
      BY <1>2
    <3>. QED
      BY <1>4, <3>1
  <2>. QED
    BY <1>4, <2>1, <2>2
<1>6. Was(from, to, r) = from \o t
  BY <1>1 DEF Was, t
<1>7. /\ from \o t \in Seq(S)
      /\ Len(from \o t) = a + (c - b)
      /\ \A i \in 1..a + (c - b) : (from \o t)[i] = IF i <= a THEN from[i] ELSE t[i - a]
  <2>1. t \in Seq(S)
    BY <1>5
  <2>2. /\ from \o t \in Seq(S)
        /\ Len(from \o t) = Len(from) + Len(t)
        /\ \A i \in 1..Len(from) + Len(t) :
              (from \o t)[i] = IF i <= Len(from) THEN from[i] ELSE t[i - Len(from)]
    BY <2>1, ConcatProperties
  <2>3. Len(t) = c - b /\ Len(from) = a
    BY <1>1, <1>5
  <2>. QED
    BY <2>2, <2>3
<1>. DEFINE w == from \o t
<1>. HIDE DEF w
<1>8. /\ w \in Seq(S) /\ Len(w) = a + (c - b)
      /\ \A i \in 1..a + (c - b) : w[i] = IF i <= a THEN from[i] ELSE t[i - a]
  BY <1>7 DEF w
<1>9. \A i \in 1..a : w[i] = from[i]
  BY <1>2, <1>8
<1>10. \A j \in 1..c - b : w[a + j] = r[b + j]
  <2>. SUFFICES ASSUME NEW j \in 1..c - b  PROVE w[a + j] = r[b + j]
    OBVIOUS
  <2>1. a + j \in 1..a + (c - b) /\ ~(a + j <= a) /\ (a + j) - a = j
    BY <1>2
  <2>. QED
    BY <1>5, <1>8, <2>1
<1>11. IsPrefix(from, w)
  <2>1. a <= a + (c - b)
    BY <1>2
  <2>. QED
    BY <1>1, <1>8, <1>9, <2>1, PrefixNames
<1>. QED
  BY <1>1, <1>6, <1>8, <1>9, <1>10, <1>11 DEF w, Spliced

\* What a longer path begins with, the shorter begins with, or is all of it.
LEMMA PrefixOfAppend ==
    ASSUME NEW S, NEW s \in Seq(S), NEW f \in Seq(S), NEW m \in S
    PROVE  IsPrefix(s, Append(f, m)) <=> IsPrefix(s, f) \/ s = Append(f, m)
<1>. DEFINE r == Append(f, m)
<1>1. PICK a \in Nat, b \in Nat : a = Len(s) /\ b = Len(f)
  BY LenProperties
<1>2. r \in Seq(S) /\ Len(r) = b + 1 /\ (\A i \in 1..b : r[i] = f[i]) /\ r[b + 1] = m
  BY <1>1, AppendProperties
<1>. HIDE DEF r
<1>3. ASSUME IsPrefix(s, f)  PROVE IsPrefix(s, r)
  <2>1. a <= b /\ \A i \in 1..a : s[i] = f[i]
    BY <1>1, <1>3, PrefixNames
  <2>2. a <= b + 1 /\ \A i \in 1..a : s[i] = r[i]
    BY <1>2, <2>1
  <2>. QED
    BY <1>1, <1>2, <2>2, PrefixNames
<1>4. ASSUME s = r  PROVE IsPrefix(s, r)
  BY <1>1, <1>2, <1>4, PrefixNames
<1>5. ASSUME IsPrefix(s, r), ~IsPrefix(s, f)  PROVE s = r
  <2>1. a <= b + 1 /\ \A i \in 1..a : s[i] = r[i]
    BY <1>1, <1>2, <1>5, PrefixNames
  <2>2. a = b + 1
    <3>. SUFFICES ASSUME a <= b  PROVE FALSE
      BY <2>1
    <3>1. \A i \in 1..a : s[i] = f[i]
      BY <1>2, <2>1
    <3>. QED
      BY <1>1, <1>5, <3>1, PrefixNames
  <2>. QED
    BY <1>1, <1>2, <2>1, <2>2, SeqEqual
<1>. QED
  BY <1>3, <1>4, <1>5 DEF r

OneMore(from, to, f, m) == Was(from, to, Append(f, m)) = Append(Was(from, to, f), m)

\* What is appended to a path was appended to the path that was.
LEMMA WasAppend ==
    ASSUME NEW S, NEW from \in Seq(S), NEW to \in Seq(S), NEW f \in Seq(S), NEW m \in S,
           IsPrefix(to, f)
    PROVE  OneMore(from, to, f, m)
<1>. DEFINE r == Append(f, m)
            v == Was(from, to, r)
            w == Was(from, to, f)
<1>1. PICK a \in Nat, b \in Nat, c \in Nat : a = Len(from) /\ b = Len(to) /\ c = Len(f)
  BY LenProperties
<1>2. r \in Seq(S) /\ Len(r) = c + 1 /\ (\A i \in 1..c : r[i] = f[i]) /\ r[c + 1] = m
  BY <1>1, AppendProperties
<1>3. IsPrefix(to, r)
  BY PrefixOfAppend
<1>4. b <= c
  BY <1>1, PrefixNames
<1>. HIDE DEF r
<1>5. /\ v \in Seq(S) /\ Len(v) = a + (c + 1 - b)
      /\ \A i \in 1..a : v[i] = from[i]
      /\ \A j \in 1..c + 1 - b : v[a + j] = r[b + j]
  <2>1. Spliced(S, from, b, r, v)
    BY <1>1, <1>2, <1>3, WasNames
  <2>. HIDE DEF v
  <2>. QED
    BY <1>1, <1>2, <2>1 DEF Spliced
<1>6. /\ w \in Seq(S) /\ Len(w) = a + (c - b)
      /\ \A i \in 1..a : w[i] = from[i]
      /\ \A j \in 1..c - b : w[a + j] = f[b + j]
  <2>1. Spliced(S, from, b, f, w)
    BY <1>1, WasNames
  <2>. HIDE DEF w
  <2>. QED
    BY <1>1, <2>1 DEF Spliced
<1>. HIDE DEF v, w
<1>7. /\ Append(w, m) \in Seq(S) /\ Len(Append(w, m)) = Len(w) + 1
      /\ \A i \in 1..Len(w) : Append(w, m)[i] = w[i]
      /\ Append(w, m)[Len(w) + 1] = m
  BY <1>6, AppendProperties
<1>. DEFINE u == Append(w, m)
<1>. HIDE DEF u
<1>8. ASSUME NEW i \in 1..a + (c + 1 - b)  PROVE v[i] = u[i]
  <2>1. CASE i <= a
    BY <1>4, <1>5, <1>6, <1>7, <2>1 DEF u
  <2>2. CASE i > a /\ i < a + (c + 1 - b)
    <3>1. PICK j \in 1..c - b : i = a + j
      <4>1. i - a \in 1..c - b /\ i = a + (i - a)
        BY <1>4, <2>2
      <4>. QED
        BY <4>1
    <3>0. j \in 1..c + 1 - b /\ i \in 1..a + (c - b)
      BY <1>4, <3>1
    <3>2. v[i] = r[b + j] /\ w[i] = f[b + j] /\ i \in 1..Len(w)
      BY <1>5, <1>6, <3>0, <3>1
    <3>3. r[b + j] = f[b + j]
      BY <1>2, <1>4
    <3>. QED
      BY <1>7, <3>2, <3>3 DEF u
  <2>3. CASE i = a + (c + 1 - b)
    <3>1. c + 1 - b \in 1..c + 1 - b /\ b + (c + 1 - b) = c + 1 /\ i = Len(w) + 1
      BY <1>4, <1>6, <2>3
    <3>2. v[i] = r[c + 1]
      BY <1>5, <2>3, <3>1
    <3>. QED
      BY <1>2, <1>7, <3>1, <3>2 DEF u
  <2>. QED
    BY <2>1, <2>2, <2>3
<1>9. u \in Seq(S) /\ Len(u) = a + (c + 1 - b)
  BY <1>4, <1>6, <1>7 DEF u
<1>10. v = u
  BY <1>5, <1>8, <1>9, SeqEqual
<1>. QED
  BY <1>10 DEF u, v, w, r, OneMore

Extends(S, w, m, a) == a \in Seq(S) /\ a # << >> /\ Front(a) = w /\ Last(a) = m

\* What is appended is the last name, in the directory before.
LEMMA AppendExtends ==
    ASSUME NEW S, NEW w \in Seq(S), NEW m \in S
    PROVE  Extends(S, w, m, Append(w, m))
<1>. DEFINE a == Append(w, m)
<1>1. a \in Seq(S) /\ a # << >>
  BY AppendProperties
<1>2. Append(w, m) = a
  OBVIOUS
<1>. HIDE DEF a
<1>3. Front(a) \in Seq(S) /\ Last(a) \in S /\ a = Append(Front(a), Last(a))
  BY <1>1, FrontAndLast
<1>4. Append(Front(a), Last(a)) = Append(w, m)
  BY <1>2, <1>3, Zenon
<1>5. Front(a) = w /\ Last(a) = m
  BY <1>3, <1>4, AppendInjective
<1>. QED
  BY <1>1, <1>5 DEF a, Extends

\* At `to` there is now what was at `from`.
LEMMA WasItself ==
    ASSUME NEW S, NEW from \in Seq(S), NEW to \in Seq(S)
    PROVE  Was(from, to, to) = from /\ IsPrefix(to, to)
<1>1. IsPrefix(to, to)
  BY PrefixNames, LenProperties
<1>. DEFINE w == Was(from, to, to)
<1>2. /\ w \in Seq(S) /\ Len(w) = Len(from) + (Len(to) - Len(to))
      /\ \A i \in 1..Len(from) : w[i] = from[i]
  <2>1. Spliced(S, from, Len(to), to, w)
    BY <1>1, WasNames
  <2>. HIDE DEF w
  <2>. QED
    BY <2>1 DEF Spliced
<1>. HIDE DEF w
<1>3. Len(w) = Len(from)
  BY <1>2, LenProperties
<1>4. w = from
  BY <1>2, <1>3, SeqEqual
<1>. QED
  BY <1>1, <1>4 DEF w

\* There and back.
LEMMA WasBack ==
    ASSUME NEW S, NEW from \in Seq(S), NEW to \in Seq(S), NEW r \in Seq(S), IsPrefix(to, r)
    PROVE  Was(to, from, Was(from, to, r)) = r
<1>. DEFINE w == Was(from, to, r)
            v == Was(to, from, w)
<1>1. PICK a \in Nat, b \in Nat, c \in Nat : a = Len(from) /\ b = Len(to) /\ c = Len(r)
  BY LenProperties
<1>2. b <= c /\ \A i \in 1..b : to[i] = r[i]
  BY <1>1, PrefixNames
<1>3. /\ w \in Seq(S) /\ Len(w) = a + (c - b)
      /\ \A j \in 1..c - b : w[a + j] = r[b + j]
      /\ IsPrefix(from, w)
  <2>1. Spliced(S, from, b, r, w)
    BY <1>1, WasNames
  <2>. HIDE DEF w
  <2>. QED
    BY <1>1, <2>1 DEF Spliced
<1>. HIDE DEF w
<1>4. /\ v \in Seq(S) /\ Len(v) = b + (a + (c - b) - a)
      /\ \A i \in 1..b : v[i] = to[i]
      /\ \A j \in 1..a + (c - b) - a : v[b + j] = w[a + j]
  <2>1. Spliced(S, to, a, w, v)
    BY <1>1, <1>3, WasNames
  <2>. HIDE DEF v
  <2>2. /\ v \in Seq(S) /\ Len(v) = b + (Len(w) - a)
        /\ \A i \in 1..b : v[i] = to[i]
        /\ \A j \in 1..Len(w) - a : v[b + j] = w[a + j]
    BY <1>1, <2>1 DEF Spliced
  <2>3. Len(w) = a + (c - b)
    BY <1>3
  <2>. QED
    BY <2>2, <2>3
<1>. HIDE DEF v
<1>5. Len(v) = c /\ a + (c - b) - a = c - b
  BY <1>2, <1>4
<1>6. ASSUME NEW i \in 1..c  PROVE v[i] = r[i]
  <2>1. CASE i <= b
    BY <1>2, <1>4, <2>1
  <2>2. CASE i > b
    <3>1. i - b \in 1..c - b /\ b + (i - b) = i
      BY <1>2, <2>2
    <3>2. v[i] = w[a + (i - b)]
      BY <1>4, <1>5, <3>1
    <3>. QED
      BY <1>3, <3>1, <3>2
  <2>. QED
    BY <2>1, <2>2
<1>7. v = r
  BY <1>1, <1>4, <1>5, <1>6, SeqEqual
<1>. QED
  BY <1>7 DEF v, w

\* A rename moves what is below `from` to below `to`, whose own entry goes.
Moved(from, to, r, n) ==
    \/ Leads(r, n) /\ ~IsPrefix(from, r) /\ r # to
    \/ IsPrefix(to, r) /\ Leads(Was(from, to, r), n)

\* By induction on the path's length: a rename changes the paths in this way and no other.
LEMMA MovesLeads ==
    ASSUME Tree, Tree',
           NEW from \in Seq(Name), NEW upFrom \in Seq(Name), NEW fromDir \in Node,
           NEW fromName \in Name, from = Append(upFrom, fromName), Leads(upFrom, fromDir),
           NEW to \in Seq(Name), NEW upTo \in Seq(Name), NEW toDir \in Node,
           NEW toName \in Name, to = Append(upTo, toName), Leads(upTo, toDir),
           Has(fromDir, fromName), ~IsStrictPrefix(from, to),
           Has(toDir, toName) => DOMAIN children[children[toDir][toName]] = {},
           children' = Relinked(fromDir, fromName, toDir, toName, children[fromDir][fromName])
    PROVE  \A r \in Seq(Name) : \A n \in Node : Leads(r, n)' <=> Moved(from, to, r, n)
<1>. DEFINE node == children[fromDir][fromName]
            S == {k \in Nat : \A r \in Seq(Name) : \A n \in Node : Len(r) = k =>
                    (Leads(r, n)' <=> Moved(from, to, r, n))}
<1>1. /\ Len(from) = Len(upFrom) + 1 /\ Len(to) = Len(upTo) + 1
      /\ Len(from) \in Nat /\ Len(to) \in Nat /\ Len(upFrom) \in Nat /\ Len(upTo) \in Nat
      /\ from # << >> /\ to # << >>
  BY AppendProperties, LenProperties
<1>2. Leads(from, node) /\ node \in Node
  BY LeadsOn
<1>3. /\ Has(toDir, toName)' /\ children'[toDir][toName] = node
      /\ \A d \in Node : \A m : Has(d, m)' =>
            \/ d = toDir /\ m = toName
            \/ /\ Has(d, m) /\ children'[d][m] = children[d][m]
               /\ ~(d = fromDir /\ m = fromName)
      /\ \A d \in Node : \A m :
            Has(d, m) /\ ~(d = fromDir /\ m = fromName) /\ ~(d = toDir /\ m = toName) =>
               Has(d, m)' /\ children'[d][m] = children[d][m]
  <2>. DEFINE deleted == [children EXCEPT ![fromDir] = Without(@, fromName)]
  <2>1. /\ DOMAIN deleted = Node
        /\ \A d \in Node : \A m : m \in DOMAIN deleted[d] <=>
              m \in DOMAIN children[d] /\ ~(d = fromDir /\ m = fromName)
        /\ \A d \in Node : \A m : m \in DOMAIN deleted[d] => deleted[d][m] = children[d][m]
    BY DEF Tree, Without
  <2>2. children' = [deleted EXCEPT ![toDir] = With(@, toName, node)]
    BY DEF Relinked
  <2>. HIDE DEF deleted, node
  <2>. QED
    BY <2>1, <2>2 DEF With, Has
<1>4. ~IsPrefix(from, upTo)
  <2>. SUFFICES ASSUME IsPrefix(from, upTo)  PROVE FALSE
    OBVIOUS
  <2>1. IsPrefix(from, to)
    BY PrefixOfAppend
  <2>2. Len(from) <= Len(upTo)
    BY PrefixNames
  <2>3. from # to
    BY <1>1, <2>2
  <2>. QED
    BY <2>1, <2>3 DEF IsStrictPrefix
<1>5. ASSUME NEW r \in Seq(Name), IsPrefix(to, r)
      PROVE  /\ Was(from, to, r) \in Seq(Name) /\ IsPrefix(from, Was(from, to, r))
             /\ Was(from, to, r) # upTo /\ Was(from, to, r) # upFrom
  <2>1. Spliced(Name, from, Len(to), r, Was(from, to, r))
    BY <1>5, WasNames
  <2>. DEFINE w == Was(from, to, r)
  <2>. HIDE DEF w
  <2>2. w \in Seq(Name) /\ IsPrefix(from, w)
    BY <2>1 DEF Spliced, w
  <2>3. Len(from) <= Len(w)
    BY <2>2, PrefixNames
  <2>. QED
    BY <1>1, <1>4, <2>2, <2>3 DEF w
<1>. HIDE DEF node
<1>6. 0 \in S
  <2>. SUFFICES ASSUME NEW r \in Seq(Name), NEW n \in Node, Len(r) = 0
                PROVE  Leads(r, n)' <=> Moved(from, to, r, n)
    OBVIOUS
  <2>1. r = << >>
    BY EmptySeq
  <2>2. ~IsPrefix(from, r) /\ ~IsPrefix(to, r) /\ r # to
    <3>1. ~(Len(from) <= Len(r)) /\ ~(Len(to) <= Len(r))
      BY <1>1
    <3>. QED
      BY <1>1, <2>1, <3>1, PrefixNames
  <2>3. Leads(r, n)' <=> n = RootDir
    BY <2>1, NextRoot
  <2>4. Leads(r, n) <=> n = RootDir
    BY <2>1, PathLawsHold DEF PathLaws
  <2>. QED
    BY <2>2, <2>3, <2>4 DEF Moved
<1>7. ASSUME NEW k \in Nat, k \in S  PROVE k + 1 \in S
  <2>. SUFFICES ASSUME NEW r \in Seq(Name), NEW n \in Node, Len(r) = k + 1
                PROVE  Leads(r, n)' <=> Moved(from, to, r, n)
    OBVIOUS
  <2>. DEFINE f == Front(r)
              m == Last(r)
  <2>1. r # << >> /\ f \in Seq(Name) /\ m \in Name /\ r = Append(f, m) /\ Len(f) = k
    BY EmptyOrOn, EmptySeq, LenProperties
  <2>2. \A q \in Seq(Name) : \A d \in Node :
           Len(q) = k => (Leads(q, d)' <=> Moved(from, to, q, d))
    BY <1>7
  <2>. HIDE DEF S, f, m
  <2>3. /\ IsPrefix(from, r) <=> IsPrefix(from, f) \/ from = r
        /\ IsPrefix(to, r) <=> IsPrefix(to, f) \/ to = r
    BY <2>1, PrefixOfAppend
  <2>4. /\ r = to <=> f = upTo /\ m = toName
        /\ r = from <=> f = upFrom /\ m = fromName
    <3>1. ASSUME r = to  PROVE f = upTo /\ m = toName
      <4>1. Append(f, m) = Append(upTo, toName)
        BY <2>1, <3>1, Zenon
      <4>. QED
        BY <2>1, <4>1, AppendInjective, SMTT(20)
    <3>2. ASSUME r = from  PROVE f = upFrom /\ m = fromName
      <4>1. Append(f, m) = Append(upFrom, fromName)
        BY <2>1, <3>2, Zenon
      <4>. QED
        BY <2>1, <4>1, AppendInjective
    <3>3. /\ f = upTo /\ m = toName => r = to
          /\ f = upFrom /\ m = fromName => r = from
      BY <2>1, Zenon
    <3>. QED
      BY <3>1, <3>2, <3>3
  <2>5. ASSUME Leads(r, n)'  PROVE Moved(from, to, r, n)
    <3>1. PICK d \in Node : Leads(f, d)' /\ Has(d, m)' /\ n = children'[d][m]
      BY <2>1, <2>5, NextBack DEF f, m
    <3>2. Moved(from, to, f, d)
      BY <2>1, <2>2, <3>1
    <3>3. CASE Leads(f, d) /\ ~IsPrefix(from, f) /\ f # to
      <4>1. CASE d = toDir /\ m = toName
        <5>1. f = upTo
          BY <2>1, <3>3, <4>1, OnePath
        <5>2. r = to
          BY <2>4, <4>1, <5>1
        <5>3. n = node
          BY <1>3, <3>1, <4>1
        <5>4. IsPrefix(to, r) /\ Was(from, to, r) = from
          BY <5>2, WasItself
        <5>. QED
          BY <1>2, <5>3, <5>4 DEF Moved
      <4>2. CASE ~(d = toDir /\ m = toName)
        <5>1. Has(d, m) /\ n = children[d][m] /\ ~(d = fromDir /\ m = fromName)
          BY <1>3, <3>1, <4>2
        <5>2. Leads(r, n)
          BY <2>1, <3>3, <5>1, LeadsOn
        <5>3. r # to
          <6>. SUFFICES ASSUME r = to  PROVE FALSE
            OBVIOUS
          <6>1. d = toDir
            BY <2>1, <2>4, <3>3, OneEnd
          <6>. QED
            BY <2>4, <4>2, <6>1
        <5>4. r # from
          <6>. SUFFICES ASSUME r = from  PROVE FALSE
            OBVIOUS
          <6>1. d = fromDir
            BY <2>1, <2>4, <3>3, OneEnd
          <6>. QED
            BY <2>4, <5>1, <6>1
        <5>. QED
          BY <2>3, <3>3, <5>2, <5>3, <5>4 DEF Moved
      <4>. QED
        BY <4>1, <4>2
    <3>4. CASE IsPrefix(to, f) /\ Leads(Was(from, to, f), d)
      <4>. DEFINE w == Was(from, to, f)
      <4>. HIDE DEF w
      <4>1. w \in Seq(Name) /\ w # upTo /\ Leads(w, d)
        BY <1>5, <2>1, <3>4 DEF w
      <4>2. d # toDir
        BY <4>1, OnePath
      <4>3. Has(d, m) /\ n = children[d][m]
        BY <1>3, <3>1, <4>2
      <4>4. Leads(Append(w, m), n)
        BY <4>1, <4>3, LeadsOn
      <4>5. Was(from, to, r) = Append(w, m)
        <5>1. OneMore(from, to, f, m)
          BY <2>1, <3>4, WasAppend
        <5>. QED
          BY <2>1, <5>1, Zenon DEF w, OneMore
      <4>. QED
        BY <2>3, <3>4, <4>4, <4>5 DEF Moved
    <3>. QED
      BY <3>2, <3>3, <3>4 DEF Moved
  <2>6. ASSUME Leads(r, n), ~IsPrefix(from, r), r # to  PROVE Leads(r, n)'
    <3>1. PICK d \in Node : Leads(f, d) /\ Has(d, m) /\ n = children[d][m]
      BY <2>1, <2>6, LeadsBack DEF f, m
    <3>2. f # to
      <4>. SUFFICES ASSUME f = to  PROVE FALSE
        OBVIOUS
      <4>1. PICK e \in Node : Leads(Front(to), e) /\ Has(e, Last(to)) /\ d = children[e][Last(to)]
        BY <1>1, <3>1, LeadsBack
      <4>2. Front(to) \in Seq(Name) /\ Last(to) \in Name /\ to = Append(Front(to), Last(to))
        BY <1>1, FrontAndLast
      <4>3. Front(to) = upTo /\ Last(to) = toName
        BY <4>2, AppendInjective
      <4>4. e = toDir
        BY <4>1, <4>3, OneEnd
      <4>. QED
        BY <3>1, <4>1, <4>3, <4>4 DEF Has
    <3>3. Leads(f, d)'
      BY <2>1, <2>2, <2>3, <2>6, <3>1, <3>2 DEF Moved
    <3>4. ~(d = fromDir /\ m = fromName)
      <4>. SUFFICES ASSUME d = fromDir, m = fromName  PROVE FALSE
        OBVIOUS
      <4>1. f = upFrom
        BY <2>1, <3>1, OnePath
      <4>2. IsPrefix(from, r)
        BY <2>3, <2>4, <4>1
      <4>. QED
        BY <2>6, <4>2
    <3>5. ~(d = toDir /\ m = toName)
      <4>. SUFFICES ASSUME d = toDir, m = toName  PROVE FALSE
        OBVIOUS
      <4>1. f = upTo
        BY <2>1, <3>1, OnePath
      <4>. QED
        BY <2>4, <2>6, <4>1
    <3>6. Has(d, m)' /\ n = children'[d][m]
      BY <1>3, <3>1, <3>4, <3>5
    <3>. QED
      BY <2>1, <3>3, <3>6, NextOn
  <2>7. ASSUME IsPrefix(to, r), Leads(Was(from, to, r), n)  PROVE Leads(r, n)'
    <3>1. CASE r = to
      <4>1. f = upTo /\ m = toName
        BY <2>4, <3>1
      <4>2. Was(from, to, r) = from
        BY <3>1, WasItself
      <4>3. n = node
        BY <1>2, <2>7, <4>2, OneEnd
      <4>4. Moved(from, to, f, toDir)
        <5>1. f # to
          BY <1>1, <4>1
        <5>. QED
          BY <1>4, <4>1, <5>1 DEF Moved
      <4>5. Leads(f, toDir)'
        BY <2>1, <2>2, <4>4
      <4>6. Has(toDir, m)' /\ n = children'[toDir][m]
        BY <1>3, <4>1, <4>3
      <4>. QED
        BY <2>1, <4>5, <4>6, NextOn
    <3>2. CASE r # to
      <4>1. IsPrefix(to, f)
        BY <2>3, <2>7, <3>2
      <4>. DEFINE w == Was(from, to, f)
      <4>. HIDE DEF w
      <4>2. Was(from, to, r) = Append(w, m)
        <5>1. OneMore(from, to, f, m)
          BY <2>1, <4>1, WasAppend
        <5>. QED
          BY <2>1, <5>1, Zenon DEF w, OneMore
      <4>3. w \in Seq(Name) /\ w # upTo /\ w # upFrom
        BY <1>5, <2>1, <4>1 DEF w
      <4>4. Extends(Name, w, m, Append(w, m))
        <5>1. w \in Seq(Name) /\ m \in Name
          BY <2>1, <4>3, Zenon
        <5>. QED
          BY <5>1, AppendExtends, Zenon
      <4>5. /\ Append(w, m) \in Seq(Name) /\ Append(w, m) # << >>
            /\ Front(Append(w, m)) = w /\ Last(Append(w, m)) = m
        BY <4>4, Zenon DEF Extends
      <4>6. PICK d \in Node : Leads(w, d) /\ Has(d, m) /\ n = children[d][m]
        <5>. DEFINE a == Append(w, m)
        <5>. HIDE DEF a
        <5>1. a \in Seq(Name) /\ a # << >> /\ Leads(a, n)
          BY <2>7, <4>2, <4>5, Zenon DEF a
        <5>2. \E d \in Node : Leads(Front(a), d) /\ Has(d, Last(a)) /\ n = children[d][Last(a)]
          BY <5>1, LeadsBack
        <5>. QED
          BY <4>5, <5>2 DEF a
      <4>7. Moved(from, to, f, d)
        BY <4>1, <4>6 DEF Moved, w
      <4>8. Leads(f, d)'
        BY <2>1, <2>2, <4>7
      <4>9. d # toDir /\ d # fromDir
        BY <4>3, <4>6, OnePath
      <4>10. Has(d, m)' /\ n = children'[d][m]
        BY <1>3, <4>6, <4>9
      <4>. QED
        BY <2>1, <4>8, <4>10, NextOn
    <3>. QED
      BY <3>1, <3>2
  <2>. QED
    BY <2>5, <2>6, <2>7 DEF Moved
<1>. HIDE DEF S
<1>8. \A k \in Nat : k \in S
  BY <1>6, <1>7, NatSetInduction
<1>. QED
  BY <1>8, LenProperties DEF S

-----------------------------------------------------------------------------
(* Each call does to the tree of names what the interface promises.          *)

\* A node that is not made yet holds nothing.
Blank == \A n \in Node : kind[n] = "free" => bytes[n] = << >>
RInv  == IInv /\ Blank

\* The invariant has the tree.
LEMMA RInvTree == ASSUME RInv  PROVE Tree
BY DEF RInv, IInv, TypeInvariant, Tree

\* What has a path was made.
LEMMA LeadsMade ==
    ASSUME Tree, NEW p \in Seq(Name), NEW n \in Node, Leads(p, n)
    PROVE  kind[n] \in {"file", "directory"}
<1>1. CASE p = << >>
  <2>1. n = RootDir
    BY <1>1, PathLawsHold DEF PathLaws
  <2>. QED
    BY <2>1 DEF Tree
<1>2. CASE p # << >>
  <2>1. PICK d \in Node : Has(d, Last(p)) /\ n = children[d][Last(p)]
    BY <1>2, LeadsBack
  <2>2. kind[n] # "free" /\ kind[n] \in {"free", "file", "directory"}
    BY <2>1 DEF Tree, Has
  <2>. QED
    BY <2>2
<1>. QED
  BY <1>1, <1>2

\* A function with the next state's paths and what they show is the next tree of names.
LEMMA NextListing ==
    ASSUME Tree', NEW T, T = [p \in DOMAIN T |-> T[p]],
           \A p : p \in DOMAIN T <=> p \in Seq(Name) /\ \E n \in Node : Leads(p, n)',
           \A p \in Seq(Name) : \A n \in Node : Leads(p, n)' => T[p] = Shown(n)'
    PROVE  Listing' = T
<1>1. /\ DOMAIN (Listing') = {p \in Seq(Name) : \E n \in Node : Leads(p, n)'}
      /\ \A p \in Seq(Name) : \A n \in Node : Leads(p, n)' => Listing'[p] = Shown(n)'
      /\ Listing' = [p \in DOMAIN (Listing') |-> Listing'[p]]
  BY ListingLawsHoldNext DEF ListingLaws
<1>. DEFINE L == Listing'
<1>. HIDE DEF L
<1>2. DOMAIN L = DOMAIN T
  BY <1>1 DEF L
<1>3. \A p \in DOMAIN T : L[p] = T[p]
  BY <1>1 DEF L
<1>4. L = [p \in DOMAIN L |-> L[p]]
  BY <1>1 DEF L
<1>5. L = T
  BY <1>2, <1>3, <1>4
<1>. QED
  BY <1>5 DEF L

\* Nothing changes for the tree of names if no node and no entry does.
LEMMA SameListing ==
    ASSUME Tree, Tree', UNCHANGED <<kind, children>>
    PROVE  Listing' = Listing
<1>1. \A p \in Seq(Name) : \A n \in Node : Leads(p, n)' <=> Leads(p, n)
  BY DEF Leads, IsWalk, Has
<1>2. \A n \in Node : Shown(n)' = Shown(n)
  BY DEF Shown
<1>3. /\ DOMAIN Listing = {p \in Seq(Name) : \E n \in Node : Leads(p, n)}
      /\ \A p \in Seq(Name) : \A n \in Node : Leads(p, n) => Listing[p] = Shown(n)
      /\ Listing = [p \in DOMAIN Listing |-> Listing[p]]
  BY ListingOf
<1>4. \A p : p \in DOMAIN Listing <=> p \in Seq(Name) /\ \E n \in Node : Leads(p, n)'
  BY <1>1, <1>3
<1>5. \A p \in Seq(Name) : \A n \in Node : Leads(p, n)' => Listing[p] = Shown(n)'
  BY <1>1, <1>2, <1>3
<1>. QED
  BY <1>3, <1>4, <1>5, NextListing

\* An error that applies, and nothing done.
LEMMA Refuses ==
    ASSUME Tree, Tree', NEW errno \in Errno, Throws(errno), NEW errors, errno \in errors
    PROVE  Contract!Refused(errors)
<1>1. Listing' = Listing
  BY SameListing DEF Throws
<1>2. Contents' = Contents
  BY DEF Throws, Contents
<1>3. answer' = errno /\ errno # "ok"
  BY DEF Throws, Errno
<1>. QED
  BY <1>1, <1>2, <1>3 DEF Contract!Refused

\* The errors of the entry are asked for when there is nothing wrong with its parent.
LEMMA ErrorsAt ==
    ASSUME Tree, NEW path \in Path, NEW onRoot, NEW errors
    PROVE  /\ path = << >> => Contract!At(path, onRoot, errors) = {onRoot}
           /\ path # << >> /\ ParentDir(path) \in Errno =>
                 Contract!At(path, onRoot, errors) = {ParentDir(path)}
           /\ path # << >> /\ ParentDir(path) \in Node =>
                 Contract!At(path, onRoot, errors) = errors
<1>1. path # << >> /\ ParentDir(path) \in Errno => Contract!ParentErrors(path) = {ParentDir(path)}
  BY ParentErrorIs
<1>2. path # << >> /\ ParentDir(path) \in Node => Contract!ParentErrors(path) = {}
  BY NoParentErrors
<1>. QED
  BY <1>1, <1>2 DEF Contract!At

\* The errors of the path come before those of the entry.
LEMMA RefusesAt ==
    ASSUME Tree, Tree', NEW path \in Path, NEW onRoot \in Errno, NEW errors,
           \/ path = << >> /\ Throws(onRoot)
           \/ path # << >> /\ ParentDir(path) \in Errno /\ Throws(ParentDir(path))
           \/ /\ path # << >> /\ ParentDir(path) \in Node
              /\ \E errno \in Errno : errno \in errors /\ Throws(errno)
    PROVE  Contract!Refused(Contract!At(path, onRoot, errors))
BY ErrorsAt, Refuses

\* What the tree says of an entry that is there, and of one that is not.
LEMMA ThereIs ==
    ASSUME Tree, NEW path \in Path, path # << >>, ParentDir(path) \in Node,
           Has(ParentDir(path), Last(path))
    PROVE  LET node == children[ParentDir(path)][Last(path)]
           IN  /\ path \in Seq(Name) /\ node \in Node /\ Leads(path, node)
               /\ Contract!Exists(path) /\ path \in DOMAIN Listing
               /\ Contract!IsDir(path) <=> kind[node] = "directory"
               /\ Contract!Empty(path) <=> Emptied(node)
               /\ Listing[path] = Shown(node)
               /\ kind[node] \in {"file", "directory"}
<1>. DEFINE node == children[ParentDir(path)][Last(path)]
<1>1. path \in Seq(Name) /\ node \in Node /\ Leads(path, node)
  BY PathIsNames, EntryIs
<1>. HIDE DEF node
<1>2. Contract!Exists(path) /\ (Contract!IsDir(path) <=> kind[node] = "directory")
  BY <1>1, ExistsLeads
<1>3. path \in DOMAIN Listing /\ Listing[path] = Shown(node)
  BY <1>1, ListingOf
<1>4. Contract!Empty(path) <=> Emptied(node)
  BY <1>1, EmptyLists DEF Emptied
<1>5. kind[node] \in {"file", "directory"}
  BY <1>1, LeadsMade
<1>. QED
  BY <1>1, <1>2, <1>3, <1>4, <1>5 DEF node

\* What is said of an entry that is not there.
LEMMA ThereIsNot ==
    ASSUME Tree, NEW path \in Path, path # << >>, ParentDir(path) \in Node,
           ~Has(ParentDir(path), Last(path))
    PROVE  /\ path \in Seq(Name)
           /\ ~Contract!Exists(path) /\ ~Contract!IsDir(path)
           /\ path \notin DOMAIN Listing
<1>1. path \in Seq(Name) /\ ~\E n \in Node : Leads(path, n)
  BY PathIsNames, NoEntry
<1>. QED
  BY <1>1, ExistsLeads, ListingOf

\* A new entry, of a file or a directory that was not made before.
LEMMA MakesListing ==
    ASSUME Tree, Tree', NEW path \in Path, path # << >>, ParentDir(path) \in Node,
           ~Has(ParentDir(path), Last(path)), NEW fresh \in Node,
           NEW type \in {"file", "directory"},
           Makes(ParentDir(path), Last(path), fresh, type)
    PROVE  Listing' = [q \in DOMAIN Listing \union {path} |->
                          IF q = path THEN (IF type = "directory" THEN "directory" ELSE fresh)
                          ELSE Listing[q]]
<1>. DEFINE shown == IF type = "directory" THEN "directory" ELSE fresh
            T == [q \in DOMAIN Listing \union {path} |-> IF q = path THEN shown ELSE Listing[q]]
<1>1. /\ path \in Seq(Name) /\ Front(path) \in Seq(Name) /\ Last(path) \in Name
      /\ path = Append(Front(path), Last(path))
      /\ ~\E n \in Node : Leads(path, n)
  BY PathIsNames, NoEntry
<1>2. Leads(Front(path), ParentDir(path)) /\ kind[ParentDir(path)] = "directory"
  BY ParentLeads
<1>3. \A r \in Seq(Name) : \A n \in Node :
         Leads(r, n)' <=> Leads(r, n) \/ (r = Append(Front(path), Last(path)) /\ n = fresh)
  BY <1>1, <1>2, AddsLeads
<1>4. \A r \in Seq(Name) : \A n \in Node :
         Leads(r, n)' <=> Leads(r, n) \/ (r = path /\ n = fresh)
  BY <1>1, <1>3, Zenon
<1>5. /\ DOMAIN Listing = {p \in Seq(Name) : \E n \in Node : Leads(p, n)}
      /\ \A p \in Seq(Name) : \A n \in Node : Leads(p, n) => Listing[p] = Shown(n)
  BY ListingOf
<1>6. \A p \in Seq(Name) : \A n \in Node : Leads(p, n) => kind[n] # "free"
  BY LeadsMade
<1>7. kind[fresh] = "free" /\ kind' = [kind EXCEPT ![fresh] = type]
  BY DEF Makes
<1>8. Shown(fresh)' = shown /\ \A n \in Node : kind[n] # "free" => Shown(n)' = Shown(n)
  BY <1>7 DEF Shown, Tree
<1>. HIDE DEF shown
<1>9. \A p : p \in DOMAIN T <=> p \in Seq(Name) /\ \E n \in Node : Leads(p, n)'
  BY <1>1, <1>4, <1>5
<1>10. \A p \in Seq(Name) : \A n \in Node : Leads(p, n)' => T[p] = Shown(n)'
  <2>. SUFFICES ASSUME NEW p \in Seq(Name), NEW n \in Node, Leads(p, n)'
                PROVE  T[p] = Shown(n)'
    OBVIOUS
  <2>1. CASE Leads(p, n)
    <3>1. p # path /\ p \in DOMAIN Listing
      BY <1>1, <1>5, <2>1
    <3>2. T[p] = Listing[p]
      BY <3>1
    <3>. QED
      BY <1>5, <1>6, <1>8, <2>1, <3>2
  <2>2. CASE p = path /\ n = fresh
    BY <1>8, <2>2
  <2>. QED
    BY <1>4, <2>1, <2>2
<1>11. T = [p \in DOMAIN T |-> T[p]]
  OBVIOUS
<1>. HIDE DEF T
<1>12. Listing' = T
  BY <1>9, <1>10, <1>11, NextListing
<1>. QED
  BY <1>12 DEF T, shown

\* An entry that lists nothing is gone.
LEMMA DeletesListing ==
    ASSUME Tree, Tree', NEW path \in Path, path # << >>, ParentDir(path) \in Node,
           Has(ParentDir(path), Last(path)),
           DOMAIN children[children[ParentDir(path)][Last(path)]] = {},
           Deletes(ParentDir(path), Last(path))
    PROVE  Listing' = [q \in DOMAIN Listing \ {path} |-> Listing[q]]
<1>. DEFINE T == [q \in DOMAIN Listing \ {path} |-> Listing[q]]
<1>1. /\ path \in Seq(Name) /\ Front(path) \in Seq(Name) /\ Last(path) \in Name
      /\ path = Append(Front(path), Last(path))
  BY PathIsNames
<1>2. Leads(Front(path), ParentDir(path))
  BY ParentLeads
<1>3. children' = [children EXCEPT ![ParentDir(path)] = Without(@, Last(path))] /\ kind' = kind
  BY DEF Deletes
<1>4. \A r \in Seq(Name) : \A n \in Node :
         Leads(r, n)' <=> Leads(r, n) /\ r # Append(Front(path), Last(path))
  BY <1>1, <1>2, <1>3, RemovesLeads
<1>5. \A r \in Seq(Name) : \A n \in Node : Leads(r, n)' <=> Leads(r, n) /\ r # path
  BY <1>1, <1>4, Zenon
<1>6. /\ DOMAIN Listing = {p \in Seq(Name) : \E n \in Node : Leads(p, n)}
      /\ \A p \in Seq(Name) : \A n \in Node : Leads(p, n) => Listing[p] = Shown(n)
  BY ListingOf
<1>7. \A n \in Node : Shown(n)' = Shown(n)
  BY <1>3 DEF Shown
<1>8. \A p : p \in DOMAIN T <=> p \in Seq(Name) /\ \E n \in Node : Leads(p, n)'
  BY <1>5, <1>6
<1>9. \A p \in Seq(Name) : \A n \in Node : Leads(p, n)' => T[p] = Shown(n)'
  <2>. SUFFICES ASSUME NEW p \in Seq(Name), NEW n \in Node, Leads(p, n)'
                PROVE  T[p] = Shown(n)'
    OBVIOUS
  <2>1. Leads(p, n) /\ p # path
    BY <1>5
  <2>2. p \in DOMAIN Listing
    BY <1>6, <2>1
  <2>3. T[p] = Listing[p]
    BY <2>1, <2>2
  <2>. QED
    BY <1>6, <1>7, <2>1, <2>3
<1>10. T = [p \in DOMAIN T |-> T[p]]
  OBVIOUS
<1>. HIDE DEF T
<1>11. Listing' = T
  BY <1>8, <1>9, <1>10, NextListing
<1>. QED
  BY <1>11 DEF T

\* The tree after a rename.
Kept(from, to)  == {q \in DOMAIN Listing : ~IsPrefix(from, q) /\ q # to}
Below(from)     == {q \in DOMAIN Listing : IsPrefix(from, q)}
Grafted(from, to) ==
    [q \in Kept(from, to) \union {Was(to, from, m) : m \in Below(from)} |->
        IF q \in Kept(from, to) THEN Listing[q] ELSE Listing[Was(from, to, q)]]

\* A rename: what is below `to` was below `from`, and nothing else is.
LEMMA MovesListing ==
    ASSUME Tree, Tree', NEW from \in Path, NEW to \in Path, from # << >>, to # << >>,
           ParentDir(from) \in Node, ParentDir(to) \in Node, Has(ParentDir(from), Last(from)),
           ~IsStrictPrefix(from, to),
           Has(ParentDir(to), Last(to)) =>
              DOMAIN children[children[ParentDir(to)][Last(to)]] = {},
           children' = Relinked(ParentDir(from), Last(from), ParentDir(to), Last(to),
                                children[ParentDir(from)][Last(from)]),
           kind' = kind
    PROVE  Listing' = Grafted(from, to)
<1>. DEFINE kept  == {q \in DOMAIN Listing : ~IsPrefix(from, q) /\ q # to}
            moved == {q \in DOMAIN Listing : IsPrefix(from, q)}
            there == {Was(to, from, m) : m \in moved}
            T == [q \in kept \union there |->
                     IF q \in kept THEN Listing[q] ELSE Listing[Was(from, to, q)]]
<1>1. /\ from \in Seq(Name) /\ Front(from) \in Seq(Name) /\ Last(from) \in Name
      /\ from = Append(Front(from), Last(from))
      /\ to \in Seq(Name) /\ Front(to) \in Seq(Name) /\ Last(to) \in Name
      /\ to = Append(Front(to), Last(to))
  BY PathIsNames
<1>2. /\ Leads(Front(from), ParentDir(from)) /\ Leads(Front(to), ParentDir(to))
  BY ParentLeads
<1>3. \A r \in Seq(Name) : \A n \in Node : Leads(r, n)' <=> Moved(from, to, r, n)
  <2>. DEFINE fromDir == ParentDir(from)
              toDir   == ParentDir(to)
              upFrom == Front(from)
              upTo == Front(to)
              fromName == Last(from)
              toName == Last(to)
  <2>. HIDE DEF fromDir, toDir, upFrom, upTo, fromName, toName
  <2>1. /\ from \in Seq(Name) /\ upFrom \in Seq(Name) /\ fromName \in Name
        /\ from = Append(upFrom, fromName)
        /\ to \in Seq(Name) /\ upTo \in Seq(Name) /\ toName \in Name
        /\ to = Append(upTo, toName)
        /\ Leads(upFrom, fromDir) /\ Leads(upTo, toDir) /\ fromDir \in Node /\ toDir \in Node
        /\ Has(fromDir, fromName)
        /\ Has(toDir, toName) => DOMAIN children[children[toDir][toName]] = {}
        /\ children' = Relinked(fromDir, fromName, toDir, toName, children[fromDir][fromName])
    BY <1>1, <1>2, Zenon DEF fromDir, toDir, upFrom, upTo, fromName, toName
  <2>. QED
    BY <2>1, MovesLeads, Zenon
<1>4. /\ DOMAIN Listing = {p \in Seq(Name) : \E n \in Node : Leads(p, n)}
      /\ \A p \in Seq(Name) : \A n \in Node : Leads(p, n) => Listing[p] = Shown(n)
  BY ListingOf
<1>5. \A n \in Node : Shown(n)' = Shown(n)
  BY DEF Shown
<1>6. ASSUME NEW q \in Seq(Name), NEW n \in Node, Leads(q, n), IsPrefix(to, q)  PROVE q = to
  <2>. SUFFICES ASSUME q # to  PROVE FALSE
    OBVIOUS
  <2>1. IsStrictPrefix(to, q)
    BY <1>6 DEF IsStrictPrefix
  <2>2. /\ Len(to) < Len(q) /\ to = SubSeq(q, 1, Len(to))
        /\ Len(to) \in Nat /\ Len(q) \in Nat
    BY <1>1, <2>1, StrictPrefix, LenProperties
  <2>3. Len(to) \in 0..Len(q) - 1
    BY <2>2
  <2>4. PICK d \in Node : Leads(to, d) /\ Has(d, q[Len(to) + 1])
    BY <1>6, <2>2, <2>3, OnTheWay
  <2>5. Has(ParentDir(to), Last(to))
    BY <2>4, NoEntry
  <2>6. d = children[ParentDir(to)][Last(to)]
    BY <1>1, <2>4, <2>5, EntryIs, OneEnd
  <2>. QED
    BY <2>4, <2>5, <2>6 DEF Has
<1>7. ASSUME NEW q \in kept  PROVE q \in Seq(Name) /\ ~IsPrefix(to, q) /\ ~IsPrefix(from, q)
  BY <1>4, <1>6
<1>8. ASSUME NEW r \in Seq(Name)
      PROVE  r \in there <=> IsPrefix(to, r) /\ \E n \in Node : Leads(Was(from, to, r), n)
  <2>1. ASSUME NEW m \in moved, r = Was(to, from, m)
        PROVE  IsPrefix(to, r) /\ \E n \in Node : Leads(Was(from, to, r), n)
    <3>1. m \in Seq(Name) /\ IsPrefix(from, m) /\ \E n \in Node : Leads(m, n)
      BY <1>4
    <3>2. Spliced(Name, to, Len(from), m, Was(to, from, m))
      BY <1>1, <3>1, WasNames
    <3>3. IsPrefix(to, r)
      BY <2>1, <3>2, Zenon DEF Spliced
    <3>4. Was(from, to, r) = m
      BY <1>1, <2>1, <3>1, WasBack, Zenon
    <3>. QED
      BY <3>1, <3>3, <3>4, Zenon
  <2>2. ASSUME IsPrefix(to, r), NEW n \in Node, Leads(Was(from, to, r), n)
        PROVE  r \in there
    <3>. DEFINE w == Was(from, to, r)
    <3>1. Spliced(Name, from, Len(to), r, w)
      BY <1>1, <2>2, WasNames
    <3>2. Was(to, from, w) = r
      BY <1>1, <2>2, WasBack, Zenon
    <3>. HIDE DEF w
    <3>3. w \in Seq(Name) /\ IsPrefix(from, w)
      BY <3>1 DEF Spliced
    <3>4. Leads(w, n)
      BY <2>2 DEF w
    <3>5. w \in moved
      BY <1>4, <3>3, <3>4
    <3>. QED
      BY <3>2, <3>5
  <2>. HIDE DEF there
  <2>3. ASSUME r \in there  PROVE \E m \in moved : r = Was(to, from, m)
    BY <2>3 DEF there
  <2>. QED
    BY <2>1, <2>2, <2>3
<1>9. ASSUME NEW r \in there  PROVE r \in Seq(Name)
  <2>1. PICK m \in moved : r = Was(to, from, m)
    OBVIOUS
  <2>2. m \in Seq(Name) /\ IsPrefix(from, m)
    BY <1>4
  <2>3. Spliced(Name, to, Len(from), m, Was(to, from, m))
    BY <1>1, <2>2, WasNames
  <2>. QED
    BY <2>1, <2>3, Zenon DEF Spliced
<1>. HIDE DEF there
<1>10. ASSUME NEW p  PROVE p \in DOMAIN T <=> p \in Seq(Name) /\ \E n \in Node : Leads(p, n)'
  <2>1. DOMAIN T = kept \union there
    OBVIOUS
  <2>2. ASSUME p \in Seq(Name)
        PROVE  (\E n \in Node : Leads(p, n)') <=> p \in kept \/ p \in there
    <3>1. (\E n \in Node : Leads(p, n)') <=>
             \/ (\E n \in Node : Leads(p, n)) /\ ~IsPrefix(from, p) /\ p # to
             \/ IsPrefix(to, p) /\ \E n \in Node : Leads(Was(from, to, p), n)
      BY <1>3, <2>2 DEF Moved
    <3>2. p \in kept <=> (\E n \in Node : Leads(p, n)) /\ ~IsPrefix(from, p) /\ p # to
      BY <1>4, <2>2
    <3>. QED
      BY <1>8, <2>2, <3>1, <3>2
  <2>. QED
    BY <1>7, <1>9, <2>1, <2>2
<1>11. ASSUME NEW p \in Seq(Name), NEW n \in Node, Leads(p, n)'  PROVE T[p] = Shown(n)'
  <2>1. CASE Leads(p, n) /\ ~IsPrefix(from, p) /\ p # to
    <3>1. p \in kept
      BY <1>4, <2>1
    <3>2. T[p] = Listing[p]
      BY <3>1
    <3>. QED
      BY <1>4, <1>5, <2>1, <3>2
  <2>2. CASE IsPrefix(to, p) /\ Leads(Was(from, to, p), n)
    <3>. DEFINE w == Was(from, to, p)
    <3>1. w \in Seq(Name)
      <4>1. Spliced(Name, from, Len(to), p, w)
        BY <1>1, <2>2, WasNames
      <4>. HIDE DEF w
      <4>. QED
        BY <4>1 DEF Spliced
    <3>2. p \notin kept /\ p \in there
      BY <1>7, <1>8, <2>2
    <3>3. T[p] = Listing[w]
      BY <3>2
    <3>. HIDE DEF w, T
    <3>. QED
      BY <1>4, <1>5, <2>2, <3>1, <3>3 DEF w
  <2>. QED
    BY <1>3, <1>11, <2>1, <2>2 DEF Moved
<1>12. T = [p \in DOMAIN T |-> T[p]]
  OBVIOUS
<1>. HIDE DEF T
<1>13. Listing' = T
  BY <1>10, <1>11, <1>12, NextListing
<1>. QED
  BY <1>13, Zenon DEF T, there, Grafted, Kept, Below

\* Each method, case by case: an error is one that applies, and success is the promised change.
LEMMA OpenRefines ==
    ASSUME RInv, Tree', NEW path \in Path, NEW create \in BOOLEAN, NEW exclusive \in BOOLEAN,
           NEW truncate \in BOOLEAN, NEW write \in BOOLEAN,
           Open(path, create, exclusive, truncate, write)
    PROVE  Contract!Open(path, create, exclusive, truncate, write)
<1>. DEFINE dir    == ParentDir(path)
            name   == Last(path)
            node   == children[dir][name]
            errors == Contract!ErrorIf(~Contract!Exists(path) /\ ~create, "ENOENT")
                      \union Contract!ErrorIf(Contract!Exists(path) /\ create /\ exclusive, "EEXIST")
                      \union Contract!ErrorIf(Contract!IsDir(path), "EISDIR")
            all    == Contract!At(path, "EISDIR", errors)
<1>0. Tree
  BY RInvTree
<1>1. \/ path = << >> /\ Throws("EISDIR")
      \/ path # << >> /\ dir \in Errno /\ Throws(dir)
      \/ /\ path # << >> /\ dir \in Node
         /\ \/ ~Has(dir, name) /\ ~create /\ Throws("ENOENT")
            \/ /\ ~Has(dir, name) /\ create
               /\ \E fresh \in Node : Makes(dir, name, fresh, "file")
               /\ answer' = "ok" /\ UNCHANGED bytes
            \/ Has(dir, name) /\ exclusive /\ create /\ Throws("EEXIST")
            \/ Has(dir, name) /\ kind[node] = "directory" /\ Throws("EISDIR")
            \/ /\ Has(dir, name) /\ ~(exclusive /\ create) /\ kind[node] = "file"
               /\ bytes' = [bytes EXCEPT ![node] = IF truncate /\ write THEN << >> ELSE @]
               /\ answer' = "ok" /\ UNCHANGED <<kind, children>>
  BY DEF Open, OnEntry
<1>2. path # << >> /\ dir \in Node => all = errors
  BY <1>0, ErrorsAt
<1>3. path # << >> /\ dir \in Node /\ ~Has(dir, name) =>
         ~Contract!Exists(path) /\ ~Contract!IsDir(path) /\ path \notin DOMAIN Listing
  BY <1>0, ThereIsNot
<1>4. path # << >> /\ dir \in Node /\ Has(dir, name) =>
         /\ node \in Node /\ Contract!Exists(path) /\ path \in DOMAIN Listing
         /\ Contract!IsDir(path) <=> kind[node] = "directory"
         /\ Listing[path] = Shown(node)
  BY <1>0, ThereIs
<1>5. Contract!Open(path, create, exclusive, truncate, write) <=>
         \/ Contract!Refused(all)
         \/ /\ Contract!Done(all)
            /\ Contract!Exists(path)
            /\ Contents' = [Contents EXCEPT ![Listing[path]] =
                               IF truncate /\ write THEN << >> ELSE @]
            /\ UNCHANGED Listing
         \/ /\ Contract!Done(all)
            /\ ~Contract!Exists(path)
            /\ \E f \in Node \ DOMAIN Contents :
                  /\ Listing' = [q \in DOMAIN Listing \union {path} |-> IF q = path THEN f ELSE Listing[q]]
                  /\ Contents' = [g \in DOMAIN Contents \union {f} |-> IF g = f THEN << >> ELSE Contents[g]]
  BY Zenon DEF Contract!Open
<1>6. CASE \/ path = << >> /\ Throws("EISDIR")
           \/ path # << >> /\ dir \in Errno /\ Throws(dir)
  BY <1>0, <1>5, <1>6, RefusesAt DEF Errno
<1>7. ASSUME path # << >>, dir \in Node, NEW e \in Errno, e \in errors, Throws(e)
      PROVE  Contract!Open(path, create, exclusive, truncate, write)
  <2>. HIDE DEF errors
  <2>1. Contract!Refused(all)
    BY <1>0, <1>7, RefusesAt DEF Errno
  <2>. QED
    BY <1>5, <2>1
<1>8. CASE path # << >> /\ dir \in Node /\ ~Has(dir, name) /\ ~create /\ Throws("ENOENT")
  BY <1>3, <1>7, <1>8 DEF Contract!ErrorIf, Errno
<1>9. CASE path # << >> /\ dir \in Node /\ Has(dir, name) /\ exclusive /\ create /\ Throws("EEXIST")
  BY <1>4, <1>7, <1>9 DEF Contract!ErrorIf, Errno
<1>10. CASE path # << >> /\ dir \in Node /\ Has(dir, name) /\ kind[node] = "directory"
            /\ Throws("EISDIR")
  BY <1>4, <1>7, <1>10 DEF Contract!ErrorIf, Errno
<1>11. CASE /\ path # << >> /\ dir \in Node /\ ~Has(dir, name) /\ create
            /\ \E fresh \in Node : Makes(dir, name, fresh, "file")
            /\ answer' = "ok" /\ UNCHANGED bytes
  <2>1. PICK fresh \in Node : Makes(dir, name, fresh, "file")
    BY <1>11
  <2>2. Listing' = [q \in DOMAIN Listing \union {path} |-> IF q = path THEN fresh ELSE Listing[q]]
    <3>1. Listing' = [q \in DOMAIN Listing \union {path} |->
                         IF q = path THEN (IF "file" = "directory" THEN "directory" ELSE fresh)
                         ELSE Listing[q]]
      BY <1>0, <1>11, <2>1, MakesListing
    <3>. QED
      BY <3>1
  <2>3. kind[fresh] = "free" /\ kind' = [kind EXCEPT ![fresh] = "file"] /\ DOMAIN kind = Node
    BY <1>0, <2>1 DEF Makes, Tree
  <2>4. bytes[fresh] = << >>
    BY <2>3 DEF RInv, Blank
  <2>5. fresh \in Node \ DOMAIN Contents
    BY <2>3 DEF Contents
  <2>6. Contents' = [g \in DOMAIN Contents \union {fresh} |-> IF g = fresh THEN << >> ELSE Contents[g]]
    <3>1. \A g \in Node : kind'[g] = "file" <=> g = fresh \/ kind[g] = "file"
      BY <2>3
    <3>2. bytes' = bytes
      BY <1>11
    <3>. QED
      BY <2>4, <3>1, <3>2 DEF Contents
  <2>7. Contract!Done(all) /\ ~Contract!Exists(path)
    BY <1>2, <1>3, <1>11 DEF Contract!Done, Contract!ErrorIf
  <2>. QED
    BY <1>5, <2>2, <2>5, <2>6, <2>7
<1>12. CASE /\ path # << >> /\ dir \in Node /\ Has(dir, name) /\ ~(exclusive /\ create)
            /\ kind[node] = "file"
            /\ bytes' = [bytes EXCEPT ![node] = IF truncate /\ write THEN << >> ELSE @]
            /\ answer' = "ok" /\ UNCHANGED <<kind, children>>
  <2>1. Contract!Exists(path) /\ ~Contract!IsDir(path) /\ Listing[path] = node /\ node \in Node
    BY <1>4, <1>12 DEF Shown
  <2>2. Contract!Done(all)
    BY <1>2, <1>12, <2>1 DEF Contract!Done, Contract!ErrorIf
  <2>3. UNCHANGED Listing
    BY <1>0, <1>12, SameListing
  <2>4. DOMAIN bytes = Node
    BY DEF RInv, IInv, TypeInvariant
  <2>. HIDE DEF node
  <2>5. Contents' = [Contents EXCEPT ![node] = IF truncate /\ write THEN << >> ELSE @]
    BY <1>12, <2>1, <2>4 DEF Contents
  <2>. QED
    BY <1>5, <2>1, <2>2, <2>3, <2>5
<1>. HIDE DEF dir, name, node
<1>. QED
  BY <1>1, <1>6, <1>8, <1>9, <1>10, <1>11, <1>12

LEMMA MkdirRefines ==
    ASSUME RInv, Tree', NEW path \in Path, Mkdir(path)
    PROVE  Contract!Mkdir(path)
<1>. DEFINE dir    == ParentDir(path)
            name   == Last(path)
            errors == Contract!ErrorIf(Contract!Exists(path), "EEXIST")
            all    == Contract!At(path, "EEXIST", errors)
<1>0. Tree
  BY RInvTree
<1>1. \/ path = << >> /\ Throws("EEXIST")
      \/ path # << >> /\ dir \in Errno /\ Throws(dir)
      \/ path # << >> /\ dir \in Node /\ Has(dir, name) /\ Throws("EEXIST")
      \/ /\ path # << >> /\ dir \in Node /\ ~Has(dir, name)
         /\ \E fresh \in Node : Makes(dir, name, fresh, "directory")
         /\ answer' = "ok" /\ UNCHANGED bytes
  BY DEF Mkdir, OnEntry
<1>2. Contract!Mkdir(path) <=>
         \/ Contract!Refused(all)
         \/ /\ Contract!Done(all)
            /\ Listing' = [q \in DOMAIN Listing \union {path} |->
                              IF q = path THEN "directory" ELSE Listing[q]]
            /\ UNCHANGED Contents
  BY Zenon DEF Contract!Mkdir
<1>3. CASE \/ path = << >> /\ Throws("EEXIST")
           \/ path # << >> /\ dir \in Errno /\ Throws(dir)
  BY <1>0, <1>2, <1>3, RefusesAt DEF Errno
<1>4. CASE path # << >> /\ dir \in Node /\ Has(dir, name) /\ Throws("EEXIST")
  <2>1. "EEXIST" \in errors /\ "EEXIST" \in Errno
    BY <1>0, <1>4, ThereIs DEF Contract!ErrorIf, Errno
  <2>. HIDE DEF errors
  <2>2. Contract!Refused(all)
    BY <1>0, <1>4, <2>1, RefusesAt
  <2>. QED
    BY <1>2, <2>2
<1>5. CASE /\ path # << >> /\ dir \in Node /\ ~Has(dir, name)
           /\ \E fresh \in Node : Makes(dir, name, fresh, "directory")
           /\ answer' = "ok" /\ UNCHANGED bytes
  <2>1. PICK fresh \in Node : Makes(dir, name, fresh, "directory")
    BY <1>5
  <2>2. Listing' = [q \in DOMAIN Listing \union {path} |-> IF q = path THEN "directory" ELSE Listing[q]]
    <3>1. Listing' = [q \in DOMAIN Listing \union {path} |->
                         IF q = path THEN (IF "directory" = "directory" THEN "directory" ELSE fresh)
                         ELSE Listing[q]]
      BY <1>0, <1>5, <2>1, MakesListing
    <3>. QED
      BY <3>1
  <2>3. kind[fresh] = "free" /\ kind' = [kind EXCEPT ![fresh] = "directory"] /\ DOMAIN kind = Node
    BY <1>0, <2>1 DEF Makes, Tree
  <2>4. \A g \in Node : kind'[g] = "file" <=> kind[g] = "file"
    BY <2>3
  <2>5. UNCHANGED Contents
    BY <1>5, <2>4 DEF Contents
  <2>6. Contract!Done(all)
    <3>1. ~Contract!Exists(path) /\ all = errors
      BY <1>0, <1>5, ThereIsNot, ErrorsAt
    <3>. QED
      BY <1>5, <3>1 DEF Contract!Done, Contract!ErrorIf
  <2>. QED
    BY <1>2, <2>2, <2>5, <2>6
<1>. HIDE DEF dir, name
<1>. QED
  BY <1>1, <1>3, <1>4, <1>5

\* rmdir and unlink take one entry, of what lists nothing.
LEMMA DeletesRefines ==
    ASSUME RInv, Tree', NEW path \in Path, path # << >>, ParentDir(path) \in Node,
           Has(ParentDir(path), Last(path)),
           DOMAIN children[children[ParentDir(path)][Last(path)]] = {},
           Deletes(ParentDir(path), Last(path))
    PROVE  answer' = "ok" /\ Listing' = Contract!Without(path) /\ UNCHANGED Contents
<1>1. Listing' = [q \in DOMAIN Listing \ {path} |-> Listing[q]]
  BY RInvTree, DeletesListing
<1>2. UNCHANGED Contents
  BY DEF Deletes, Contents
<1>3. answer' = "ok"
  BY DEF Deletes
<1>. QED
  BY <1>1, <1>2, <1>3, Zenon DEF Contract!Without

LEMMA RmdirRefines ==
    ASSUME RInv, Tree', NEW path \in Path, Rmdir(path)
    PROVE  Contract!Rmdir(path)
<1>. DEFINE dir    == ParentDir(path)
            name   == Last(path)
            node   == children[dir][name]
            errors == Contract!ErrorIf(~Contract!Exists(path), "ENOENT")
                      \union Contract!ErrorIf(Contract!Exists(path) /\ ~Contract!IsDir(path), "ENOTDIR")
                      \union Contract!ErrorIf(Contract!IsDir(path) /\ ~Contract!Empty(path), "ENOTEMPTY")
            all    == Contract!At(path, "EINVAL", errors)
<1>0. Tree
  BY RInvTree
<1>1. \/ path = << >> /\ Throws("EINVAL")
      \/ path # << >> /\ dir \in Errno /\ Throws(dir)
      \/ /\ path # << >> /\ dir \in Node
         /\ \/ ~Has(dir, name) /\ Throws("ENOENT")
            \/ Has(dir, name) /\ kind[node] # "directory" /\ Throws("ENOTDIR")
            \/ Has(dir, name) /\ kind[node] = "directory" /\ ~Emptied(node) /\ Throws("ENOTEMPTY")
            \/ Has(dir, name) /\ kind[node] = "directory" /\ Emptied(node) /\ Deletes(dir, name)
  BY DEF Rmdir, OnEntry
<1>2. path # << >> /\ dir \in Node => all = errors
  BY <1>0, ErrorsAt
<1>3. path # << >> /\ dir \in Node /\ ~Has(dir, name) => ~Contract!Exists(path)
  BY <1>0, ThereIsNot
<1>4. path # << >> /\ dir \in Node /\ Has(dir, name) =>
         /\ Contract!Exists(path)
         /\ Contract!IsDir(path) <=> kind[node] = "directory"
         /\ Contract!Empty(path) <=> Emptied(node)
  BY <1>0, ThereIs
<1>5. Contract!Rmdir(path) <=>
         \/ Contract!Refused(all)
         \/ Contract!Done(all) /\ Listing' = Contract!Without(path) /\ UNCHANGED Contents
  BY Zenon DEF Contract!Rmdir
<1>6. CASE \/ path = << >> /\ Throws("EINVAL")
           \/ path # << >> /\ dir \in Errno /\ Throws(dir)
  BY <1>0, <1>5, <1>6, RefusesAt DEF Errno
<1>7. ASSUME path # << >>, dir \in Node, NEW e \in Errno, e \in errors, Throws(e)
      PROVE  Contract!Rmdir(path)
  <2>. HIDE DEF errors
  <2>1. Contract!Refused(all)
    BY <1>0, <1>7, RefusesAt DEF Errno
  <2>. QED
    BY <1>5, <2>1
<1>8. CASE path # << >> /\ dir \in Node /\ ~Has(dir, name) /\ Throws("ENOENT")
  BY <1>3, <1>7, <1>8 DEF Contract!ErrorIf, Errno
<1>9. CASE path # << >> /\ dir \in Node /\ Has(dir, name) /\ kind[node] # "directory" /\ Throws("ENOTDIR")
  BY <1>4, <1>7, <1>9 DEF Contract!ErrorIf, Errno
<1>10. CASE path # << >> /\ dir \in Node /\ Has(dir, name) /\ kind[node] = "directory"
            /\ ~Emptied(node) /\ Throws("ENOTEMPTY")
  BY <1>4, <1>7, <1>10 DEF Contract!ErrorIf, Errno
<1>11. CASE path # << >> /\ dir \in Node /\ Has(dir, name) /\ kind[node] = "directory"
            /\ Emptied(node) /\ Deletes(dir, name)
  <2>1. answer' = "ok" /\ Listing' = Contract!Without(path) /\ UNCHANGED Contents
    BY <1>11, DeletesRefines DEF Emptied
  <2>2. Contract!Done(all)
    BY <1>2, <1>4, <1>11, <2>1 DEF Contract!Done, Contract!ErrorIf
  <2>. QED
    BY <1>5, <2>1, <2>2
<1>. HIDE DEF dir, name, node
<1>. QED
  BY <1>1, <1>6, <1>8, <1>9, <1>10, <1>11

LEMMA UnlinkRefines ==
    ASSUME RInv, Tree', NEW path \in Path, Unlink(path)
    PROVE  Contract!Unlink(path)
<1>. DEFINE dir    == ParentDir(path)
            name   == Last(path)
            node   == children[dir][name]
            errors == Contract!ErrorIf(~Contract!Exists(path), "ENOENT")
                      \union Contract!ErrorIf(Contract!IsDir(path), "EISDIR")
            all    == Contract!At(path, "EISDIR", errors)
<1>0. Tree
  BY RInvTree
<1>1. \/ path = << >> /\ Throws("EISDIR")
      \/ path # << >> /\ dir \in Errno /\ Throws(dir)
      \/ /\ path # << >> /\ dir \in Node
         /\ \/ ~Has(dir, name) /\ Throws("ENOENT")
            \/ Has(dir, name) /\ kind[node] = "directory" /\ Throws("EISDIR")
            \/ Has(dir, name) /\ kind[node] = "file" /\ Deletes(dir, name)
  BY DEF Unlink, OnEntry
<1>2. path # << >> /\ dir \in Node => all = errors
  BY <1>0, ErrorsAt
<1>3. path # << >> /\ dir \in Node /\ ~Has(dir, name) => ~Contract!Exists(path)
  BY <1>0, ThereIsNot
<1>4. path # << >> /\ dir \in Node /\ Has(dir, name) =>
         /\ node \in Node /\ Contract!Exists(path)
         /\ Contract!IsDir(path) <=> kind[node] = "directory"
  BY <1>0, ThereIs
<1>5. Contract!Unlink(path) <=>
         \/ Contract!Refused(all)
         \/ Contract!Done(all) /\ Listing' = Contract!Without(path) /\ UNCHANGED Contents
  BY Zenon DEF Contract!Unlink
<1>6. CASE \/ path = << >> /\ Throws("EISDIR")
           \/ path # << >> /\ dir \in Errno /\ Throws(dir)
  BY <1>0, <1>5, <1>6, RefusesAt DEF Errno
<1>7. ASSUME path # << >>, dir \in Node, NEW e \in Errno, e \in errors, Throws(e)
      PROVE  Contract!Unlink(path)
  <2>. HIDE DEF errors
  <2>1. Contract!Refused(all)
    BY <1>0, <1>7, RefusesAt DEF Errno
  <2>. QED
    BY <1>5, <2>1
<1>8. CASE path # << >> /\ dir \in Node /\ ~Has(dir, name) /\ Throws("ENOENT")
  BY <1>3, <1>7, <1>8 DEF Contract!ErrorIf, Errno
<1>9. CASE path # << >> /\ dir \in Node /\ Has(dir, name) /\ kind[node] = "directory" /\ Throws("EISDIR")
  BY <1>4, <1>7, <1>9 DEF Contract!ErrorIf, Errno
<1>10. CASE path # << >> /\ dir \in Node /\ Has(dir, name) /\ kind[node] = "file" /\ Deletes(dir, name)
  <2>1. DOMAIN children[node] = {}
    BY <1>0, <1>4, <1>10 DEF Tree
  <2>2. answer' = "ok" /\ Listing' = Contract!Without(path) /\ UNCHANGED Contents
    BY <1>10, <2>1, DeletesRefines
  <2>3. Contract!Done(all)
    BY <1>2, <1>4, <1>10, <2>2 DEF Contract!Done, Contract!ErrorIf
  <2>. QED
    BY <1>5, <2>2, <2>3
<1>. HIDE DEF dir, name, node
<1>. QED
  BY <1>1, <1>6, <1>8, <1>9, <1>10

\* rename, whose errors at `to` come after those at `from`.
LEMMA RenameRefines ==
    ASSUME RInv, Tree', ~MayNest, NEW from \in Path, NEW to \in Path, Rename(from, to)
    PROVE  Contract!Rename(from, to)
<1>. DEFINE fromDir == ParentDir(from)
            toDir   == ParentDir(to)
            node    == children[fromDir][Last(from)]
            there   == children[toDir][Last(to)]
            taken   == Has(toDir, Last(to))
            full    == taken /\ kind[there] = "directory" /\ ~Emptied(there)
            inner   == Contract!ErrorIf(from # to /\ Contract!IsDir(to) /\ ~Contract!Empty(to),
                                        "ENOTEMPTY")
                       \union Contract!ErrorIf(Contract!IsDir(to) /\ ~Contract!IsDir(from), "EISDIR")
                       \union Contract!ErrorIf(Contract!Exists(to) /\ ~Contract!IsDir(to)
                                                  /\ Contract!IsDir(from), "ENOTDIR")
                       \union Contract!ErrorIf(Contract!IsStrictPrefix(from, to), "EINVAL")
            entry   == IF ~Contract!Exists(from) THEN {"ENOENT"}
                       ELSE Contract!At(to, "EINVAL", inner)
            all     == IF << >> \in {from, to} THEN {"EINVAL"}
                       ELSE Contract!At(from, "EINVAL", entry)
            kept    == {q \in DOMAIN Listing : ~Contract!Under(from, q) /\ q # to}
            moved   == {q \in DOMAIN Listing : Contract!Under(from, q)}
<1>0. Tree
  BY RInvTree
<1>1. /\ ~IsStrictPrefix(from, to)
      /\ \/ << >> \in {from, to} /\ Throws("EINVAL")
         \/ << >> \notin {from, to} /\ fromDir \in Errno /\ Throws(fromDir)
         \/ /\ << >> \notin {from, to} /\ fromDir \in Node
            /\ \/ ~Has(fromDir, Last(from)) /\ Throws("ENOENT")
               \/ /\ Has(fromDir, Last(from))
                  /\ \/ toDir \in Errno /\ Throws(toDir)
                     \/ toDir \in Node /\ full /\ Throws("ENOTEMPTY")
                     \/ /\ toDir \in Node /\ taken /\ kind[there] # kind[node]
                        /\ Throws(IF kind[there] = "directory" THEN "EISDIR" ELSE "ENOTDIR")
                     \/ /\ toDir \in Node /\ (taken => ~full /\ kind[there] = kind[node])
                        /\ children' = Relinked(fromDir, Last(from), toDir, Last(to), node)
                        /\ answer' = "ok" /\ UNCHANGED <<kind, bytes>>
  BY DEF Rename, OnEntry
<1>2. Contract!Rename(from, to) <=>
         \/ Contract!Refused(all)
         \/ /\ Contract!Done(all)
            /\ Listing' = [q \in kept \union {Was(to, from, m) : m \in moved} |->
                              IF q \in kept THEN Listing[q] ELSE Listing[Was(from, to, q)]]
            /\ UNCHANGED Contents
         \/ Contract!RefusedOntoItself(from, to)
  BY Zenon DEF Contract!Rename, Was
<1>3. << >> \notin {from, to} => from # << >> /\ to # << >> /\ all = Contract!At(from, "EINVAL", entry)
  OBVIOUS
<1>. HIDE DEF entry, kept, moved
<1>4. CASE << >> \in {from, to} /\ Throws("EINVAL")
  <2>1. all = {"EINVAL"} /\ "EINVAL" \in Errno
    BY <1>4 DEF Errno
  <2>. HIDE DEF all
  <2>2. Contract!Refused(all)
    BY <1>0, <1>4, <2>1, Refuses
  <2>. QED
    BY <1>2, <2>2
<1>5. CASE << >> \notin {from, to} /\ fromDir \in Errno /\ Throws(fromDir)
  <2>1. Contract!Refused(Contract!At(from, "EINVAL", entry))
    BY <1>0, <1>3, <1>5, RefusesAt DEF Errno
  <2>. QED
    BY <1>2, <1>3, <1>5, <2>1
<1>6. ASSUME << >> \notin {from, to}, fromDir \in Node, NEW e \in Errno, e \in entry, Throws(e)
      PROVE  Contract!Rename(from, to)
  <2>1. Contract!Refused(Contract!At(from, "EINVAL", entry))
    BY <1>0, <1>3, <1>6, RefusesAt DEF Errno
  <2>. QED
    BY <1>2, <1>3, <1>6, <2>1
<1>7. CASE << >> \notin {from, to} /\ fromDir \in Node /\ ~Has(fromDir, Last(from)) /\ Throws("ENOENT")
  <2>1. ~Contract!Exists(from)
    BY <1>0, <1>3, <1>7, ThereIsNot
  <2>2. "ENOENT" \in entry /\ "ENOENT" \in Errno
    BY <2>1 DEF entry, Errno
  <2>. QED
    BY <1>6, <1>7, <2>2
<1>. DEFINE found == << >> \notin {from, to} /\ fromDir \in Node /\ Has(fromDir, Last(from))
<1>8. found => /\ node \in Node /\ Contract!Exists(from)
               /\ Contract!IsDir(from) <=> kind[node] = "directory"
               /\ kind[node] \in {"file", "directory"}
  BY <1>0, <1>3, ThereIs
<1>9. found => entry = Contract!At(to, "EINVAL", inner)
  BY <1>8 DEF entry
<1>10. found /\ toDir \in Node => entry = inner
  <2>. HIDE DEF inner
  <2>. QED
    BY <1>0, <1>3, <1>9, ErrorsAt
<1>11. found /\ toDir \in Node /\ taken =>
          /\ there \in Node /\ Contract!Exists(to)
          /\ Contract!IsDir(to) <=> kind[there] = "directory"
          /\ Contract!Empty(to) <=> Emptied(there)
          /\ kind[there] \in {"file", "directory"}
  BY <1>0, <1>3, ThereIs
<1>12. found /\ toDir \in Node /\ ~taken => ~Contract!Exists(to) /\ ~Contract!IsDir(to)
  BY <1>0, <1>3, ThereIsNot
<1>13. CASE found /\ toDir \in Errno /\ Throws(toDir)
  <2>1. Contract!ParentErrors(to) = {toDir}
    BY <1>0, <1>3, <1>13, ParentErrorIs
  <2>2. toDir \in entry
    BY <1>3, <1>9, <1>13, <2>1 DEF Contract!At
  <2>. QED
    BY <1>6, <1>13, <2>2
<1>14. CASE found /\ toDir \in Node /\ full /\ Throws("ENOTEMPTY")
  <2>1. Contract!IsDir(to) /\ ~Contract!Empty(to)
    BY <1>11, <1>14
  <2>2. CASE from # to
    <3>1. "ENOTEMPTY" \in entry /\ "ENOTEMPTY" \in Errno
      BY <1>10, <1>14, <2>1, <2>2 DEF Contract!ErrorIf, Errno
    <3>. QED
      BY <1>6, <1>14, <3>1
  <2>3. CASE from = to
    <3>1. answer' = "ENOTEMPTY" /\ UNCHANGED <<Listing, Contents>>
      <4>1. Listing' = Listing
        BY <1>0, <1>14, SameListing DEF Throws
      <4> QED BY <1>14, <4>1 DEF Throws, Contents
    <3>2. Contract!RefusedOntoItself(from, to)
      BY <1>14, <2>1, <2>3, <3>1 DEF Contract!RefusedOntoItself
    <3>. QED
      BY <1>2, <3>2
  <2>. QED
    BY <2>2, <2>3
<1>15. CASE /\ found /\ toDir \in Node /\ taken /\ kind[there] # kind[node]
            /\ Throws(IF kind[there] = "directory" THEN "EISDIR" ELSE "ENOTDIR")
  <2>. DEFINE e == IF kind[there] = "directory" THEN "EISDIR" ELSE "ENOTDIR"
  <2>1. e \in entry /\ e \in Errno
    BY <1>8, <1>10, <1>11, <1>15 DEF Contract!ErrorIf, Errno
  <2>. HIDE DEF e
  <2>2. Throws(e)
    BY <1>15 DEF e
  <2>. QED
    BY <1>6, <1>15, <2>1, <2>2
<1>16. CASE /\ found /\ toDir \in Node /\ (taken => ~full /\ kind[there] = kind[node])
            /\ children' = Relinked(fromDir, Last(from), toDir, Last(to), node)
            /\ answer' = "ok" /\ UNCHANGED <<kind, bytes>>
  <2>1. inner = {}
    BY <1>1, <1>8, <1>11, <1>12, <1>16, SameOperators DEF Contract!ErrorIf
  <2>2. all = {}
    <3>1. Contract!At(from, "EINVAL", entry) = entry
      BY <1>0, <1>3, <1>16, ErrorsAt
    <3>. QED
      BY <1>3, <1>10, <1>16, <2>1, <3>1
  <2>3. taken => DOMAIN children[there] = {}
    BY <1>0, <1>11, <1>16 DEF Tree, Emptied
  <2>4. /\ kept = Kept(from, to)
        /\ moved = Below(from)
    BY SameOperators DEF kept, moved, Contract!Under, Kept, Below
  <2>5. Listing' = [q \in kept \union {Was(to, from, m) : m \in moved} |->
                       IF q \in kept THEN Listing[q] ELSE Listing[Was(from, to, q)]]
    <3>1. /\ from # << >> /\ to # << >> /\ fromDir \in Node /\ toDir \in Node
          /\ Has(fromDir, Last(from)) /\ ~IsStrictPrefix(from, to)
          /\ Has(toDir, Last(to)) => DOMAIN children[children[toDir][Last(to)]] = {}
          /\ children' = Relinked(fromDir, Last(from), toDir, Last(to),
                                  children[fromDir][Last(from)])
          /\ kind' = kind
      BY <1>1, <1>3, <1>16, <2>3
    <3>2. Listing' = Grafted(from, to)
      BY <1>0, <3>1, MovesListing
    <3>. QED
      BY <2>4, <3>2, Zenon DEF Grafted
  <2>6. UNCHANGED Contents
    BY <1>16 DEF Contents
  <2>7. Contract!Done(all)
    BY <1>16, <2>2 DEF Contract!Done
  <2>. QED
    BY <1>2, <2>5, <2>6, <2>7
<1>. HIDE DEF fromDir, toDir, node, there, taken, full
<1>. QED
  BY <1>1, <1>4, <1>5, <1>7, <1>13, <1>14, <1>15, <1>16

\* Through a handle a file is grown, written and cut as the interface says.
LEMMA SameWritten ==
    ASSUME NEW s, NEW buf, NEW at
    PROVE  /\ Written(s, buf, at) = Contract!Overwritten(s, buf, at)
           /\ Buffers = Contract!Buffers
<1>1. Grown(s, at + Len(buf)) = Contract!Resized(s, Contract!Larger(Len(s), at + Len(buf)))
  BY Zenon DEF Grown, Larger, Contract!Resized, Contract!Larger
<1>2. Buffers = Contract!Buffers
  BY Zenon DEF Buffers, Contract!Buffers
<1>. QED
  BY <1>1, <1>2, Zenon DEF Written, Contract!Overwritten

\* The calls on handles, whose nodes are files, named or not.
LEMMA WriteRefines ==
    ASSUME RInv, Tree', NEW h \in Handles, NEW buf \in Buffers, NEW at \in 0..MaxSize,
           Write(h, buf, at)
    PROVE  \/ Contract!RefusedByHandle
           \/ h.node \in Node /\ buf \in Contract!Buffers /\ Contract!Write(h.node, buf, at)
<1>0. Tree /\ DOMAIN bytes = Node
  BY RInvTree DEF RInv, IInv, TypeInvariant
<1>1. h.node \in Node /\ kind[h.node] = "file"
  BY DEF Handles
<1>2. CASE Throws("EINVAL")
  <2>1. Listing' = Listing
    BY <1>0, <1>2, SameListing DEF Throws
  <2>2. Contents' = Contents
    BY <1>2 DEF Throws, Contents
  <2>. QED
    BY <1>2, <2>1, <2>2 DEF Throws, Contract!RefusedByHandle
<1>3. CASE /\ bytes' = [bytes EXCEPT ![h.node] = Written(@, buf, at)]
           /\ answer' = "ok" /\ UNCHANGED <<kind, children>>
  <2>1. Listing' = Listing
    BY <1>0, <1>3, SameListing
  <2>2. h.node \in DOMAIN Contents /\ Contents[h.node] = bytes[h.node]
    BY <1>1 DEF Contents
  <2>3. Contents' = [Contents EXCEPT ![h.node] = Written(bytes[h.node], buf, at)]
    <3>. DEFINE w == Written(bytes[h.node], buf, at)
                f == h.node
    <3>1. bytes' = [bytes EXCEPT ![f] = w]
      BY <1>3
    <3>. HIDE DEF w, f
    <3>2. Contents' = [Contents EXCEPT ![f] = w]
      BY <1>0, <1>3, <3>1 DEF Contents
    <3>. QED
      BY <3>2 DEF w, f
  <2>4. Contract!Write(h.node, buf, at)
    <3>1. Contract!Write(h.node, buf, at) <=>
             /\ h.node \in DOMAIN Contents
             /\ Contents' = [Contents EXCEPT ![h.node] =
                                Contract!Overwritten(Contents[h.node], buf, at)]
             /\ answer' = "ok"
             /\ UNCHANGED Listing
      BY Zenon DEF Contract!Write
    <3>2. Contract!Overwritten(Contents[h.node], buf, at) = Written(bytes[h.node], buf, at)
      BY <2>2, SameWritten
    <3>. QED
      BY <1>3, <2>1, <2>2, <2>3, <3>1, <3>2, Zenon
  <2>. QED
    BY <1>1, <2>4, SameWritten
<1>. QED
  BY <1>2, <1>3 DEF Write

LEMMA TruncateRefines ==
    ASSUME RInv, Tree', NEW h \in Handles, NEW size \in 0..MaxSize, Truncate(h, size)
    PROVE  h.node \in Node /\ Contract!Truncate(h.node, size)
<1>0. Tree /\ DOMAIN bytes = Node
  BY RInvTree DEF RInv, IInv, TypeInvariant
<1>1. h.node \in Node /\ kind[h.node] = "file"
  BY DEF Handles
<1>2. /\ bytes' = [bytes EXCEPT ![h.node] = Contract!Resized(bytes[h.node], size)]
      /\ answer' = "ok" /\ UNCHANGED <<kind, children>>
  BY Zenon DEF Truncate, Contract!Resized
<1>3. Listing' = Listing
  BY <1>0, <1>2, SameListing
<1>4. h.node \in DOMAIN Contents /\ Contents[h.node] = bytes[h.node]
  BY <1>1 DEF Contents
<1>5. Contents' = [Contents EXCEPT ![h.node] = Contract!Resized(Contents[h.node], size)]
  <2>. DEFINE w == Contract!Resized(bytes[h.node], size)
              f == h.node
  <2>1. bytes' = [bytes EXCEPT ![f] = w] /\ Contents[f] = bytes[f]
    BY <1>2, <1>4
  <2>. HIDE DEF w, f
  <2>2. Contents' = [Contents EXCEPT ![f] = w]
    BY <1>0, <1>2, <2>1 DEF Contents
  <2>. QED
    BY <1>4, <2>2 DEF w, f
<1>. QED
  BY <1>1, <1>2, <1>3, <1>4, <1>5, Zenon DEF Contract!Truncate

LEMMA ReadRefines ==
    ASSUME RInv, Tree', NEW h \in Handles, ReadRefused(h)
    PROVE  Contract!RefusedByHandle
<1>1. Throws("EINVAL")
  BY DEF ReadRefused
<1>2. Listing' = Listing
  BY <1>1, RInvTree, SameListing DEF Throws
<1>3. Contents' = Contents
  BY <1>1 DEF Throws, Contents
<1>. QED
  BY <1>1, <1>2, <1>3 DEF Throws, Contract!RefusedByHandle

\* Only a file's bytes change, and a node that is made starts with none.
LEMMA NextBlank == ASSUME RInv, [Next]_vars  PROVE Blank'
<1>. SUFFICES \A n \in Node : kind'[n] = "free" => kind[n] = "free" /\ bytes'[n] = bytes[n]
  BY DEF RInv, Blank
<1>0. /\ kind \in [Node -> {"free", "file", "directory"}] /\ DOMAIN bytes = Node
  BY DEF RInv, IInv, TypeInvariant
<1>1. CASE UNCHANGED <<kind, bytes>>
  BY <1>1
<1>2. ASSUME NEW dir, NEW name, NEW fresh \in Node, NEW type \in {"file", "directory"},
             Makes(dir, name, fresh, type), UNCHANGED bytes
      PROVE  \A n \in Node : kind'[n] = "free" => kind[n] = "free" /\ bytes'[n] = bytes[n]
  BY <1>0, <1>2 DEF Makes
<1>3. ASSUME NEW f \in Node, kind[f] = "file", NEW b, bytes' = [bytes EXCEPT ![f] = b], kind' = kind
      PROVE  \A n \in Node : kind'[n] = "free" => kind[n] = "free" /\ bytes'[n] = bytes[n]
  BY <1>0, <1>3
<1>4. ASSUME NEW p \in Path, NEW c, NEW x, NEW t, NEW w, Open(p, c, x, t, w)
      PROVE  \A n \in Node : kind'[n] = "free" => kind[n] = "free" /\ bytes'[n] = bytes[n]
  <2>. DEFINE dir  == ParentDir(p)
              node == children[dir][Last(p)]
  <2>1. \/ UNCHANGED <<kind, bytes>>
        \/ \E fresh \in Node : Makes(dir, Last(p), fresh, "file") /\ UNCHANGED bytes
        \/ /\ dir \in Node /\ Has(dir, Last(p)) /\ kind[node] = "file" /\ kind' = kind
           /\ bytes' = [bytes EXCEPT ![node] = IF t /\ w THEN << >> ELSE @]
    BY <1>4 DEF Open, OnEntry, Throws
  <2>2. CASE /\ dir \in Node /\ Has(dir, Last(p)) /\ kind[node] = "file" /\ kind' = kind
             /\ bytes' = [bytes EXCEPT ![node] = IF t /\ w THEN << >> ELSE @]
    <3>1. node \in Node
      BY <2>2, RInvTree DEF Tree, Has
    <3>. DEFINE b == IF t /\ w THEN << >> ELSE bytes[node]
    <3>2. bytes' = [bytes EXCEPT ![node] = b]
      BY <2>2
    <3>. HIDE DEF b, node, dir
    <3>. QED
      BY <1>3, <2>2, <3>1, <3>2
  <2>. HIDE DEF dir, node
  <2>. QED
    BY <1>1, <1>2, <2>1, <2>2
<1>5. ASSUME NEW p \in Path, Mkdir(p)
      PROVE  \A n \in Node : kind'[n] = "free" => kind[n] = "free" /\ bytes'[n] = bytes[n]
  <2>1. \/ UNCHANGED <<kind, bytes>>
        \/ \E fresh \in Node : Makes(ParentDir(p), Last(p), fresh, "directory") /\ UNCHANGED bytes
    BY <1>5 DEF Mkdir, OnEntry, Throws
  <2>. QED
    BY <1>1, <1>2, <2>1
<1>6. ASSUME NEW p \in Path, Rmdir(p) \/ Unlink(p)  PROVE UNCHANGED <<kind, bytes>>
  BY <1>6 DEF Rmdir, Unlink, OnEntry, Throws, Deletes
<1>7. ASSUME NEW p \in Path, NEW q \in Path, Rename(p, q)  PROVE UNCHANGED <<kind, bytes>>
  BY <1>7 DEF Rename, OnEntry, Throws
<1>8. ASSUME NEW h \in Handles, NEW buf, NEW at, Write(h, buf, at)
      PROVE  \A n \in Node : kind'[n] = "free" => kind[n] = "free" /\ bytes'[n] = bytes[n]
  <2>1. h.node \in Node /\ kind[h.node] = "file"
    BY DEF Handles
  <2>2. \/ UNCHANGED <<kind, bytes>>
        \/ bytes' = [bytes EXCEPT ![h.node] = Written(bytes[h.node], buf, at)] /\ kind' = kind
    BY <1>8, Zenon DEF Write, Throws
  <2>. QED
    BY <1>1, <1>3, <2>1, <2>2
<1>9. ASSUME NEW h \in Handles, NEW size, Truncate(h, size)
      PROVE  \A n \in Node : kind'[n] = "free" => kind[n] = "free" /\ bytes'[n] = bytes[n]
  <2>. DEFINE b == [i \in 1..size |-> IF i <= Len(bytes[h.node]) THEN bytes[h.node][i] ELSE 0]
  <2>1. h.node \in Node /\ kind[h.node] = "file"
    BY DEF Handles
  <2>2. bytes' = [bytes EXCEPT ![h.node] = b] /\ kind' = kind
    BY <1>9, Zenon DEF Truncate
  <2>. HIDE DEF b
  <2>. QED
    BY <1>3, <2>1, <2>2
<1>10. ASSUME NEW h \in Handles, ReadRefused(h)  PROVE UNCHANGED <<kind, bytes>>
  BY <1>10 DEF ReadRefused, Throws
<1>. QED
  BY <1>1, <1>4, <1>5, <1>6, <1>7, <1>8, <1>9, <1>10 DEF Next, vars

LEMMA NextRInv == RInv /\ [Next]_vars => RInv'
BY NextIInv, NextBlank DEF RInv

\* At the start there is the root.
LEMMA InitRefines == Init => RInv /\ Contract!Init
<1>. SUFFICES ASSUME Init  PROVE RInv /\ Contract!Init
  OBVIOUS
<1>1. RInv
  BY InitIInv DEF RInv, Blank, Init
<1>2. Tree
  BY <1>1, RInvTree
<1>3. /\ DOMAIN Listing = {p \in Seq(Name) : \E n \in Node : Leads(p, n)}
      /\ \A p \in Seq(Name) : \A n \in Node : Leads(p, n) => Listing[p] = Shown(n)
      /\ Listing = [p \in DOMAIN Listing |-> Listing[p]]
  BY <1>2, ListingOf
<1>4. Leads(<< >>, RootDir) /\ << >> \in Seq(Name)
  BY <1>2, RootLeads
<1>5. ASSUME NEW p \in Seq(Name), NEW n \in Node, Leads(p, n)  PROVE p = << >>
  <2>. SUFFICES ASSUME p # << >>  PROVE FALSE
    OBVIOUS
  <2>1. PICK d \in Node : Has(d, Last(p))
    BY <1>2, <1>5, LeadsBack
  <2>. QED
    BY <2>1 DEF Init, NoNames, Has
<1>6. Shown(RootDir) = "directory"
  BY MemoryFsAssumption DEF Init, Shown
<1>. DEFINE L == Listing
<1>. HIDE DEF L
<1>7. DOMAIN L = {<< >>} /\ L[<< >>] = "directory" /\ L = [p \in DOMAIN L |-> L[p]]
  BY <1>3, <1>4, <1>5, <1>6, MemoryFsAssumption DEF L
<1>8. L = [p \in {<< >>} |-> "directory"]
  BY <1>7
<1>9. Contents = [f \in {} |-> << >>]
  BY DEF Init, Contents
<1>. QED
  BY <1>1, <1>8, <1>9 DEF L, Contract!Init, Init

LEMMA StutterRefines ==
    ASSUME Tree, Tree', UNCHANGED vars
    PROVE  UNCHANGED Contract!vars
<1>1. Listing' = Listing
  BY SameListing DEF vars
<1>2. Contents' = Contents
  BY DEF vars, Contents
<1>. QED
  BY <1>1, <1>2 DEF vars, Contract!vars

\* Every step is one of the interface.
LEMMA StepRefines ==
    ASSUME RInv, ~MayNest, Next
    PROVE  Contract!Next
<1>1. Tree'
  <2>1. RInv'
    BY NextRInv
  <2>. QED
    BY <2>1 DEF RInv, IInv, TypeInvariant, Tree
<1>2. CASE Calls("open", 0) /\ \E p \in Path : \E c, x, t, w \in BOOLEAN : Open(p, c, x, t, w)
  BY <1>1, <1>2, OpenRefines DEF Contract!Next, Contract!Calls, Calls
<1>3. CASE Calls("mkdir", 0) /\ \E p \in Path : Mkdir(p)
  BY <1>1, <1>3, MkdirRefines DEF Contract!Next, Contract!Calls, Calls
<1>4. CASE Calls("rmdir", 0) /\ \E p \in Path : Rmdir(p)
  BY <1>1, <1>4, RmdirRefines DEF Contract!Next, Contract!Calls, Calls
<1>5. CASE Calls("unlink", 0) /\ \E p \in Path : Unlink(p)
  BY <1>1, <1>5, UnlinkRefines DEF Contract!Next, Contract!Calls, Calls
<1>6. CASE Calls("rename", 0) /\ \E p, q \in Path : Rename(p, q)
  BY <1>1, <1>6, RenameRefines DEF Contract!Next, Contract!Calls, Calls
<1>7. CASE \E at \in 0..MaxSize : Calls("write", at) /\ \E h \in Handles, buf \in Buffers : Write(h, buf, at)
  BY <1>1, <1>7, WriteRefines DEF Contract!Next, Contract!Calls, Calls
<1>8. CASE Calls("truncate", 0) /\ \E h \in Handles, n \in 0..MaxSize : Truncate(h, n)
  BY <1>1, <1>8, TruncateRefines DEF Contract!Next, Contract!Calls, Calls
<1>9. CASE Calls("read", 0) /\ \E h \in Handles : ReadRefused(h)
  BY <1>1, <1>9, ReadRefines DEF Contract!Next, Contract!Calls, Calls
<1>. QED
  BY <1>2, <1>3, <1>4, <1>5, <1>6, <1>7, <1>8, <1>9 DEF Next

\* MemoryFs keeps the interface's promise.  Where no directory is moved below itself, each
\* call does to the paths what FileTree's operation does, and answers an error only when it
\* applies and nothing is done.
THEOREM ImplementsTheTree == ~MayNest /\ Spec => ImplementsTree
<1>. SUFFICES ASSUME ~MayNest  PROVE Spec => ImplementsTree
  OBVIOUS
<1>1. RInv /\ [Next]_vars => [Contract!Next]_(Contract!vars)
  <2>. SUFFICES ASSUME RInv, [Next]_vars  PROVE Contract!Next \/ UNCHANGED Contract!vars
    OBVIOUS
  <2>1. Tree /\ Tree'
    <3>1. RInv'
      BY NextRInv
    <3>. QED
      BY <3>1 DEF RInv, IInv, TypeInvariant, Tree
  <2>. QED
    BY <2>1, StepRefines, StutterRefines
<1>. QED
  BY <1>1, InitRefines, NextRInv, PTL DEF Spec, ImplementsTree, Contract!Spec
=============================================================================
