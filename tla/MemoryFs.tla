------------------------------ MODULE MemoryFs ------------------------------
(* MemoryFs (src/packages/kernel/src/fs/MemoryFs.ts): a tree of nodes linked *)
(* by the children maps of the directories.                                  *)
(*                                                                           *)
(* No method awaits anything, so each call is one step.  A path is already   *)
(* normalized: the sequence of the names on it.  A JavaScript object that    *)
(* nothing refers to is never seen again, so a node is not used twice.       *)
(* Times are left out.                                                       *)
EXTENDS Integers, Sequences, FiniteSets, SequencesExt

CONSTANTS
    Name,      \* names of entries
    Node,      \* the objects FileNode and DirNode
    RootDir,   \* this.root
    MaxDepth,  \* bound on the length of the paths that are asked for
    Byte,      \* what a file is made of
    MaxSize,   \* bound on the size of a file
    MayNest    \* whether a directory may be asked to move below itself

Errno == {"ENOENT", "EEXIST", "ENOTDIR", "EISDIR", "ENOTEMPTY", "EINVAL"}

ASSUME MemoryFsAssumption ==
    /\ RootDir \in Node /\ IsFiniteSet(Node)
    /\ Node \intersect (Errno \union {"directory"}) = {}
    /\ MaxDepth \in Nat
    /\ MaxSize \in Nat
    /\ 0 \in Byte
    /\ MayNest \in BOOLEAN

VARIABLES
    kind,      \* node.type, "free" before the object is made
    children,  \* node.children
    bytes,     \* node.bytes
    call,      \* the method called last, and the offset it was given
    answer     \* its answer: "ok" or the errno of the FsError

vars == <<kind, children, bytes, call, answer>>

Path    == UNION {[1..n -> Name] : n \in 0..MaxDepth}
NoNames == [n \in {} |-> RootDir]

Init ==
    /\ kind = [n \in Node |-> IF n = RootDir THEN "directory" ELSE "free"]
    /\ children = [n \in Node |-> NoNames]
    /\ bytes = [n \in Node |-> << >>]
    /\ call = <<"none", 0>>
    /\ answer = "ok"

-----------------------------------------------------------------------------
\* One turn of lookup's loop; an error is kept to the end.
Descend(at, name) ==
    IF at \in Errno THEN at
    ELSE IF kind[at] # "directory" THEN "ENOTDIR"
    ELSE IF name \notin DOMAIN children[at] THEN "ENOENT"
    ELSE children[at][name]

Lookup(path) ==
    LET at[i \in 0..Len(path)] == IF i = 0 THEN RootDir ELSE Descend(at[i - 1], path[i])
    IN  at[Len(path)]

ParentDirUnchecked(path) == Lookup(Front(path))

\* parentDir: the directory the path's last name is in, or an error.
ParentDir(path) ==
    LET parent == Lookup(Front(path))
    IN  IF parent \in Node /\ kind[parent] # "directory" THEN "ENOTDIR" ELSE parent

Has(dir, name) == name \in DOMAIN children[dir]

Throws(errno) == answer' = errno /\ UNCHANGED <<kind, children, bytes>>

\* What every operation on an entry begins with: "/" has none, and the parent must be a
\* directory.  `Entry` is the rest of it, given the parent and the name.
OnEntry(path, onRoot, Entry(_, _)) ==
    \/ path = << >> /\ Throws(onRoot)
    \/ path # << >> /\ ParentDir(path) \in Errno /\ Throws(ParentDir(path))
    \/ path # << >> /\ ParentDir(path) \in Node /\ Entry(ParentDir(path), Last(path))

\* children.set and children.delete.
With(names, name, node) == [m \in DOMAIN names \union {name} |-> IF m = name THEN node ELSE names[m]]
Without(names, name)    == [m \in DOMAIN names \ {name} |-> names[m]]

\* newFile, newDir.
Makes(dir, name, node, type) ==
    /\ kind[node] = "free"
    /\ kind' = [kind EXCEPT ![node] = type]
    /\ children' = [children EXCEPT ![dir] = With(@, name, node)]

Open(path, create, exclusive, truncate, write) ==
    LET Entry(dir, name) ==
            LET node == children[dir][name]
            IN  \/ /\ ~Has(dir, name) /\ ~create
                   /\ Throws("ENOENT")
                \/ /\ ~Has(dir, name) /\ create
                   /\ \E fresh \in Node :
                         Makes(dir, name, fresh, "file")
                   /\ answer' = "ok"
                   /\ UNCHANGED bytes
                \/ /\ Has(dir, name) /\ exclusive /\ create
                   /\ Throws("EEXIST")
                \/ /\ Has(dir, name) /\ ~(exclusive /\ create) /\ kind[node] = "directory"
                   /\ Throws("EISDIR")
                \/ /\ Has(dir, name) /\ ~(exclusive /\ create) /\ kind[node] = "file"
                   /\ bytes' = [bytes EXCEPT ![node] = IF truncate /\ write THEN << >> ELSE @]
                   /\ answer' = "ok"
                   /\ UNCHANGED <<kind, children>>
    IN  OnEntry(path, "EISDIR", Entry)

Mkdir(path) ==
    LET Entry(dir, name) ==
            \/ Has(dir, name) /\ Throws("EEXIST")
            \/ /\ ~Has(dir, name)
               /\ \E fresh \in Node : Makes(dir, name, fresh, "directory")
               /\ answer' = "ok"
               /\ UNCHANGED bytes
    IN  OnEntry(path, "EEXIST", Entry)

Deletes(dir, name) ==
    /\ children' = [children EXCEPT ![dir] = Without(@, name)]
    /\ answer' = "ok"
    /\ UNCHANGED <<kind, bytes>>

NeverEmptied(node) == TRUE
Emptied(node) == DOMAIN children[node] = {}

Rmdir(path) ==
    LET Entry(dir, name) ==
            LET node == children[dir][name]
            IN  \/ ~Has(dir, name) /\ Throws("ENOENT")
                \/ Has(dir, name) /\ kind[node] # "directory" /\ Throws("ENOTDIR")
                \/ Has(dir, name) /\ kind[node] = "directory" /\ ~Emptied(node) /\ Throws("ENOTEMPTY")
                \/ Has(dir, name) /\ kind[node] = "directory" /\ Emptied(node) /\ Deletes(dir, name)
    IN  OnEntry(path, "EINVAL", Entry)

Unlink(path) ==
    LET Entry(dir, name) ==
            LET node == children[dir][name]
            IN  \/ ~Has(dir, name) /\ Throws("ENOENT")
                \/ Has(dir, name) /\ kind[node] = "directory" /\ Throws("EISDIR")
                \/ Has(dir, name) /\ kind[node] = "file" /\ Deletes(dir, name)
    IN  OnEntry(path, "EISDIR", Entry)

\* fromParent.children.delete and then toParent.children.set.
Linked(fromDir, fromName, toDir, toName, node) ==
    [children EXCEPT ![toDir] = With(@, toName, node)]
Replaced(fromDir, fromName, toDir, toName, node) ==
    LET set == [children EXCEPT ![toDir] = With(@, toName, node)]
    IN  [set EXCEPT ![fromDir] = Without(@, fromName)]
Relinked(fromDir, fromName, toDir, toName, node) ==
    LET deleted == [children EXCEPT ![fromDir] = Without(@, fromName)]
    IN  [deleted EXCEPT ![toDir] = With(@, toName, node)]

\* rename looks at what is at `to`, never at where `to` is.
Rename(from, to) ==
    LET To(fromDir, node, toDir, name) ==
            LET there == children[toDir][name]
                taken == Has(toDir, name)
                full  == taken /\ kind[there] = "directory" /\ ~Emptied(there)
            IN  \/ full /\ Throws("ENOTEMPTY")
                \/ /\ taken /\ ~full /\ kind[there] # kind[node]
                   /\ Throws(IF kind[there] = "directory" THEN "EISDIR" ELSE "ENOTDIR")
                \/ /\ taken => ~full /\ kind[there] = kind[node]
                   /\ children' = Relinked(fromDir, Last(from), toDir, name, node)
                   /\ answer' = "ok"
                   /\ UNCHANGED <<kind, bytes>>
        Entry(dir, name) ==
            \/ ~Has(dir, name) /\ Throws("ENOENT")
            \/ /\ Has(dir, name)
               /\ OnEntry(to, "EINVAL", LAMBDA d, n : To(dir, children[dir][name], d, n))
    IN  /\ MayNest \/ ~IsStrictPrefix(from, to)
        /\ IF to = << >> THEN Throws("EINVAL") ELSE OnEntry(from, "EINVAL", Entry)

-----------------------------------------------------------------------------
(* MemoryFileHandle: a node and the flags of the open that made it, whatever *)
(* has become of the node's name since.                                      *)

Handles == [node : {n \in Node : kind[n] = "file"}, read : BOOLEAN, write : BOOLEAN]

Larger(m, n)  == IF m > n THEN m ELSE n
Grown(s, end) == [i \in 1..Larger(Len(s), end) |-> IF i <= Len(s) THEN s[i] ELSE 0]

WrittenFromStart(s, buf, at) ==
    [i \in DOMAIN Grown(s, at + Len(buf)) |->
        IF i \in DOMAIN buf THEN buf[i] ELSE Grown(s, at + Len(buf))[i]]

\* buf at offset `at` of s.
Written(s, buf, at) ==
    [i \in DOMAIN Grown(s, at + Len(buf)) |->
        IF i \in at + 1..at + Len(buf) THEN buf[i - at] ELSE Grown(s, at + Len(buf))[i]]

Write(h, buf, at) ==
    \/ ~h.write /\ Throws("EINVAL")
    \/ /\ h.write
       /\ at + Len(buf) <= MaxSize
       /\ bytes' = [bytes EXCEPT ![h.node] = Written(@, buf, at)]
       /\ answer' = "ok"
       /\ UNCHANGED <<kind, children>>

\* truncate does not ask how the handle was opened.
Truncate(h, size) ==
    /\ bytes' = [bytes EXCEPT ![h.node] = [i \in 1..size |-> IF i <= Len(@) THEN @[i] ELSE 0]]
    /\ answer' = "ok"
    /\ UNCHANGED <<kind, children>>

ReadRefused(h) == ~h.read /\ Throws("EINVAL")

-----------------------------------------------------------------------------
\* The shim never sends an empty write.
Buffers == UNION {[1..n -> Byte] : n \in 1..MaxSize}

Calls(method, at) == call' = <<method, at>>

Next ==
    \/ Calls("open", 0) /\ \E p \in Path : \E c, x, t, w \in BOOLEAN : Open(p, c, x, t, w)
    \/ Calls("mkdir", 0) /\ \E p \in Path : Mkdir(p)
    \/ Calls("rmdir", 0) /\ \E p \in Path : Rmdir(p)
    \/ Calls("unlink", 0) /\ \E p \in Path : Unlink(p)
    \/ Calls("rename", 0) /\ \E p, q \in Path : Rename(p, q)
    \/ \E at \in 0..MaxSize : Calls("write", at) /\ \E h \in Handles, buf \in Buffers : Write(h, buf, at)
    \/ Calls("truncate", 0) /\ \E h \in Handles, n \in 0..MaxSize : Truncate(h, n)
    \/ Calls("read", 0) /\ \E h \in Handles : ReadRefused(h)

Spec == Init /\ [][Next]_vars

-----------------------------------------------------------------------------
(* Properties.                                                               *)

Method == {"none", "open", "mkdir", "rmdir", "unlink", "rename", "write", "truncate", "read"}

\* The types of the nodes; a directory's entries lead to nodes that were made, and only
\* directories have entries.
TypeInvariant ==
    /\ kind \in [Node -> {"free", "file", "directory"}]
    /\ kind[RootDir] = "directory"
    /\ bytes \in [Node -> Seq(Byte)]
    /\ DOMAIN children = Node
    /\ \A d \in Node :
          /\ DOMAIN children[d] \subseteq Name
          /\ \A m \in DOMAIN children[d] : children[d][m] \in Node /\ kind[children[d][m]] # "free"
          /\ DOMAIN children[d] # {} => kind[d] = "directory"
    /\ answer \in Errno \union {"ok"}
    /\ call \in Method \X (0..MaxSize)

\* Nothing has two names: whatever is renamed, over whatever, at most one entry leads to a
\* node, and none to the root.
OneName ==
    \A d, e \in Node : \A m \in DOMAIN children[d], n \in DOMAIN children[e] :
        /\ children[d][m] # RootDir
        /\ children[d][m] = children[e][n] => d = e /\ m = n

Entries(S) == UNION {{children[d][m] : m \in DOMAIN children[d]} : d \in S}

\* What has a path: all that can be reached from the root.
Located ==
    LET Below(e) == {[path |-> Append(e.path, m), node |-> children[e.node][m]] :
                        m \in DOMAIN children[e.node]}
        at[i \in 0..Cardinality(Node)] ==
            IF i = 0 THEN {[path |-> << >>, node |-> RootDir]} ELSE UNION {Below(e) : e \in at[i - 1]}
    IN  UNION {at[i] : i \in 0..Cardinality(Node)}

\* Nothing is lost by accident: what some directory lists can be reached from the root.
\* A node without a path was unlinked, removed or replaced itself, never its directory.
NothingOrphaned == Entries(Node) \subseteq {e.node : e \in Located}

\* What is under each path, and what each file holds, whether or not it still has one.
Listing ==
    [p \in {e.path : e \in Located} |->
        LET there == (CHOOSE e \in Located : e.path = p).node
        IN  IF kind[there] = "directory" THEN "directory" ELSE there]
Contents == [n \in {m \in Node : kind[m] = "file"} |-> bytes[n]]

\* MemoryFs is a FileTree: the nodes that can be reached, under their paths.
Contract == INSTANCE FileTree WITH File <- Node, tree <- Listing, data <- Contents

\* Every call does to the tree what the interface promises, or answers an error that
\* applies and does nothing: it behaves as POSIX says (ARCHITECTURE.md:30), but for two
\* exceptions that FileTree names.  A directory that has entries cannot be renamed onto
\* itself (ENOTEMPTY, line 127), and a file is truncated through a handle that was opened
\* for reading only (line 191).
ImplementsTree == Contract!Spec
=============================================================================
