------------------------------ MODULE FileTree ------------------------------
(* What a FileSystem (src/packages/kernel/src/fs/FileSystem.ts) promises:    *)
(* one tree of names.  It is a map from paths to what is there, and an       *)
(* operation changes whole subtrees at once: no nodes, no parents, no        *)
(* handles.  A path is the sequence of the names on it, and << >> is "/".    *)
(*                                                                           *)
(* A call that cannot be done answers one of the errors that apply, and      *)
(* changes nothing; one to which none applies must be done.                  *)
(*                                                                           *)
(* What applies is what POSIX says, which docs/ARCHITECTURE.md:30 names as   *)
(* the measure.  The code departs from it in two calls.  They are allowed    *)
(* here as exceptions, beside what POSIX says: RefusedOntoItself, and a      *)
(* Truncate that does not ask for a handle opened for writing.               *)
EXTENDS Integers, Sequences, SequencesExt

CONSTANTS
    Path,   \* the paths in play
    File,   \* identities of files
    Byte,   \* what a file is made of, 0 among it
    MaxSize \* bound on the size of a file

VARIABLES
    tree,    \* path -> "directory", or the file that is there
    data,    \* file -> its bytes, named or not
    call,    \* the last operation asked for, and its offset
    answer   \* its answer: "ok" or an error

vars == <<tree, data, call, answer>>

Init ==
    /\ tree = [p \in {<< >>} |-> "directory"]
    /\ data = [f \in {} |-> << >>]
    /\ call = <<"none", 0>>
    /\ answer = "ok"

Exists(p)   == p \in DOMAIN tree
IsDir(p)    == Exists(p) /\ tree[p] = "directory"
Empty(p)    == \A q \in DOMAIN tree : ~IsStrictPrefix(p, q)
Under(p, q) == IsPrefix(p, q)

\* What is wrong with the directory that p would be in.
ParentErrors(p) ==
    CASE IsDir(Front(p)) -> {}
      [] \E q \in DOMAIN tree : IsStrictPrefix(q, p) /\ ~IsDir(q) -> {"ENOTDIR"}
      [] OTHER -> {"ENOENT"}

ErrorIf(condition, errno) == IF condition THEN {errno} ELSE {}

\* The errors of an operation on the entry p, given those of its parent.
At(p, onRoot, errors) ==
    IF p = << >> THEN {onRoot} ELSE IF ParentErrors(p) # {} THEN ParentErrors(p) ELSE errors

Refused(errors) == answer' # "ok" /\ answer' \in errors /\ UNCHANGED <<tree, data>>
Done(errors)    == answer' = "ok" /\ errors = {}

Larger(m, n)  == IF m > n THEN m ELSE n
Resized(s, n) == [i \in 1..n |-> IF i <= Len(s) THEN s[i] ELSE 0]

Open(p, create, exclusive, truncate, write) ==
    LET errors == At(p, "EISDIR",
                     ErrorIf(~Exists(p) /\ ~create, "ENOENT")
                     \union ErrorIf(Exists(p) /\ create /\ exclusive, "EEXIST")
                     \union ErrorIf(IsDir(p), "EISDIR"))
    IN  \/ Refused(errors)
        \/ /\ Done(errors)
           /\ Exists(p)
           /\ data' = [data EXCEPT ![tree[p]] = IF truncate /\ write THEN << >> ELSE @]
           /\ UNCHANGED tree
        \/ /\ Done(errors)
           /\ ~Exists(p)
           /\ \E f \in File \ DOMAIN data :
                 /\ tree' = [q \in DOMAIN tree \union {p} |-> IF q = p THEN f ELSE tree[q]]
                 /\ data' = [g \in DOMAIN data \union {f} |-> IF g = f THEN << >> ELSE data[g]]

Mkdir(p) ==
    LET errors == At(p, "EEXIST", ErrorIf(Exists(p), "EEXIST"))
    IN  \/ Refused(errors)
        \/ /\ Done(errors)
           /\ tree' = [q \in DOMAIN tree \union {p} |-> IF q = p THEN "directory" ELSE tree[q]]
           /\ UNCHANGED data

Without(p) == [q \in DOMAIN tree \ {p} |-> tree[q]]

Rmdir(p) ==
    LET errors == At(p, "EINVAL",
                     ErrorIf(~Exists(p), "ENOENT")
                     \union ErrorIf(Exists(p) /\ ~IsDir(p), "ENOTDIR")
                     \union ErrorIf(IsDir(p) /\ ~Empty(p), "ENOTEMPTY"))
    IN  \/ Refused(errors)
        \/ Done(errors) /\ tree' = Without(p) /\ UNCHANGED data

Unlink(p) ==
    LET errors == At(p, "EISDIR",
                     ErrorIf(~Exists(p), "ENOENT") \union ErrorIf(IsDir(p), "EISDIR"))
    IN  \/ Refused(errors)
        \/ Done(errors) /\ tree' = Without(p) /\ UNCHANGED data

\* Exception 1 (MemoryFs.ts:127): a directory with entries, renamed onto itself, is
\* refused.  To POSIX that rename is a success that changes nothing, as in Rename below.
RefusedOntoItself(from, to) ==
    /\ from = to /\ from # << >> /\ IsDir(to) /\ ~Empty(to)
    /\ answer' = "ENOTEMPTY"
    /\ UNCHANGED <<tree, data>>

\* All that is under `from` is under `to` instead, and what `to` was is gone.
Rename(from, to) ==
    LET errors ==
            IF << >> \in {from, to} THEN {"EINVAL"}
            ELSE At(from, "EINVAL",
                    IF ~Exists(from) THEN {"ENOENT"}
                    ELSE At(to, "EINVAL",
                            ErrorIf(from # to /\ IsDir(to) /\ ~Empty(to), "ENOTEMPTY")
                            \union ErrorIf(IsDir(to) /\ ~IsDir(from), "EISDIR")
                            \union ErrorIf(Exists(to) /\ ~IsDir(to) /\ IsDir(from), "ENOTDIR")
                            \union ErrorIf(IsStrictPrefix(from, to), "EINVAL")))
        kept   == {q \in DOMAIN tree : ~Under(from, q) /\ q # to}
        moved  == {q \in DOMAIN tree : Under(from, q)}
        New(q) == to \o SubSeq(q, Len(from) + 1, Len(q))
        Old(q) == from \o SubSeq(q, Len(to) + 1, Len(q))
    IN  \/ Refused(errors)
        \/ /\ Done(errors)
           /\ tree' = [q \in kept \union {New(m) : m \in moved} |->
                          IF q \in kept THEN tree[q] ELSE tree[Old(q)]]
           /\ UNCHANGED data
        \/ RefusedOntoItself(from, to)

\* s at offset `at` of what a file holds; beyond its end there are zeros in between.
Overwritten(old, s, at) ==
    LET grown == Resized(old, Larger(Len(old), at + Len(s)))
    IN  [i \in DOMAIN grown |-> IF i \in at + 1..at + Len(s) THEN s[i - at] ELSE grown[i]]

\* Through an open handle, whether or not the file still has a name.
Write(f, s, at) ==
    /\ f \in DOMAIN data
    /\ data' = [data EXCEPT ![f] = Overwritten(@, s, at)]
    /\ answer' = "ok"
    /\ UNCHANGED tree

\* Exception 2 (MemoryFs.ts:191): it is done through any handle.  To POSIX a handle that
\* was not opened for writing is refused (RefusedByHandle).
Truncate(f, n) ==
    /\ f \in DOMAIN data
    /\ data' = [data EXCEPT ![f] = Resized(@, n)]
    /\ answer' = "ok"
    /\ UNCHANGED tree

\* A handle that was not opened for it.
RefusedByHandle == answer' = "EINVAL" /\ UNCHANGED <<tree, data>>

Buffers == UNION {[1..n -> Byte] : n \in 1..MaxSize}

Calls(operation, at) == call' = <<operation, at>>

Next ==
    \/ Calls("open", 0) /\ \E p \in Path : \E c, x, t, w \in BOOLEAN : Open(p, c, x, t, w)
    \/ Calls("mkdir", 0) /\ \E p \in Path : Mkdir(p)
    \/ Calls("rmdir", 0) /\ \E p \in Path : Rmdir(p)
    \/ Calls("unlink", 0) /\ \E p \in Path : Unlink(p)
    \/ Calls("rename", 0) /\ \E p, q \in Path : Rename(p, q)
    \/ \E at \in 0..MaxSize : Calls("write", at) /\
          (RefusedByHandle \/ \E f \in File, buf \in Buffers : Write(f, buf, at))
    \/ Calls("truncate", 0) /\
          (RefusedByHandle \/ \E f \in File, n \in 0..MaxSize : Truncate(f, n))
    \/ Calls("read", 0) /\ RefusedByHandle

Spec == Init /\ [][Next]_vars
=============================================================================
