------------------------------ MODULE MCFiles ------------------------------
EXTENDS Files, TLC

Mode(r, w, a, t) == [read |-> r, write |-> w, append |-> a, truncate |-> t]

\* `<`, `>` and a guest that asks for everything (no rights bits).
AnyFlags  == {Mode(TRUE, FALSE, FALSE, FALSE), Mode(TRUE, TRUE, FALSE, TRUE)}
AppendFlags == {Mode(TRUE, TRUE, TRUE, FALSE)}

Symmetry == Permutations(Proc \ {Shell}) \union Permutations(File)
=============================================================================
