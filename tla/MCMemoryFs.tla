----------------------------- MODULE MCMemoryFs -----------------------------
EXTENDS MemoryFs, TLC

Symmetry == Permutations(Name) \union Permutations(Node \ {RootDir})

\* What the next call depends on: the record of the last one is not part of it.  A step
\* property is checked on every step, so that it sees every call in every view.
View == <<kind, children, bytes>>
=============================================================================
