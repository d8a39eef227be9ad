----------------------------- MODULE MCDirScan -----------------------------
(* Two names of one byte and one that no page has room for.                  *)
EXTENDS DirScan

CONSTANTS a, b, long

Tops    == {<<a>>, <<b>>}
Paths   == {<<a>>, <<b>>, <<a, a>>, <<a, b>>, <<a, long>>, <<b, a>>}
Lengths == [n \in Name |-> IF n = long THEN 60 ELSE 1]
=============================================================================
