----------------------------- MODULE MCTerminal -----------------------------
(* The terminal with a pipe, a reader's chunk and programs' buffers of a few *)
(* bytes each, so that lines, reads and writes cut one another everywhere.   *)
EXTENDS Terminal

CONSTANTS x, y

PromptText == <<<<x>>, <<y>>>>
OutputText == <<x, NL, y>>
=============================================================================
