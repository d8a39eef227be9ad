---------------------------- MODULE MCPipeBuffer ----------------------------
(* PipeBuffer with the bounds of MCPipeBuffer.cfg.  The writers are not made *)
(* symmetric: the run checks liveness, which symmetry does not preserve.     *)
EXTENDS PipeBuffer
=============================================================================
