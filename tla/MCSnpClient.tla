---------------------------- MODULE MCSnpClient ----------------------------
(***************************************************************************)
(* Values for SnpClient: two pipes, as in TODO.md's "each pipe has its own *)
(* streamId".                                                              *)
(***************************************************************************)
EXTENDS SnpClient

MCPipes == {0, 1}

=============================================================================
