---------------------------- MODULE MCSnpServer ----------------------------
(***************************************************************************)
(* Values for SnpServer: pipe ids with and without the default value 0.    *)
(***************************************************************************)
EXTENDS SnpServer

MCPipes == {0, 1}

=============================================================================
