--------------------------- MODULE MCSnpWebsocket ---------------------------
(***************************************************************************)
(* Handles and streams are alike.                                          *)
(***************************************************************************)
EXTENDS SnpWebsocket, TLC

Alike == Permutations(Handles) \cup Permutations(Streams)

=============================================================================
