--------------------------- MODULE MCSnpVaEncoder ---------------------------
(* SnpVaEncoder with the periods and ranges of the code scaled down.  The   *)
(* driver's ids mean nothing but themselves.                                *)
EXTENDS SnpVaEncoder, TLC

Symmetry == Permutations(SurfaceIds)

=============================================================================
