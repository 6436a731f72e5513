--------------------------- MODULE MCSnpPipeline ---------------------------
(***************************************************************************)
(* Pipes for SnpPipeline: the three this program is used with, one of four *)
(* components, and lists a Setup may carry that do not work.               *)
(***************************************************************************)
EXTENDS SnpPipeline

MCLists ==
  { << "Dda", "EncAmf", "File" >>,
    << "Dummy", "EncOpenH264", "Tcp" >>,
    << "Dummy", "EncAmf", "DecAmf", "File" >>,
    << "Dummy", "EncOpenH264", "DecOpenH264", "File" >>,
    << "Dda", "EncOpenH264", "Tcp" >>,
    << "Dummy", "DecOpenH264", "Tcp" >>,
    << "Dummy", "Display" >>,
    << "Dummy", "Display", "Tcp" >>,
    << "Dummy", "Unknown", "Tcp" >>,
    << "Tcp" >> }

=============================================================================
