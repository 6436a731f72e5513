--------------------------- MODULE MCSnpWireLink ---------------------------
(***************************************************************************)
(* Messages and settings for SnpWireLink: pipe 0, which is not written,    *)
(* and pipe 128, whose id takes two bytes; every kind of property; a gap,  *)
(* an empty name, a value that is the default, one name with two types.    *)
(***************************************************************************)
EXTENDS SnpWireLink

MCPipes == {0, 128}

Double == << 0, 0, 0, 0, 0, 128, 86, 64 >>

Property(name, type, value) == [name |-> name, type |-> type, value |-> value]

MixedTypes ==
  0 :> (0 :> [type |-> 4,
              properties |-> 0 :> Property(<< 119 >>, 0, << 49 >>)
                          @@ 1 :> Property(<< 119 >>, 2, 300)
                          @@ 2 :> Property(<< 119 >>, 1, 1)
                          @@ 4 :> Property(<< 104 >>, 2, 7)]
    @@ 1 :> [type |-> 0, properties |-> << >>])

Defaults ==
  0 :> (0 :> [type |-> 16,
              properties |-> 0 :> Property(<< >>, 2, 0)
                          @@ 1 :> Property(<< 102 >>, 3, Double)
                          @@ 2 :> Property(<< 102 >>, 7, 5)])
    @@ 1 :> (0 :> [type |-> 1, properties |-> << >>])

MCSections == {MixedTypes, Defaults}

DataOf(pipe, payload) ==
  "type" :> 1
    @@ "data" :> Set("dataRaw" :> Set(<< >>, "payload", payload, << >>), "pipe_id", pipe, 0)

StopSetup ==
  "setup" :> ("pipe_id" :> 128 @@ "command" :> 1 @@ "component" :> << "componentType" :> 3 >>)

Greeting ==
  "type" :> 2 @@ "capabilities" :> ("component" :> << "componentType" :> 12, << >> >>)

MCOthers ==
  {<< StopSetup >>, << StopSetup, StopSetup >>, << Greeting, DataOf(128, << 5 >>) >>,
   << DataOf(128, << 5 >>), DataOf(0, << 6, 7 >>) >>,
   << DataOf(128, << 5 >>), StopSetup, DataOf(0, << 6, 7 >>) >>,
   << DataOf(0, << >>), DataOf(128, << >>), DataOf(0, << 6 >>) >>}

=============================================================================
