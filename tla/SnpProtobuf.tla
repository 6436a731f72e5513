---------------------------- MODULE SnpProtobuf ----------------------------
(***************************************************************************)
(* What goes over the TCP connection: the messages of proto/snp.proto, as  *)
(* the generated code (src/network/snp.pb.cc) writes and parses them.      *)
(*                                                                         *)
(* The program sends every message as the bare result of                   *)
(* SerializeAsString(), with no length prefix, and parses whatever recv()  *)
(* has accumulated as ONE message.  What a parse returns therefore depends *)
(* on how the byte stream was cut, and only three kinds of cut can be told *)
(* apart, so a message is abstracted to at most three units:               *)
(*                                                                         *)
(*   "type"  the field `type` (field 1);                                   *)
(*   "head"  the field of the oneof (Capabilities, Setup or Data) up to    *)
(*           some byte before its last one;                                *)
(*   "body"  the rest of that field.                                       *)
(*                                                                         *)
(* A buffer that ends inside a field (after a "head") does not parse; one  *)
(* that ends between two fields (after a "type" or a "body") does.  (The   *)
(* two bytes of a `type` field cut apart parse no more than a "head", and  *)
(* the receiver goes on as if both had come later.)                        *)
(* MESSAGE_TYPE_SETUP is 0, a default value, which proto3 does not write:  *)
(* a Setup message has no "type" unit.                                     *)
(***************************************************************************)
EXTENDS Naturals, Sequences, FiniteSetsExt

CONSTANTS
  Pipes    (* pipe ids a message may carry; 0 is the default value *)

ASSUME PipesAssumption == Pipes \subseteq Nat /\ 0 \in Pipes

(* MessageType; the case of the oneof has the same names. *)
Kinds == {"SETUP", "DATA", "CAPABILITIES"}

(* A Data message carries the encoded picture number `frame`; 0 stands for *)
(* an empty payload (and for the messages that carry no picture).          *)
Unit == [part : {"type", "head", "body"}, kind : Kinds, frame : Nat, pipe : Pipes]

UnitOf(part, kind, frame, pipe) ==
  [part |-> part, kind |-> kind, frame |-> frame, pipe |-> pipe]

(* Message::SerializeAsString *)
Serialized(kind, frame, pipe) ==
  IF kind = "SETUP"
  THEN << UnitOf("head", kind, frame, pipe), UnitOf("body", kind, frame, pipe) >>
  ELSE << UnitOf("type", kind, frame, pipe), UnitOf("head", kind, frame, pipe),
          UnitOf("body", kind, frame, pipe) >>

-----------------------------------------------------------------------------
(* Message::ParseFromArray(b): success, and the fields of the result.      *)

(* A field that is cut short makes the parse fail, and so does a buffer    *)
(* that starts in the middle of one.  The empty buffer parses.             *)
Parses(b) == b # << >> => b[1].part # "body" /\ b[Len(b)].part # "head"

PartsOf(b, part) == {i \in DOMAIN b : b[i].part = part}

(* The last `type` field of the buffer wins; without one it has the        *)
(* default value.                                                          *)
ParsedType(b) ==
  IF PartsOf(b, "type") = {} THEN "SETUP" ELSE b[Max(PartsOf(b, "type"))].kind

(* The last field of the oneof decides its case.  Fields of the same case  *)
(* that follow one another are merged: the last payload wins.              *)
ParsedFrame(b) ==
  LET bodies == PartsOf(b, "body") IN
  IF bodies # {} /\ b[Max(bodies)].kind = "DATA" THEN b[Max(bodies)].frame ELSE 0

(* The bodies that are merged into the accessor of `kind`: those after the *)
(* last body of another case.                                              *)
Merged(b, kind) ==
  {i \in PartsOf(b, "body") :
     \A j \in PartsOf(b, "body") : j >= i => b[j].kind = kind}

(* Mutant: the pipe id of the first message wins. *)
FirstPipeWins(b, kind) ==
  IF Merged(b, kind) = {} THEN 0 ELSE b[Min(Merged(b, kind))].pipe

(* pipe_id is written only when it is not 0: in a merge the last one that  *)
(* is not 0 wins.                                                          *)
ParsedPipe(b, kind) ==
  LET written == {i \in Merged(b, kind) : b[i].pipe # 0} IN
  IF written = {} THEN 0 ELSE b[Max(written)].pipe

=============================================================================
