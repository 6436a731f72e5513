---------------------------- MODULE SnpWireLink ----------------------------
(***************************************************************************)
(* The link at the level of bytes: what was sent is read in pieces of any  *)
(* size into a buffer that is parsed after every piece, as in              *)
(* SnpSourceNetworkTcp::connectToServer and                                *)
(* SnpSinkNetworkTcp::listenForConnections.  It ties the units of          *)
(* SnpProtobuf, on which SnpClient builds, to the generated code of        *)
(* SnpWire.                                                                *)
(***************************************************************************)
EXTENDS SnpProtobuf, SnpConfig, SnpWire

CONSTANTS
  Sections,  (* settings of [remote] a client may have                     *)
  Others,    (* what else is sent: sequences of messages                   *)
  MaxRecv    (* bound: bytes that one recv() returns                       *)

(* What QSettings can have read: strings, and numbers by the type.         *)
IsTyped(p) ==
  /\ IsInt(p.type) /\ IsBytes(p.name)
  /\ p.type = 0 => IsBytes(p.value)
  /\ p.type \in {1, 2} => Fits(p.value)
  /\ p.type = 3 => IsBytes(p.value) /\ Len(p.value) = 8

(* There is a pipe 0, and its Setup is not too long to be sent.            *)
ASSUME SectionsAssumption ==
  \A section \in Sections :
    /\ IsSection(section) /\ 0 \in DOMAIN section
    /\ \A c \in DOMAIN section[0] :
         /\ IsInt(section[0][c].type)
         /\ \A e \in DOMAIN section[0][c].properties : IsTyped(section[0][c].properties[e])
    /\ IsInt(Serialize(SetupMessage(ReadPipes(section)[1])).size)

ASSUME OthersAssumption ==
  /\ MaxRecv \in Nat
  /\ \A messages \in Others :
       messages \in Seq(ToSet(messages)) /\ \A m \in ToSet(messages) : IsSent(m)

VARIABLES
  settings,  (* the settings of the client                                 *)
  stream,    (* the messages sent                                          *)
  wire,      (* the same as bytes                                          *)
  from,      (* wire[from + 1 .. upto] is in `buffer`                      *)
  upto,      (* what comes after is in flight                              *)
  last       (* the last call of dispatch(): the bytes and the result      *)

vars == << settings, stream, wire, from, upto, last >>

(* One Setup, before or after other messages. *)
Init ==
  /\ settings \in Sections
  /\ \E messages \in Others, i \in 0 .. 1 :
       LET setup == << SetupMessage(ReadPipes(settings)[1]) >>
       IN stream = IF i = 0 THEN setup \o messages ELSE messages \o setup
  /\ wire = Joined([k \in DOMAIN stream |-> Serialize(stream[k])]).bytes
  /\ from = 0 /\ upto = 0
  /\ last = [from |-> 0, upto |-> 0, result |-> Failure]

(* recv(), insert and dispatch(); what parsed is cleared. *)
Recv(n) ==
  /\ upto' = upto + n
  /\ last' = [from |-> from, upto |-> upto',
              result |-> ParseFromArray(SubSeq(wire, from + 1, upto'))]
  /\ from' = IF last'.result.ok THEN upto' ELSE from
  /\ UNCHANGED << settings, stream, wire >>

Next == \E n \in 1 .. Min({MaxRecv, Len(wire) - upto}) : Recv(n)

Spec == Init /\ [][Next]_vars

-----------------------------------------------------------------------------
(* Which units of SnpProtobuf, and which whole messages, bytes a+1 .. b    *)
(* are.                                                                    *)

(* Message k takes the bytes Start(k) + 1 .. Start(k + 1). *)
Start(k) ==
  LET before[n \in Nat] ==
        IF n = 0 THEN 0 ELSE before[n - 1] + Len(Serialize(stream[n]).bytes)
  IN before[k - 1]

KindOf(type) == << "SETUP", "DATA", "CAPABILITIES" >>[type + 1]

Data(m) == Get(m, "data", << >>)
Payload(m) == Get(Get(Data(m), "dataRaw", << >>), "payload", << >>)
PipeId(m, case) == Get(Get(m, case, << >>), "pipe_id", 0)

(* The units of message k, whose type takes the bytes s + 1 .. t and whose *)
(* rest ends at e.                                                         *)
UnitsBetween(k, s, t, e, a, b) ==
  LET kind == KindOf(Get(stream[k], "type", 0))
      frame == IF Payload(stream[k]) = << >> THEN 0 ELSE k
      pipe == PipeId(stream[k], IF kind = "DATA" THEN "data" ELSE "setup")
      unit(part) == << UnitOf(part, kind, frame, pipe) >>
  IN (IF a <= s /\ s < t /\ s < b THEN unit(IF t <= b THEN "type" ELSE "head") ELSE << >>)
       \o (IF a <= t /\ t < b THEN unit("head") ELSE << >>)
       \o (IF a <= t /\ e <= b THEN unit("body") ELSE << >>)

UnitsOf(k, a, b) ==
  UnitsBetween(k, Start(k), Start(k) + (IF "type" \in DOMAIN stream[k] THEN 2 ELSE 0),
               Start(k + 1), a, b)

Units(a, b) == FlattenSeq([k \in DOMAIN stream |-> UnitsOf(k, a, b)])

-----------------------------------------------------------------------------
(* Properties.                                                             *)

(* What dispatch() reads of a result is what the units say.                *)
ParseAlike(units, result) ==
  LET m == result.msg IN
  /\ result.ok = Parses(units)
  /\ result.ok =>
       /\ KindOf(Get(m, "type", 0)) = ParsedType(units)
       /\ Payload(m) = LET f == ParsedFrame(units) IN
                       IF f = 0 THEN << >> ELSE Payload(stream[f])
       /\ PipeId(m, "data") = ParsedPipe(units, "DATA")
       /\ PipeId(m, "setup") = ParsedPipe(units, "SETUP")

(* The unit-level parse of SnpProtobuf says of every buffer that can       *)
(* occur, however the bytes were cut and merged, what the generated parser *)
(* says of it: whether it parses, the type, the payload and the pipe ids   *)
(* that dispatch() reads.                                                  *)
UnitsParseAlike ==
  last.upto > last.from => ParseAlike(Units(last.from, last.upto), last.result)

(* A message that is received alone is received as it was sent: the        *)
(* lengths written by _InternalSerialize() from ByteSizeLong() are those   *)
(* the parser needs, for every field, present but empty, default or more   *)
(* than one byte long.                                                     *)
ReceivedAsSent ==
  \A k \in DOMAIN stream :
    (last.from = Start(k) /\ last.upto = Start(k + 1)) =>
      last.result = [ok |-> TRUE, msg |-> stream[k]]

(* Messages i to j, merged one after the other. *)
MergedTo(i, j) ==
  LET merged[n \in Nat] == IF n = 0 THEN << >> ELSE Merge(merged[n - 1], stream[i + n - 1])
  IN merged[j - i + 1]

(* Whole messages that are received together are received as one that is   *)
(* merged from them: the parser and MergeImpl() agree on repeated fields   *)
(* (the component lists of two Setups are joined) and on the cases of the  *)
(* oneof.                                                                  *)
TogetherIsMerged ==
  \A i, j \in DOMAIN stream :
    (i < j /\ last.from = Start(i) /\ last.upto = Start(j + 1)) =>
      last.result =
        [ok |-> TRUE,
         msg |-> MergedTo(i, j)]

(* What the factory looks up in a Setup it received alone is the first     *)
(* entry of that name and type before the first gap in the client's        *)
(* settings, or the factory's default (SnpConfig::readPipesSection,        *)
(* sendSetupMessage, PropertyUtil): an entry of another type under the     *)
(* same name neither hides nor replaces it.                                *)
SettingsReachFactory ==
  \A k \in DOMAIN stream :
    (last.from = Start(k) /\ last.upto = Start(k + 1)
       /\ stream[k] = SetupMessage(ReadPipes(settings)[1])) =>
      FindsFirst(Get(Get(last.result.msg, "setup", << >>), "component", << >>),
                 settings[0], 99)

=============================================================================
