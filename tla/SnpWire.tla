------------------------------ MODULE SnpWire ------------------------------
(***************************************************************************)
(* The messages of snp.proto as bytes, the way the generated code          *)
(* (src/network/snp.pb.cc) writes, measures, parses and merges them.       *)
(*                                                                         *)
(* Every message type of the generated code is the same code with another  *)
(* of the tables of SnpMessages: WriteFields, ParseFields and MergeFields  *)
(* walk through them, with the same for the types of their sub-messages.   *)
(* Not followed: values of more than 32 bits, strings that are no UTF-8,   *)
(* groups (an error here) and the depth limit.                             *)
(***************************************************************************)
EXTENDS SnpMessages

IsMessage(kind) == kind \in DOMAIN Fields

WireType(kind) == CASE kind = "varint" -> 0 [] kind = "fixed64" -> 1 [] OTHER -> 2

Tag(f) == 8 * f.num + WireType(f.kind)

-----------------------------------------------------------------------------
(* Writing.                                                                *)

(* Seven bits a byte, the lowest first; the last byte is below 128.        *)
Varint[n \in Nat] ==
  IF n < 128 THEN << n >> ELSE << 128 + (n % 128) >> \o Varint[n \div 128]

(* Mutant: the largest value of one byte is off by one. *)
VarintSizeOffByOne(n) == IF n <= 128 THEN 1 ELSE IF n <= 128 * 128 THEN 2 ELSE 3

(* The sizes of values of up to 32 bits.                                   *)
VarintSize(n) ==
  IF n < 128 THEN 1
  ELSE IF n < 128 * 128 THEN 2
  ELSE IF n < 128 * 128 * 128 THEN 3
  ELSE IF n < 128 * 128 * 128 * 128 THEN 4
  ELSE 5

(* The values of field f that are written.                                 *)
Values(m, f) ==
  IF f.name \notin DOMAIN m THEN << >>
  ELSE IF f.label = "repeated" THEN m[f.name] ELSE << m[f.name] >>

(* What is written of something: its bytes, and the size ByteSizeLong()    *)
(* finds for them before.                                                  *)
Nothing == [size |-> 0, bytes |-> << >>]
Before(p, q) == [size |-> p.size + q.size, bytes |-> p.bytes \o q.bytes]

(* One part before the other. *)
Joined(parts) ==
  LET first[k \in Nat] == IF k = 0 THEN Nothing ELSE Before(first[k - 1], parts[k])
  IN first[Len(parts)]

(* A value v of field f, of which a sub-message was measured before:       *)
(* _InternalSerialize() takes the length from its cached size. A tag takes *)
(* one byte, as no field number exceeds 15.                                *)
Written(f, v, inner) ==
  [size |-> 1 + (CASE f.kind = "varint" -> VarintSize(v)
                   [] f.kind = "fixed64" -> 8
                   [] OTHER -> VarintSize(inner.size) + inner.size),
   bytes |-> Varint[Tag(f)]
               \o (CASE f.kind = "varint" -> Varint[v]
                     [] f.kind = "fixed64" -> v
                     [] OTHER -> Varint[inner.size] \o inner.bytes)]

(* ByteSizeLong() and _InternalSerialize() of a type: the fields in the    *)
(* order of their numbers; Nested: those of the types of its fields.       *)
WriteFields(type, m, Nested(_, _)) ==
  LET inner(f, v) == IF IsMessage(f.kind) THEN Nested(f.kind, v)
                     ELSE [size |-> Len(v), bytes |-> v]
      field(f) == Joined([j \in DOMAIN Values(m, f) |->
                            Written(f, Values(m, f)[j], inner(f, Values(m, f)[j]))])
  IN Joined([i \in DOMAIN Fields[type] |-> field(Fields[type][i])])

(* A Message has a body (Capabilities, Setup or Data), that has components *)
(* or stream data, a component properties, a property a value.             *)
WriteValue(type, m) == WriteFields(type, m, LAMBDA kind, v : Nothing)
WriteProperty(type, m) == WriteFields(type, m, WriteValue)
WriteComponent(type, m) == WriteFields(type, m, WriteProperty)
WriteBody(type, m) == WriteFields(type, m, WriteComponent)
Serialize(m) == WriteFields("Message", m, WriteBody)

-----------------------------------------------------------------------------
(* Parsing.  A read returns its value and the bytes that are left.         *)

Failure == [ok |-> FALSE]
Success(v, rest) == [ok |-> TRUE, value |-> v, rest |-> rest]

DropFirst(b, n) == SubSeq(b, n + 1, Len(b))

Byte == 0 .. 255

(* The bytes up to the first below 128, seven bits of each.                *)
ReadVarint[b \in Seq(Byte)] ==
  IF b = << >> THEN Failure
  ELSE IF b[1] < 128 THEN Success(b[1], DropFirst(b, 1))
  ELSE LET high == ReadVarint[DropFirst(b, 1)] IN
       IF high.ok THEN Success((b[1] % 128) + 128 * high.value, high.rest) ELSE Failure

ReadBytes(b, n) ==
  IF n > Len(b) THEN Failure ELSE Success(SubSeq(b, 1, n), DropFirst(b, n))

(* What follows a tag, by the wire type in its three lowest bits. *)
ReadValue(wireType, b) ==
  CASE wireType = 0 -> ReadVarint[b]
    [] wireType = 1 -> ReadBytes(b, 8)
    [] wireType = 2 -> LET len == ReadVarint[b] IN
                       IF len.ok THEN ReadBytes(len.rest, len.value) ELSE Failure
    [] wireType = 5 -> ReadBytes(b, 4)
    [] OTHER -> Failure

(* set_..., mutable_... and add_...: a case of the oneof clears the others. *)
Store(type, m, f, v) ==
  CASE f.label = "implicit" -> Set(m, f.name, v, Default(f.kind))
    [] f.label = "repeated" -> With(m, f.name, Append(Get(m, f.name, << >>), v))
    [] f.label = "oneof" -> With(Without(m, Cases(type)), f.name, v)
    [] OTHER -> With(m, f.name, v)

(* The field at the front of b, if the type knows one with that tag. A     *)
(* zero tag and the end of a group stop the parse before its end, which is *)
(* a failure.                                                              *)
ReadField(type, b) ==
  LET tag == ReadVarint[b]
      v == ReadValue(tag.value % 8, tag.rest)
  IN IF ~tag.ok \/ tag.value < 8 \/ ~v.ok THEN Failure
     ELSE [ok |-> TRUE, fields |-> {f \in ToSet(Fields[type]) : Tag(f) = tag.value},
           value |-> v.value, rest |-> v.rest]

(* What a value is parsed into: a sub-message that is there already (a     *)
(* case of the oneof), or a new one in a list.                             *)
Old(m, f) == IF f.label = "repeated" THEN << >> ELSE Get(m, f.name, << >>)

Stopped(s) == [s EXCEPT !.ok = FALSE]

(* An iteration of _InternalParse() between two fields; `inner` is what    *)
(* became of the value. An unknown field, or a known one of another wire   *)
(* type, is skipped.                                                       *)
TakeField(type, s, inner) ==
  LET read == ReadField(type, s.rest) IN
  IF ~read.ok THEN Stopped(s)
  ELSE IF read.fields = {} THEN [s EXCEPT !.rest = read.rest]
  ELSE IF ~inner.ok THEN Stopped(s)
  ELSE [ok |-> TRUE, rest |-> read.rest,
        msg |-> Store(type, s.msg, CHOOSE f \in read.fields : TRUE, inner.msg)]

(* _InternalParse() on bytes b, into message m.                            *)
ParseFields(type, b, m, Nested(_, _, _)) ==
  LET inner(s) ==
        LET read == ReadField(type, s.rest)
            f == CHOOSE f \in read.fields : TRUE
        IN IF IsMessage(f.kind) THEN Nested(f.kind, read.value, Old(s.msg, f))
           ELSE [ok |-> TRUE, msg |-> read.value]
      after[n \in Nat] ==
        IF n = 0 THEN [ok |-> TRUE, rest |-> b, msg |-> m]
        ELSE LET s == after[n - 1] IN
             IF s.ok /\ s.rest # << >> THEN TakeField(type, s, inner(s)) ELSE s
      end == after[Len(b)]
  IN IF end.ok THEN [ok |-> TRUE, msg |-> end.msg] ELSE Failure

ParseValue(type, b, m) == ParseFields(type, b, m, LAMBDA kind, v, old : Failure)
ParseProperty(type, b, m) == ParseFields(type, b, m, ParseValue)
ParseComponent(type, b, m) == ParseFields(type, b, m, ParseProperty)
ParseBody(type, b, m) == ParseFields(type, b, m, ParseComponent)
ParseFromArray(b) == ParseFields("Message", b, << >>, ParseBody)

-----------------------------------------------------------------------------
(* Merging.                                                                *)

Named(type, n) == CHOOSE f \in ToSet(Fields[type]) : f.name = n

(* What is kept of `to`: a case of the oneof clears the others.            *)
Kept(type, to, from) ==
  IF Cases(type) \cap DOMAIN from = {} THEN to ELSE Without(to, Cases(type) \ DOMAIN from)

(* Mutant: the lists are not joined, the later one wins. *)
MergeIntoReplacingLists(type, kept, from, cases) ==
  [n \in DOMAIN kept \cup DOMAIN from |->
     IF n \notin DOMAIN from THEN kept[n]
     ELSE IF n \in Cases(type) THEN cases[n]
     ELSE from[n]]

(* The fields of `from` that are present win, lists are joined; `cases`:   *)
(* sub-messages of the same case are merged.                               *)
MergeInto(type, kept, from, cases) ==
  [n \in DOMAIN kept \cup DOMAIN from |->
     IF n \notin DOMAIN from THEN kept[n]
     ELSE IF n \in Cases(type) THEN cases[n]
     ELSE IF Named(type, n).label = "repeated" THEN Get(kept, n, << >>) \o from[n]
     ELSE from[n]]

(* MergeImpl() of a type.                                                  *)
MergeFields(type, to, from, Nested(_, _, _)) ==
  LET kept == Kept(type, to, from)
  IN MergeInto(type, kept, from,
            [n \in Cases(type) \cap DOMAIN from |->
               Nested(Named(type, n).kind, Get(kept, n, << >>), from[n])])

MergeValue(type, to, from) == MergeFields(type, to, from, LAMBDA kind, old, v : old)
MergeProperty(type, to, from) == MergeFields(type, to, from, MergeValue)
MergeComponent(type, to, from) == MergeFields(type, to, from, MergeProperty)
MergeBody(type, to, from) == MergeFields(type, to, from, MergeComponent)
Merge(to, from) == MergeFields("Message", to, from, MergeBody)

-----------------------------------------------------------------------------
(* The messages that the accessors can make.                               *)

(* Numbers of 32 bits.                                                     *)
Fits(n) == n \in Nat /\ n \div (128 * 128 * 128 * 128) < 16

(* What an int holds, if it is not negative; a message that is longer is   *)
(* neither serialized nor parsed.                                          *)
IsInt(n) == n \in Nat /\ n \div (128 * 128 * 128 * 128) < 8

IsBytes(b) == b \in Seq(Byte)

(* A value that field f may have, or a value in its list.                  *)
MadeValue(f, v, Nested(_, _)) ==
  \/ f.kind = "varint" /\ Fits(v)
  \/ f.kind = "fixed64" /\ IsBytes(v) /\ Len(v) = 8
  \/ f.kind = "bytes" /\ IsBytes(v)
  \/ IsMessage(f.kind) /\ Nested(f.kind, v)

(* What field f may be: a list that is not empty, or a value that is not   *)
(* left out for it is the default.                                         *)
MadeField(f, v, Nested(_, _)) ==
  \/ /\ f.label = "repeated"
     /\ v \in Seq(ToSet(v)) /\ v # << >> /\ \A j \in DOMAIN v : MadeValue(f, v[j], Nested)
  \/ /\ f.label # "repeated"
     /\ MadeValue(f, v, Nested) /\ (f.label = "implicit" => v # Default(f.kind))

(* Fields of a type, one case of its oneof at most.                        *)
IsMade(type, m, Nested(_, _)) ==
  /\ m = [n \in DOMAIN m |-> m[n]]
  /\ DOMAIN m \subseteq {f.name : f \in ToSet(Fields[type])}
  /\ \A f \in ToSet(Fields[type]) : f.name \in DOMAIN m => MadeField(f, m[f.name], Nested)
  /\ \A n, o \in Cases(type) \cap DOMAIN m : n = o

IsValue(type, m) == IsMade(type, m, LAMBDA kind, v : FALSE)
IsProperty(type, m) == IsMade(type, m, IsValue)
IsComponent(type, m) == IsMade(type, m, IsProperty)
IsBody(type, m) == IsMade(type, m, IsComponent)

(* A message that is sent has a body. *)
IsSent(m) ==
  /\ IsMade("Message", m, IsBody)
  /\ Cases("Message") \cap DOMAIN m # {}
  /\ IsInt(Serialize(m).size)

=============================================================================
