---------------------------- MODULE SnpMessages ----------------------------
(***************************************************************************)
(* The messages of snp.proto as the generated code keeps them: the tables  *)
(* of the fields of every message type, and the accessors.  A message is a *)
(* function from the names of the fields that are present to their values; *)
(* a field without presence is present when it differs from its default.   *)
(* A double is its eight bytes, a string its bytes.                        *)
(***************************************************************************)
EXTENDS Naturals, SequencesExt

(* A field: number, name, kind ("varint", "fixed64", "bytes" or the type   *)
(* of a sub-message) and label: "implicit" (proto3 default), "optional",   *)
(* "oneof" (each type has at most one) or "repeated".                      *)
Field(num, name, kind, label) ==
  [num |-> num, name |-> name, kind |-> kind, label |-> label]

ValueStringFields == << Field(1, "value", "bytes", "implicit") >>
ValueBoolFields   == << Field(1, "value", "varint", "implicit") >>
ValueUint32Fields == << Field(1, "value", "varint", "implicit"),
                        Field(2, "min", "varint", "optional"),
                        Field(3, "max", "varint", "optional") >>
ValueDoubleFields == << Field(1, "value", "fixed64", "implicit"),
                        Field(2, "min", "fixed64", "optional"),
                        Field(3, "max", "fixed64", "optional") >>
PropertyFields ==
  << Field(1, "type", "varint", "implicit"),
     Field(2, "name", "bytes", "implicit"),
     Field(3, "value_string", "ValueString", "oneof"),
     Field(4, "value_bool", "ValueBool", "oneof"),
     Field(5, "value_uint32", "ValueUint32", "oneof"),
     Field(6, "value_double", "ValueDouble", "oneof") >>
ComponentFields == << Field(1, "componentType", "varint", "implicit"),
                      Field(2, "property", "Property", "repeated") >>
CapabilitiesFields == << Field(1, "platform", "varint", "implicit"),
                         Field(2, "component", "Component", "repeated") >>
SetupFields == << Field(1, "pipe_id", "varint", "implicit"),
                  Field(2, "command", "varint", "implicit"),
                  Field(3, "component", "Component", "repeated") >>
DataFields ==
  << Field(1, "pipe_id", "varint", "implicit"),
     Field(2, "dataRaw", "StreamDataRaw", "oneof"),
     Field(3, "dataPointer", "StreamDataPointer", "oneof"),
     Field(4, "dataKeyboard", "StreamDataKeyboard", "oneof"),
     Field(5, "dataCursor", "StreamDataCursor", "oneof") >>
MessageFields ==
  << Field(1, "type", "varint", "implicit"),
     Field(2, "capabilities", "Capabilities", "oneof"),
     Field(3, "setup", "Setup", "oneof"),
     Field(4, "data", "Data", "oneof") >>
StreamDataRawFields == << Field(1, "payload", "bytes", "implicit") >>
StreamDataPointerFields == << Field(1, "absx", "varint", "implicit"),
                              Field(2, "absy", "varint", "implicit"),
                              Field(3, "mask", "varint", "optional") >>
StreamDataKeyboardFields == << Field(1, "keysym", "varint", "implicit"),
                               Field(2, "keycode", "varint", "implicit"),
                               Field(3, "down", "varint", "implicit") >>
StreamDataCursorFields == << Field(1, "width", "varint", "implicit"),
                             Field(2, "height", "varint", "implicit"),
                             Field(3, "hotx", "varint", "implicit"),
                             Field(4, "hoty", "varint", "implicit"),
                             Field(5, "image", "bytes", "implicit") >>

Fields ==
  [ValueString |-> ValueStringFields, ValueBool |-> ValueBoolFields,
   ValueUint32 |-> ValueUint32Fields, ValueDouble |-> ValueDoubleFields,
   Property |-> PropertyFields, Component |-> ComponentFields,
   Capabilities |-> CapabilitiesFields, Setup |-> SetupFields, Data |-> DataFields,
   Message |-> MessageFields, StreamDataRaw |-> StreamDataRawFields,
   StreamDataPointer |-> StreamDataPointerFields,
   StreamDataKeyboard |-> StreamDataKeyboardFields,
   StreamDataCursor |-> StreamDataCursorFields]

Default(kind) ==
  CASE kind = "varint" -> 0
    [] kind = "fixed64" -> [i \in 1 .. 8 |-> 0]
    [] OTHER -> << >>

(* The value of a field, or the default the accessor returns.              *)
Get(m, name, default) == IF name \in DOMAIN m THEN m[name] ELSE default

(* Field `name` set to v. *)
With(m, name, v) == [n \in DOMAIN m \cup {name} |-> IF n = name THEN v ELSE m[n]]

Without(m, names) == [n \in DOMAIN m \ names |-> m[n]]

(* A field without presence, or a list, set to v: not there if that is its *)
(* default.                                                                *)
Set(m, name, v, default) ==
  IF v = default THEN Without(m, {name}) ELSE With(m, name, v)

Cases(type) == {f.name : f \in {g \in ToSet(Fields[type]) : g.label = "oneof"}}

=============================================================================
