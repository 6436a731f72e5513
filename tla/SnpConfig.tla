----------------------------- MODULE SnpConfig -----------------------------
(***************************************************************************)
(* From snp.ini to what a component is made with: SnpConfig reads the      *)
(* pipes of a section, SnpSourceNetworkTcp sends the first one in a Setup, *)
(* and the factory of the server looks properties up in what it received   *)
(* (PropertyUtil).                                                         *)
(*                                                                         *)
(* The settings of a section are a partial function from pipe numbers to   *)
(* partial functions from component numbers to [type, properties], the     *)
(* properties again a partial function from numbers to [name, type, value];*)
(* a property of which one of the three keys is missing counts as missing. *)
(***************************************************************************)
EXTENDS SnpMessages

(* PropertyType and the case of the oneof SnpConfig fills for it; a        *)
(* property of any other type gets no value.                               *)
ValueCase == <<"value_string", "value_bool", "value_uint32", "value_double">>

(* What is read of numbered entries: those before the first gap, of 256 at *)
(* most.                                                                   *)
GapFree(entries) == {i \in DOMAIN entries : i < 256 /\ 0 .. i \subseteq DOMAIN entries}

InOrderOf(entries, Read(_)) ==
  [i \in 1 .. Cardinality(GapFree(entries)) |-> Read(entries[i - 1])]

(* What the accessor of a value message returns when nothing was written.  *)
ValueDefault(case) ==
  IF case = "value_string" THEN << >>
  ELSE IF case = "value_double" THEN Default("fixed64") ELSE 0

(* A value message is made even for a value that is then not written.      *)
ReadValueOf(p) ==
  LET case == ValueCase[p.type + 1]
  IN IF p.type \in 0 .. 3
     THEN With(<< >>, case, Set(<< >>, "value", p.value, ValueDefault(case)))
     ELSE << >>

ReadProperty(p) ==
  Set(Set(ReadValueOf(p), "name", p.name, << >>), "type", p.type, 0)

ReadComponent(c) ==
  Set(Set(<< >>, "property", InOrderOf(c.properties, ReadProperty), << >>),
      "componentType", c.type, 0)

ReadPipe(pipe) == InOrderOf(pipe, ReadComponent)

(* readPipesSection(): pipe number i is entry i + 1. *)
ReadPipes(section) == InOrderOf(section, ReadPipe)

(* sendSetupMessage(): the message of the first remote pipe; START is 0.   *)
SetupMessage(components) ==
  With(<< >>, "setup", Set(<< >>, "component", components, << >>))

(* Mutant: the value is taken from the last property of that name.         *)
GetPropertyLast(component, name, case, default) ==
  LET properties == Get(component, "property", << >>)
      matching == {i \in DOMAIN properties :
                     Get(properties[i], "name", << >>) = name}
  IN IF matching = {} THEN default
     ELSE Get(Get(properties[Max(matching)], case, << >>), "value", ValueDefault(case))

(* getPropertyUint(), ...Bool(), ...Double(), ...String(): the first       *)
(* property of that name with a value of that type.                        *)
GetProperty(component, name, case, default) ==
  LET properties == Get(component, "property", << >>)
      matching == {i \in DOMAIN properties :
                     Get(properties[i], "name", << >>) = name /\ case \in DOMAIN properties[i]}
  IN IF matching = {} THEN default
     ELSE Get(properties[Min(matching)][case], "value", ValueDefault(case))

-----------------------------------------------------------------------------
(* What is promised.                                                       *)

(* A section as the program can be given one. *)
IsSection(section) ==
  /\ DOMAIN section \subseteq Nat
  /\ \A i \in DOMAIN section :
       /\ DOMAIN section[i] \subseteq Nat
       /\ \A c \in DOMAIN section[i] :
            LET entries == section[i][c].properties
            IN DOMAIN entries \subseteq Nat /\ \A e \in DOMAIN entries : entries[e].type \in Nat

(* What a look-up returns is the first entry of that name and type before  *)
(* the first gap, or the default.                                          *)
LooksUp(component, entries, name, type, default) ==
  LET found == {e \in GapFree(entries) : entries[e].name = name /\ entries[e].type = type}
  IN GetProperty(component, name, ValueCase[type + 1], default) =
       IF found = {} THEN default ELSE entries[Min(found)].value

(* Each of the four look-ups does so in every component of a pipe.         *)
FindsFirst(components, pipe, default) ==
  \A c \in GapFree(pipe) :
    LET entries == pipe[c].properties IN
    \A name \in {entries[e].name : e \in DOMAIN entries}, type \in 0 .. 3 :
      LooksUp(components[c + 1], entries, name, type, default)

=============================================================================
