------------------------- MODULE SnpWireLinkProofs -------------------------
(***************************************************************************)
(* Messages and settings on the wire, for every message the accessors can  *)
(* make, every section of snp.ini and however the bytes are cut: what was  *)
(* measured is what is written, what was written is parsed into the merge  *)
(* of it with what was there, and what the factory finds in a Setup is the *)
(* first entry of that name and type before the first gap.                 *)
(*                                                                         *)
(* tlapm has no induction over operators.  Sub-messages nest at most five  *)
(* deep, and each level is proved from the one below it; the repeated      *)
(* fields, the fields of a type, the bytes of a varint and the messages of *)
(* the wire are counted by numbers, for which Induction is used.           *)
(***************************************************************************)
EXTENDS SnpWireLink, FiniteSetTheorems, SequenceTheorems, WellFoundedInduction, TLAPS

-----------------------------------------------------------------------------
(* Settings, and what is found in the messages made of them.               *)

(* The least of some numbers. *)
LEMMA Least ==
  ASSUME NEW S, S \subseteq Nat, S # {}
  PROVE  \E x \in S : Min(S) = x /\ \A y \in S : x <= y
<1> DEFINE R == {ss \in Nat \X Nat : ss[1] < ss[2]}
<1>0. IsWellFoundedOn(R, Nat)
  BY NatLessThanWellFounded, Zenon DEF OpToRel
<1>1. PICK x \in S : \A y \in S : << y, x >> \notin R
  <2> HIDE DEF R
  <2> QED
    BY <1>0, WFMin
<1>2. ASSUME NEW y \in S PROVE x <= y
  <2>1. x \in Nat /\ y \in Nat
    OBVIOUS
  <2>2. y < x => << y, x >> \in R
    BY <2>1
  <2> QED
    BY <1>1, <2>1, <2>2
<1>3. Min(S) \in S /\ \A y \in S : Min(S) <= y
  BY <1>2 DEF Min
<1> QED
  BY <1>3

LEMMA MinIs ==
  ASSUME NEW S, S \subseteq Nat, NEW x \in S, \A y \in S : x <= y
  PROVE  Min(S) = x
<1>1. PICK z \in S : Min(S) = z /\ \A y \in S : z <= y
  BY Least
<1> QED
  BY <1>1

(* Accessors: a field that was set is read back, and others are as before. *)
LEMMA GetSet ==
  ASSUME NEW m, NEW name, NEW v, NEW default
  PROVE  Get(Set(m, name, v, default), name, default) = v
  BY DEF Get, Set, With, Without

LEMMA GetWith ==
  ASSUME NEW m, NEW name, NEW v, NEW default
  PROVE  Get(With(m, name, v), name, default) = v
  BY DEF Get, With

LEMMA SetOther ==
  ASSUME NEW m, NEW name, NEW v, NEW default, NEW other, other # name
  PROVE  /\ other \in DOMAIN Set(m, name, v, default) <=> other \in DOMAIN m
         /\ other \in DOMAIN m => Set(m, name, v, default)[other] = m[other]
  BY DEF Set, With, Without

(* What is read of numbered entries has the numbers up to the first gap.   *)
LEMMA GapFreeIs ==
  ASSUME NEW entries, DOMAIN entries \subseteq Nat
  PROVE  Cardinality(GapFree(entries)) \in Nat
         /\ GapFree(entries) = 0 .. Cardinality(GapFree(entries)) - 1
<1> DEFINE gaps == {i \in Nat : i \notin GapFree(entries)}
<1>1. 256 \in gaps
  BY DEF GapFree
<1>2. PICK n \in gaps : \A i \in gaps : n <= i
  BY <1>1, Least
<1>3. n \in Nat /\ n \notin GapFree(entries) /\ \A i \in Nat : i < n => i \in GapFree(entries)
  BY <1>2
<1>4. ASSUME NEW i \in GapFree(entries) PROVE i \in Nat /\ i < n
  <2>1. i \in Nat /\ i < 256 /\ 0 .. i \subseteq DOMAIN entries
    BY DEF GapFree
  <2>2. ASSUME n <= i PROVE FALSE
    <3>1. n < 256 /\ n \in 0 .. i /\ 0 .. n \subseteq 0 .. i
      BY <1>3, <2>1, <2>2
    <3>2. n \in GapFree(entries)
      BY <2>1, <3>1 DEF GapFree
    <3> QED
      BY <1>3, <3>2
  <2> QED
    BY <1>3, <2>1, <2>2
<1>5. GapFree(entries) = 0 .. n - 1
  <2>1. \A i \in GapFree(entries) : i \in 0 .. n - 1
    BY <1>3, <1>4
  <2>2. \A i \in 0 .. n - 1 : i \in GapFree(entries)
    BY <1>3
  <2> QED
    BY <2>1, <2>2
<1>6. Cardinality(0 .. n - 1) = n
  BY <1>3, FS_Interval
<1> QED
  BY <1>3, <1>5, <1>6

LEMMA PipeRead ==
  ASSUME NEW pipe
  PROVE  ReadPipe(pipe) =
           [i \in 1 .. Cardinality(GapFree(pipe)) |-> ReadComponent(pipe[i - 1])]
  BY DEF ReadPipe, InOrderOf

LEMMA SectionRead ==
  ASSUME NEW section
  PROVE  ReadPipes(section) =
           [i \in 1 .. Cardinality(GapFree(section)) |-> ReadPipe(section[i - 1])]
  BY DEF ReadPipes, InOrderOf

LEMMA ComponentRead ==
  ASSUME NEW c
  PROVE  Get(ReadComponent(c), "property", << >>) =
           [i \in 1 .. Cardinality(GapFree(c.properties)) |-> ReadProperty(c.properties[i - 1])]
<1> DEFINE m == Set(<< >>, "property", InOrderOf(c.properties, ReadProperty), << >>)
<1>1. InOrderOf(c.properties, ReadProperty) =
        [i \in 1 .. Cardinality(GapFree(c.properties)) |-> ReadProperty(c.properties[i - 1])]
  BY DEF InOrderOf
<1>2. Get(m, "property", << >>) = InOrderOf(c.properties, ReadProperty)
  BY GetSet
<1> HIDE DEF m
<1>3. Get(Set(m, "componentType", c.type, 0), "property", << >>) = Get(m, "property", << >>)
  BY SetOther DEF Get
<1>4. ReadComponent(c) = Set(m, "componentType", c.type, 0)
  BY DEF ReadComponent, m
<1> QED
  BY <1>1, <1>2, <1>3, <1>4

(* An entry is found by its name and by its type; then it has its value.   *)
LEMMA PropertyRead ==
  ASSUME NEW p, p.type \in Nat, NEW type \in 0 .. 3
  PROVE  LET case == ValueCase[type + 1]
         IN /\ Get(ReadProperty(p), "name", << >>) = p.name
            /\ case \in DOMAIN ReadProperty(p) <=> p.type = type
            /\ p.type = type =>
                 Get(ReadProperty(p)[case], "value", ValueDefault(case)) = p.value
<1> DEFINE case == ValueCase[type + 1]
           named == Set(ReadValueOf(p), "name", p.name, << >>)
<1>1. case # "name" /\ case # "type"
  BY DEF ValueCase
<1>2. ReadProperty(p) = Set(named, "type", p.type, 0)
  BY DEF ReadProperty
<1>3. Get(named, "name", << >>) = p.name
  BY GetSet
<1>4. /\ case \in DOMAIN named <=> case \in DOMAIN ReadValueOf(p)
      /\ case \in DOMAIN ReadValueOf(p) => named[case] = ReadValueOf(p)[case]
  BY <1>1, SetOther
<1> HIDE DEF named
<1>5. Get(ReadProperty(p), "name", << >>) = p.name
  BY <1>2, <1>3, SetOther DEF Get
<1>6. /\ case \in DOMAIN ReadProperty(p) <=> case \in DOMAIN named
      /\ case \in DOMAIN named => ReadProperty(p)[case] = named[case]
  BY <1>1, <1>2, SetOther
<1>7. ASSUME p.type = type
      PROVE  /\ case \in DOMAIN ReadValueOf(p)
             /\ Get(ReadValueOf(p)[case], "value", ValueDefault(case)) = p.value
  <2> DEFINE made == Set(<< >>, "value", p.value, ValueDefault(case))
  <2> HIDE DEF case, made
  <2>1. ReadValueOf(p) = With(<< >>, case, made)
    BY <1>7 DEF ReadValueOf, case, made
  <2>2. case \in DOMAIN ReadValueOf(p) /\ ReadValueOf(p)[case] = made
    BY <2>1 DEF With
  <2>3. Get(made, "value", ValueDefault(case)) = p.value
    BY GetSet DEF made
  <2> QED
    BY <2>2, <2>3
<1>8. ASSUME p.type # type PROVE case \notin DOMAIN ReadValueOf(p)
  <2>1. DOMAIN << >> = {}
    OBVIOUS
  <2>2. CASE p.type \in 0 .. 3
    <3> DEFINE other == ValueCase[p.type + 1]
               made == Set(<< >>, "value", p.value, ValueDefault(other))
    <3>1. ReadValueOf(p) = With(<< >>, other, made)
      BY <2>2 DEF ReadValueOf
    <3>2. other # case
      BY <1>8, <2>2 DEF ValueCase
    <3> HIDE DEF other, made, case
    <3>3. DOMAIN ReadValueOf(p) = {other}
      BY <2>1, <3>1 DEF With
    <3> QED
      BY <3>2, <3>3
  <2>3. CASE p.type \notin 0 .. 3
    <3>1. ReadValueOf(p) = << >>
      BY <2>3 DEF ReadValueOf
    <3> QED
      BY <2>1, <3>1
  <2> QED
    BY <2>2, <2>3
<1> HIDE DEF case
<1>9. /\ case \in DOMAIN ReadProperty(p) <=> p.type = type
      /\ p.type = type => Get(ReadProperty(p)[case], "value", ValueDefault(case)) = p.value
  BY <1>4, <1>6, <1>7, <1>8
<1> QED
  BY <1>5, <1>9 DEF case

(* One look-up.                                                            *)
LEMMA LookedUp ==
  ASSUME NEW component, NEW entries, NEW name, NEW type \in 0 .. 3, NEW default,
         DOMAIN entries \subseteq Nat, \A e \in DOMAIN entries : entries[e].type \in Nat,
         Get(component, "property", << >>) =
           [i \in 1 .. Cardinality(GapFree(entries)) |-> ReadProperty(entries[i - 1])]
  PROVE  LooksUp(component, entries, name, type, default)
<1> DEFINE n == Cardinality(GapFree(entries))
           case == ValueCase[type + 1]
           properties == Get(component, "property", << >>)
           found == {e \in GapFree(entries) : entries[e].name = name /\ entries[e].type = type}
           matching == {i \in DOMAIN properties :
                          Get(properties[i], "name", << >>) = name /\ case \in DOMAIN properties[i]}
<1>1. n \in Nat /\ GapFree(entries) = 0 .. n - 1 /\ GapFree(entries) \subseteq DOMAIN entries
  BY GapFreeIs DEF GapFree
<1>2. properties = [i \in 1 .. n |-> ReadProperty(entries[i - 1])]
  OBVIOUS
<1>3. GetProperty(component, name, case, default) =
        IF matching = {} THEN default
        ELSE Get(properties[Min(matching)][case], "value", ValueDefault(case))
  BY DEF GetProperty
<1> HIDE DEF n, properties, case
<1>4. ASSUME NEW i \in 1 .. n
      PROVE  /\ i - 1 \in 0 .. n - 1 /\ entries[i - 1].type \in Nat
             /\ properties[i] = ReadProperty(entries[i - 1])
  BY <1>1, <1>2
<1>5. ASSUME NEW i \in 1 .. n
      PROVE  /\ i \in matching <=> i - 1 \in found
             /\ i - 1 \in found => Get(properties[i][case], "value", ValueDefault(case)) = entries[i - 1].value
  <2>1. /\ Get(properties[i], "name", << >>) = entries[i - 1].name
        /\ case \in DOMAIN properties[i] <=> entries[i - 1].type = type
        /\ entries[i - 1].type = type =>
             Get(properties[i][case], "value", ValueDefault(case)) = entries[i - 1].value
    BY <1>4, PropertyRead DEF case
  <2>2. i \in DOMAIN properties
    BY <1>2
  <2> QED
    BY <1>1, <1>4, <2>1, <2>2
<1>6. matching \subseteq 1 .. n /\ found \subseteq 0 .. n - 1
  BY <1>1, <1>2
<1> HIDE DEF matching, found
<1>7. CASE found = {}
  <2>1. GetProperty(component, name, case, default) = default
    BY <1>3, <1>5, <1>6, <1>7
  <2> QED
    BY <1>7, <2>1 DEF LooksUp, found, case
<1>8. CASE found # {}
  <2>1. PICK e \in found : Min(found) = e /\ \A y \in found : e <= y
    <3>1. found \subseteq Nat
      BY <1>1, <1>6
    <3> QED
      BY <3>1, <1>8, Least
  <2>2. e \in Nat /\ e + 1 \in 1 .. n /\ (e + 1) - 1 = e
    BY <1>1, <1>6, <2>1
  <2>3. e + 1 \in matching
    BY <1>5, <2>1, <2>2
  <2>4. ASSUME NEW i \in matching PROVE e + 1 <= i
    <3>1. i \in 1 .. n /\ i - 1 \in found
      BY <1>5, <1>6
    <3> QED
      BY <1>1, <2>1, <2>2, <3>1
  <2>5. Min(matching) = e + 1
    <3>1. matching \subseteq Nat
      BY <1>1, <1>6
    <3> QED
      BY <2>3, <2>4, <3>1, MinIs
  <2>6. Get(properties[e + 1][case], "value", ValueDefault(case)) = entries[e].value
    BY <1>5, <2>1, <2>2
  <2>7. GetProperty(component, name, case, default) = entries[Min(found)].value
    BY <1>3, <2>1, <2>3, <2>5, <2>6
  <2> QED
    BY <1>8, <2>7 DEF LooksUp, found, case
<1> QED
  BY <1>7, <1>8

(* The Setup the client makes of any section that has a pipe 0: what       *)
(* getPropertyUint(), ...Bool(), ...Double() and ...String() find in its   *)
(* components is the first entry of that name and type before the first    *)
(* gap, and the default if there is none; an entry of another type, of no  *)
(* known type, with the default for a value, or behind the gap never hides *)
(* or replaces it (SnpConfig::readPipesSection, sendSetupMessage,          *)
(* PropertyUtil).                                                          *)
THEOREM SettingsAreFound ==
  ASSUME NEW section, IsSection(section), 0 \in DOMAIN section, NEW default
  PROVE  FindsFirst(Get(Get(SetupMessage(ReadPipes(section)[1]), "setup", << >>),
                        "component", << >>),
                    section[0], default)
<1> DEFINE pipe == section[0]
           components == ReadPipe(pipe)
<1>1. DOMAIN section \subseteq Nat /\ DOMAIN pipe \subseteq Nat
  BY DEF IsSection
<1>2. ReadPipes(section)[1] = components
  <2>1. 0 \in GapFree(section)
    BY DEF GapFree
  <2>2. 1 \in 1 .. Cardinality(GapFree(section)) /\ 1 - 1 = 0
    BY <1>1, <2>1, GapFreeIs
  <2> QED
    BY <2>2, SectionRead
<1>3. Get(Get(SetupMessage(components), "setup", << >>), "component", << >>) = components
  BY GetWith, GetSet DEF SetupMessage
<1>4. ASSUME NEW c \in GapFree(pipe)
      PROVE  LET entries == pipe[c].properties
             IN \A name \in {entries[e].name : e \in DOMAIN entries}, type \in 0 .. 3 :
                  LooksUp(components[c + 1], entries, name, type, default)
  <2> DEFINE entries == pipe[c].properties
  <2>1. c \in DOMAIN pipe /\ c \in Nat
    BY <1>1 DEF GapFree
  <2>2. DOMAIN entries \subseteq Nat /\ \A e \in DOMAIN entries : entries[e].type \in Nat
    BY <2>1 DEF IsSection
  <2>3. components[c + 1] = ReadComponent(pipe[c])
    <3>1. c + 1 \in 1 .. Cardinality(GapFree(pipe)) /\ (c + 1) - 1 = c
      BY <1>1, GapFreeIs
    <3> QED
      BY <3>1, PipeRead
  <2>4. Get(components[c + 1], "property", << >>) =
          [i \in 1 .. Cardinality(GapFree(entries)) |-> ReadProperty(entries[i - 1])]
    BY <2>3, ComponentRead
  <2> HIDE DEF entries, components
  <2>5. \A name, type : type \in 0 .. 3 => LooksUp(components[c + 1], entries, name, type, default)
    BY <2>2, <2>4, LookedUp
  <2> QED
    BY <2>5 DEF entries
<1>5. FindsFirst(components, pipe, default)
  BY <1>4, Zenon DEF FindsFirst
<1> QED
  BY <1>2, <1>3, <1>5

-----------------------------------------------------------------------------
(* Recursive functions: their equations, and Varint and ReadVarint.        *)

(* Induction, with a set for the property. *)
LEMMA Induction ==
  ASSUME NEW S, 0 \in S, \A n \in Nat : n \in S => n + 1 \in S
  PROVE  Nat \subseteq S
<1> DEFINE R == {ss \in Nat \X Nat : ss[1] < ss[2]}
           gaps == Nat \ S
<1>1. IsWellFoundedOn(R, Nat)
  BY NatLessThanWellFounded, Zenon DEF OpToRel
<1>2. SUFFICES ASSUME gaps # {} PROVE FALSE
  OBVIOUS
<1>3. PICK x \in gaps : \A y \in gaps : << y, x >> \notin R
  <2>1. gaps \subseteq Nat
    OBVIOUS
  <2> HIDE DEF R, gaps
  <2> QED
    BY <1>1, <1>2, <2>1, WFMin
<1>4. x \in Nat /\ x # 0 /\ x - 1 \in Nat
  BY <1>3
<1>5. x - 1 \in S
  <2>1. << x - 1, x >> \in R
    BY <1>4
  <2> HIDE DEF R
  <2> QED
    BY <1>3, <1>4, <2>1
<1> QED
  BY <1>3, <1>4, <1>5

(* What is parsed into a value, at a depth: 1 for the types without        *)
(* sub-messages, 5 for a Message.                                          *)
ParseAt(depth, type, b, m) ==
  IF depth = 1 THEN ParseValue(type, b, m)
  ELSE IF depth = 2 THEN ParseProperty(type, b, m)
  ELSE IF depth = 3 THEN ParseComponent(type, b, m)
  ELSE IF depth = 4 THEN ParseBody(type, b, m)
  ELSE IF depth = 5 THEN ParseFields(type, b, m, ParseBody)
  ELSE Failure

(* What becomes of the value at the front.                                 *)
InnerParse(depth, type, s) ==
  LET read == ReadField(type, s.rest)
      f == CHOOSE f \in read.fields : TRUE
  IN IF IsMessage(f.kind) THEN ParseAt(depth - 1, f.kind, read.value, Old(s.msg, f))
     ELSE [ok |-> TRUE, msg |-> read.value]

(* The equations of Varint and ReadVarint.                                 *)
VarintBody(f) ==
  [n \in Nat |-> IF n < 128 THEN << n >> ELSE << 128 + (n % 128) >> \o f[n \div 128]]

ReadBody(f) ==
  [b \in Seq(Byte) |->
     IF b = << >> THEN Failure
     ELSE IF b[1] < 128 THEN Success(b[1], DropFirst(b, 1))
     ELSE LET high == f[DropFirst(b, 1)] IN
          IF high.ok THEN Success((b[1] % 128) + 128 * high.value, high.rest) ELSE Failure]

(* The next value of a recursive function: all of them in one, so that     *)
(* what is known of one is known of the others.                            *)
Following(c, n, s) ==
  IF c.what = "parts" THEN Before(s, c.parts[n + 1])
  ELSE IF c.what = "varint" THEN VarintBody(s)
  ELSE IF c.what = "read" THEN ReadBody(s)
  ELSE IF c.what = "parse"
    THEN IF s.ok /\ s.rest # << >>
           THEN TakeField(c.type, s, InnerParse(c.depth, c.type, s)) ELSE s
  ELSE IF c.what = "start" THEN s + Len(Serialize(c.stream[n + 1]).bytes)
  ELSE Merge(s, c.stream[c.i + n])

(* The first n + 1, and all, values of the recursive function c.           *)
Chain(c, first, n, f) ==
  /\ f = [k \in 0 .. n |-> f[k]]
  /\ f[0] = first
  /\ \A k \in 1 .. n : f[k] = Following(c, k - 1, f[k - 1])

Endless(c, first, g) ==
  /\ g = [n \in Nat |-> g[n]]
  /\ g[0] = first
  /\ \A n \in Nat : g[n + 1] = Following(c, n, g[n])

(* They exist: chains of any length agree where both are defined.          *)
LEMMA ChainExists ==
  ASSUME NEW c, NEW first
  PROVE  \E g : Endless(c, first, g)
<1> DEFINE S == {n \in Nat : \E f : Chain(c, first, n, f)}
<1>1. 0 \in S
  <2> DEFINE f == [k \in 0 .. 0 |-> first]
  <2>1. Chain(c, first, 0, f)
    BY DEF Chain
  <2> QED
    BY <2>1
<1>2. ASSUME NEW n \in Nat, n \in S PROVE n + 1 \in S
  <2>1. PICK f : Chain(c, first, n, f)
    BY <1>2
  <2> DEFINE g == [k \in 0 .. n + 1 |-> IF k <= n THEN f[k] ELSE Following(c, n, f[n])]
  <2>2. g = [k \in 0 .. n + 1 |-> g[k]]
    OBVIOUS
  <2>3. g[0] = first
    BY <2>1 DEF Chain
  <2>4. ASSUME NEW k \in 1 .. n + 1 PROVE g[k] = Following(c, k - 1, g[k - 1])
    <3>1. k - 1 \in 0 .. n /\ g[k - 1] = f[k - 1]
      OBVIOUS
    <3>2. CASE k <= n
      <4>1. k \in 1 .. n /\ g[k] = f[k]
        BY <3>2
      <4> QED
        BY <3>1, <4>1, <2>1 DEF Chain
    <3>3. CASE k = n + 1
      <4>1. k - 1 = n /\ g[k] = Following(c, n, f[n])
        BY <3>3
      <4> QED
        BY <3>1, <4>1
    <3> QED
      BY <3>2, <3>3
  <2> HIDE DEF g
  <2>5. Chain(c, first, n + 1, g)
    BY <2>2, <2>3, <2>4 DEF Chain
  <2> QED
    BY <2>5
<1>3. ASSUME NEW n \in Nat PROVE \E f : Chain(c, first, n, f)
  <2> HIDE DEF S
  <2>1. Nat \subseteq S
    BY <1>1, <1>2, Induction
  <2>2. n \in S
    BY <2>1
  <2> QED
    BY <2>2 DEF S
<1> DEFINE run(n) == CHOOSE f : Chain(c, first, n, f)
           g == [n \in Nat |-> run(n)[n]]
<1>4. ASSUME NEW n \in Nat PROVE Chain(c, first, n, run(n))
  BY <1>3, Zenon
<1> HIDE DEF run
<1>5. ASSUME NEW n \in Nat PROVE run(n + 1)[n] = run(n)[n]
  <2> DEFINE f == run(n + 1)
             h == run(n)
             U == {k \in Nat : k <= n => f[k] = h[k]}
  <2>1. Chain(c, first, n + 1, f) /\ Chain(c, first, n, h)
    BY <1>4
  <2> HIDE DEF f, h
  <2>2. 0 \in U
    BY <2>1 DEF Chain
  <2>3. ASSUME NEW k \in Nat, k \in U PROVE k + 1 \in U
    <3> SUFFICES ASSUME k + 1 <= n PROVE f[k + 1] = h[k + 1]
      OBVIOUS
    <3>1. k + 1 \in 1 .. n /\ k + 1 \in 1 .. n + 1 /\ (k + 1) - 1 = k /\ f[k] = h[k]
      BY <2>3
    <3>2. f[k + 1] = Following(c, (k + 1) - 1, f[(k + 1) - 1])
          /\ h[k + 1] = Following(c, (k + 1) - 1, h[(k + 1) - 1])
      BY <2>1, <3>1 DEF Chain
    <3> QED
      BY <3>1, <3>2
  <2>4. n \in U
    <3> HIDE DEF U
    <3>1. Nat \subseteq U
      BY <2>2, <2>3, Induction
    <3> QED
      BY <3>1
  <2> QED
    BY <2>4 DEF f, h
<1>6. g[0] = first
  BY <1>4 DEF Chain
<1>7. ASSUME NEW n \in Nat PROVE g[n + 1] = Following(c, n, g[n])
  <2>1. n + 1 \in Nat /\ n + 1 \in 1 .. n + 1 /\ (n + 1) - 1 = n
    OBVIOUS
  <2>2. g[n + 1] = run(n + 1)[n + 1] /\ g[n] = run(n)[n]
    BY <2>1
  <2>3. run(n + 1)[n + 1] = Following(c, (n + 1) - 1, run(n + 1)[(n + 1) - 1])
    BY <1>4, <2>1 DEF Chain
  <2> QED
    BY <1>5, <2>1, <2>2, <2>3
<1>8. g = [n \in Nat |-> g[n]]
  OBVIOUS
<1> HIDE DEF g
<1>9. Endless(c, first, g)
  BY <1>6, <1>7, <1>8 DEF Endless
<1> QED
  BY <1>9

(* The same as the equation of a recursive function. *)
LEMMA ChainEquation ==
  ASSUME NEW c, NEW first, NEW g, Endless(c, first, g)
  PROVE  g = [n \in Nat |-> IF n = 0 THEN first ELSE Following(c, n - 1, g[n - 1])]
<1>1. ASSUME NEW n \in Nat
      PROVE  g[n] = IF n = 0 THEN first ELSE Following(c, n - 1, g[n - 1])
  <2>1. CASE n = 0
    BY <2>1 DEF Endless
  <2>2. CASE n # 0
    <3>1. n - 1 \in Nat /\ (n - 1) + 1 = n
      BY <2>2
    <3>2. g[(n - 1) + 1] = Following(c, n - 1, g[n - 1])
      BY <3>1 DEF Endless
    <3> QED
      BY <2>2, <3>1, <3>2
  <2> QED
    BY <2>1, <2>2
<1>2. g = [n \in Nat |-> g[n]]
  BY DEF Endless
<1> QED
  BY <1>1, <1>2

(* Varint and ReadVarint satisfy their equations.                          *)
LEMMA VarintUnfold ==
  ASSUME NEW n \in Nat
  PROVE  Varint[n] = IF n < 128 THEN << n >>
                     ELSE << 128 + (n % 128) >> \o Varint[n \div 128]
<1> DEFINE c == [what |-> "varint"]
<1>1. PICK g : Endless(c, [k \in Nat |-> << k >>], g)
  BY ChainExists
<1>2. ASSUME NEW k \in Nat PROVE g[k + 1] = VarintBody(g[k])
  BY <1>1, <1>2 DEF Endless, Following
<1> DEFINE P(k) == \A i \in Nat : i < k => g[k + 1][i] = g[k][i]
           U == {k \in Nat : P(k)}
<1>3. 0 \in U
  OBVIOUS
<1>4. ASSUME NEW k \in Nat, k \in U PROVE k + 1 \in U
  <2> SUFFICES ASSUME NEW i \in Nat, i < k + 1 PROVE g[(k + 1) + 1][i] = g[k + 1][i]
    OBVIOUS
  <2>1. g[(k + 1) + 1] = VarintBody(g[k + 1]) /\ g[k + 1] = VarintBody(g[k])
    BY <1>2
  <2>2. CASE i < 128
    BY <2>1, <2>2 DEF VarintBody
  <2>3. CASE i >= 128
    <3>1. i \div 128 \in Nat /\ i \div 128 < k
      BY <2>3
    <3>2. g[k + 1][i \div 128] = g[k][i \div 128]
      BY <1>4, <3>1
    <3> QED
      BY <2>1, <2>3, <3>2 DEF VarintBody
  <2> QED
    BY <2>2, <2>3
<1>5. ASSUME NEW k \in Nat, NEW i \in Nat, i < k PROVE g[k + 1][i] = g[k][i]
  <2> HIDE DEF U
  <2>1. Nat \subseteq U
    BY <1>3, <1>4, Induction
  <2>2. k \in U
    BY <2>1
  <2> QED
    BY <2>2, <1>5 DEF U
<1> DEFINE h == [i \in Nat |-> g[i + 1][i]]
<1>6. ASSUME NEW i \in Nat PROVE \A k \in Nat : i < k => g[k][i] = h[i]
  <2> DEFINE V == {k \in Nat : i < k => g[k][i] = h[i]}
  <2>1. 0 \in V
    OBVIOUS
  <2>2. ASSUME NEW k \in Nat, k \in V PROVE k + 1 \in V
    <3>1. CASE i < k
      BY <2>2, <3>1, <1>5
    <3>2. CASE i = k
      BY <3>2
    <3> QED
      BY <3>1, <3>2
  <2> HIDE DEF V
  <2>3. Nat \subseteq V
    BY <2>1, <2>2, Induction
  <2> QED
    BY <2>3 DEF V
<1>7. h = VarintBody(h)
  <2>1. ASSUME NEW i \in Nat PROVE h[i] = VarintBody(h)[i]
    <3>1. h[i] = VarintBody(g[i])[i]
      BY <1>2
    <3>2. CASE i < 128
      BY <3>1, <3>2 DEF VarintBody
    <3>3. CASE i >= 128
      <4>1. i \div 128 \in Nat /\ i \div 128 < i
        BY <3>3
      <4>2. g[i][i \div 128] = h[i \div 128]
        BY <1>6, <4>1
      <4> HIDE DEF h
      <4> QED
        BY <3>1, <3>3, <4>2 DEF VarintBody
    <3> QED
      BY <3>2, <3>3
  <2>2. VarintBody(h) = [i \in Nat |-> VarintBody(h)[i]]
    BY DEF VarintBody
  <2> QED
    BY <2>1, <2>2
<1> HIDE DEF h
<1>8. Varint = VarintBody(Varint)
  <2> DEFINE r == CHOOSE x : x = VarintBody(x)
  <2>1. Varint = r
    BY Zenon DEF Varint, VarintBody
  <2>2. r = VarintBody(r)
    BY <1>7, Zenon
  <2> HIDE DEF r
  <2> QED
    BY <2>1, <2>2
<1> QED
  BY <1>8, Zenon DEF VarintBody

(* Without its first byte a sequence of bytes is shorter by one.           *)
LEMMA DropFirstSeq ==
  ASSUME NEW b \in Seq(Byte), b # << >>
  PROVE  DropFirst(b, 1) \in Seq(Byte) /\ Len(DropFirst(b, 1)) = Len(b) - 1
<1>1. PICK n \in Nat \ {0} : n = Len(b)
  BY EmptySeq
<1>2. DropFirst(b, 1) = SubSeq(b, 2, n)
  BY <1>1 DEF DropFirst
<1>3. \A i \in 2 .. n : b[i] \in Byte
  BY <1>1, ElementOfSeq
<1>4. /\ SubSeq(b, 2, n) \in Seq(Byte)
      /\ Len(SubSeq(b, 2, n)) = IF 2 <= n THEN n - 2 + 1 ELSE 0
  BY <1>3, SubSeqProperties
<1>5. (IF 2 <= n THEN n - 2 + 1 ELSE 0) = n - 1
  OBVIOUS
<1> QED
  BY <1>1, <1>2, <1>4, <1>5

LEMMA ReadUnfold ==
  ASSUME NEW b \in Seq(Byte)
  PROVE  ReadVarint[b] =
           IF b = << >> THEN Failure
           ELSE IF b[1] < 128 THEN Success(b[1], DropFirst(b, 1))
           ELSE LET high == ReadVarint[DropFirst(b, 1)] IN
                IF high.ok THEN Success((b[1] % 128) + 128 * high.value, high.rest) ELSE Failure
<1> DEFINE c == [what |-> "read"]
           D == Seq(Byte)
<1>1. PICK g : Endless(c, [k \in D |-> Failure], g)
  BY ChainExists
<1>2. ASSUME NEW k \in Nat PROVE g[k + 1] = ReadBody(g[k])
  BY <1>1, <1>2 DEF Endless, Following
<1> DEFINE U == {k \in Nat : \A i \in D : Len(i) < k => g[k + 1][i] = g[k][i]}
<1>3. 0 \in U
  OBVIOUS
<1>4. ASSUME NEW k \in Nat, k \in U PROVE k + 1 \in U
  <2> SUFFICES ASSUME NEW i \in D, Len(i) < k + 1 PROVE g[(k + 1) + 1][i] = g[k + 1][i]
    OBVIOUS
  <2>1. g[(k + 1) + 1] = ReadBody(g[k + 1]) /\ g[k + 1] = ReadBody(g[k])
    BY <1>2
  <2>2. CASE i = << >>
    BY <2>1, <2>2 DEF ReadBody
  <2>3. CASE i # << >>
    <3>1. DropFirst(i, 1) \in D /\ Len(DropFirst(i, 1)) < k
      BY <2>3, DropFirstSeq
    <3>2. g[k + 1][DropFirst(i, 1)] = g[k][DropFirst(i, 1)]
      BY <1>4, <3>1
    <3> QED
      <4> DEFINE d == DropFirst(i, 1)
      <4>1. g[k + 1][d] = g[k][d]
        BY <3>2
      <4> HIDE DEF d
      <4> DEFINE E(h) == IF i = << >> THEN Failure
                         ELSE IF i[1] < 128 THEN Success(i[1], d)
                         ELSE IF h.ok THEN Success((i[1] % 128) + 128 * h.value, h.rest)
                              ELSE Failure
      <4>2. ASSUME NEW f PROVE ReadBody(f)[i] = E(f[d])
        BY Zenon DEF ReadBody, d
      <4> HIDE DEF E
      <4>3. ReadBody(g[k + 1])[i] = E(g[k + 1][d]) /\ ReadBody(g[k])[i] = E(g[k][d])
        BY <4>2, Zenon
      <4> QED
        BY <2>1, <4>1, <4>3, Zenon
  <2> QED
    BY <2>2, <2>3
<1>5. ASSUME NEW k \in Nat, NEW i \in D, Len(i) < k PROVE g[k + 1][i] = g[k][i]
  <2> HIDE DEF U
  <2>1. Nat \subseteq U
    BY <1>3, <1>4, Induction
  <2>2. k \in U
    BY <2>1
  <2> QED
    BY <2>2, <1>5 DEF U
<1> DEFINE h == [i \in D |-> g[Len(i) + 1][i]]
<1>6. ASSUME NEW i \in D PROVE \A k \in Nat : Len(i) < k => g[k][i] = h[i]
  <2> DEFINE V == {k \in Nat : Len(i) < k => g[k][i] = h[i]}
  <2>1. 0 \in V
    OBVIOUS
  <2>2. ASSUME NEW k \in Nat, k \in V PROVE k + 1 \in V
    <3>1. CASE Len(i) < k
      BY <2>2, <3>1, <1>5
    <3>2. CASE Len(i) = k
      BY <3>2
    <3> QED
      BY <3>1, <3>2
  <2> HIDE DEF V
  <2>3. Nat \subseteq V
    BY <2>1, <2>2, Induction
  <2> QED
    BY <2>3 DEF V
<1>7. h = ReadBody(h)
  <2>1. ASSUME NEW i \in D PROVE h[i] = ReadBody(h)[i]
    <3>1. h[i] = ReadBody(g[Len(i)])[i]
      <4>1. Len(i) \in Nat
        OBVIOUS
      <4>2. g[Len(i) + 1] = ReadBody(g[Len(i)])
        BY <1>2, <4>1
      <4> QED
        BY <4>2
    <3>2. CASE i = << >>
      BY <3>1, <3>2 DEF ReadBody
    <3>3. CASE i # << >>
      <4>1. DropFirst(i, 1) \in D /\ Len(DropFirst(i, 1)) < Len(i) /\ Len(i) \in Nat
        BY <3>3, DropFirstSeq
      <4>2. g[Len(i)][DropFirst(i, 1)] = h[DropFirst(i, 1)]
        BY <1>6, <4>1
      <4> HIDE DEF h
      <4> QED
        BY <3>1, <4>2, Zenon DEF ReadBody
    <3> QED
      BY <3>2, <3>3
  <2>2. ReadBody(h) = [i \in D |-> ReadBody(h)[i]]
    BY DEF ReadBody
  <2> HIDE DEF h
  <2>3. h = [i \in D |-> h[i]]
    BY DEF h
  <2> QED
    BY <2>1, <2>2, <2>3
<1> HIDE DEF h
<1>8. ReadVarint = ReadBody(ReadVarint)
  <2> DEFINE r == CHOOSE x : x = ReadBody(x)
  <2>1. ReadVarint = r
    BY Zenon DEF ReadVarint, ReadBody
  <2>2. r = ReadBody(r)
    BY <1>7, Zenon
  <2> HIDE DEF r
  <2> QED
    BY <2>1, <2>2
<1> QED
  BY <1>8, Zenon DEF ReadBody

(* A first byte is put before others and taken off again.                  *)
LEMMA FirstByte ==
  ASSUME NEW x \in Byte, NEW s \in Seq(Byte)
  PROVE  /\ << x >> \o s \in Seq(Byte)
         /\ << x >> \o s # << >>
         /\ (<< x >> \o s)[1] = x
         /\ DropFirst(<< x >> \o s, 1) = s
         /\ Len(<< x >> \o s) = Len(s) + 1
<1> DEFINE b == << x >> \o s
<1>1. << x >> \in Seq(Byte) /\ Len(<< x >>) = 1 /\ << x >>[1] = x
  OBVIOUS
<1>2. PICK n \in Nat : n = Len(s)
  BY EmptySeq, LenProperties
<1>3. /\ b \in Seq(Byte)
      /\ Len(b) = 1 + n
      /\ \A i \in 1 .. 1 + n : b[i] = IF i <= 1 THEN << x >>[i] ELSE s[i - 1]
  <2>1. /\ b \in Seq(Byte)
        /\ Len(b) = Len(<< x >>) + Len(s)
        /\ \A i \in 1 .. Len(<< x >>) + Len(s) :
             b[i] = IF i <= Len(<< x >>) THEN << x >>[i] ELSE s[i - Len(<< x >>)]
    BY <1>1, ConcatProperties
  <2> QED
    BY <2>1, <1>1, <1>2
<1> HIDE DEF b
<1>4. b # << >>
  <2>1. b = << >> => Len(b) = 0
    BY EmptySeq
  <2> QED
    BY <2>1, <1>2, <1>3
<1>5. b[1] = x
  BY <1>1, <1>2, <1>3
<1>6. DropFirst(b, 1) = s
  <2>1. DropFirst(b, 1) \in Seq(Byte) /\ Len(DropFirst(b, 1)) = n
    BY <1>2, <1>3, <1>4, DropFirstSeq
  <2>2. DropFirst(b, 1) = SubSeq(b, 2, 1 + n)
    BY <1>3 DEF DropFirst
  <2>3. ASSUME NEW i \in 1 .. n PROVE DropFirst(b, 1)[i] = s[i]
    <3>1. \A k \in 2 .. 1 + n : b[k] \in Byte
      BY <1>2, <1>3, ElementOfSeq
    <3>2. \A k \in 1 .. (1 + n) - 2 + 1 : SubSeq(b, 2, 1 + n)[k] = b[2 + k - 1]
      BY <3>1, SubSeqProperties
    <3>3. SubSeq(b, 2, 1 + n)[i] = b[2 + i - 1]
      BY <3>2
    <3>4. 2 + i - 1 \in 1 .. 1 + n /\ 2 + i - 1 > 1 /\ (2 + i - 1) - 1 = i
      OBVIOUS
    <3>5. b[2 + i - 1] = s[i]
      BY <1>3, <3>4
    <3> QED
      BY <2>2, <3>3, <3>5
  <2> QED
    BY <1>2, <2>1, <2>3, SeqEqual
<1>7. Len(b) = Len(s) + 1
  BY <1>2, <1>3
<1> QED
  BY <1>3, <1>4, <1>5, <1>6, <1>7 DEF b

(* The two cases of Varint.                                                *)
LEMMA VarintSmall ==
  ASSUME NEW n \in Nat, n < 128
  PROVE  Varint[n] = << n >>
BY VarintUnfold, Zenon

LEMMA VarintLarge ==
  ASSUME NEW n \in Nat, n >= 128
  PROVE  Varint[n] = << 128 + (n % 128) >> \o Varint[n \div 128]
<1>1. ~(n < 128)
  OBVIOUS
<1> QED
  BY <1>1, VarintUnfold, Zenon

(* What Varint writes are bytes.                                           *)
LEMMA ByteIs ==
  ASSUME NEW n \in Nat
  PROVE  (n < 256 => n \in Byte) /\ 128 + (n % 128) \in Byte
  BY DEF Byte

(* What Varint writes is read back, whatever follows. *)
LEMMA VarintRead ==
  ASSUME NEW n \in Nat
  PROVE  /\ Varint[n] \in Seq(Byte)
         /\ Varint[n] # << >>
         /\ \A r \in Seq(Byte) : ReadVarint[Varint[n] \o r] = Success(n, r)
<1> DEFINE P(k) == /\ Varint[k] \in Seq(Byte)
                   /\ Varint[k] # << >>
                   /\ \A r \in Seq(Byte) : ReadVarint[Varint[k] \o r] = Success(k, r)
           U == {k \in Nat : \A j \in Nat : j < k => P(j)}
<1>1. ASSUME NEW k \in Nat, k < 128 PROVE P(k)
  <2>1. Varint[k] = << k >> /\ k \in Byte
    BY <1>1, VarintSmall, ByteIs
  <2>2. << k >> \in Seq(Byte) /\ << k >> # << >>
    BY <2>1
  <2>3. ASSUME NEW r \in Seq(Byte) PROVE ReadVarint[<< k >> \o r] = Success(k, r)
    <3> DEFINE b == << k >> \o r
    <3>1. b \in Seq(Byte) /\ b # << >> /\ b[1] = k /\ DropFirst(b, 1) = r
      BY <2>1, FirstByte
    <3> HIDE DEF b
    <3> QED
      BY <1>1, <3>1, ReadUnfold DEF b
  <2> QED
    BY <2>1, <2>2, <2>3
<1>2. ASSUME NEW k \in Nat, k >= 128, P(k \div 128) PROVE P(k)
  <2> DEFINE x == 128 + (k % 128)
             t == Varint[k \div 128]
  <2>1. Varint[k] = << x >> \o t /\ x \in Byte /\ x >= 128 /\ x % 128 = k % 128
        /\ (k % 128) + 128 * (k \div 128) = k /\ k \div 128 \in Nat
    <3>1. Varint[k] = << x >> \o t
      BY <1>2, VarintLarge
    <3> QED
      BY <3>1, ByteIs
  <2>2. t \in Seq(Byte)
    BY <1>2
  <2>3. \A r \in Seq(Byte) : ReadVarint[t \o r] = Success(k \div 128, r)
    BY <1>2
  <2> HIDE DEF x, t
  <2>4. << x >> \o t \in Seq(Byte) /\ << x >> \o t # << >>
    BY <2>1, <2>2, FirstByte
  <2>5. ASSUME NEW r \in Seq(Byte) PROVE ReadVarint[(<< x >> \o t) \o r] = Success(k, r)
    <3> DEFINE b == << x >> \o (t \o r)
    <3>1. (<< x >> \o t) \o r = b
      <4>1. << x >> \in Seq(Byte)
        BY <2>1
      <4> QED
        BY <4>1, <2>2, ConcatAssociative
    <3>2. t \o r \in Seq(Byte)
      BY <2>2, ConcatProperties
    <3>3. b \in Seq(Byte) /\ b # << >> /\ b[1] = x /\ DropFirst(b, 1) = t \o r
      BY <2>1, <3>2, FirstByte
    <3> HIDE DEF b
    <3>4. ~(b[1] < 128)
      BY <2>1, <3>3 DEF Byte
    <3>5. ReadVarint[b] =
            IF ReadVarint[t \o r].ok
            THEN Success((x % 128) + 128 * ReadVarint[t \o r].value, ReadVarint[t \o r].rest)
            ELSE Failure
      <4>1. ReadVarint[b] =
           IF b = << >> THEN Failure
           ELSE IF b[1] < 128 THEN Success(b[1], DropFirst(b, 1))
           ELSE LET high == ReadVarint[DropFirst(b, 1)] IN
                IF high.ok THEN Success((b[1] % 128) + 128 * high.value, high.rest) ELSE Failure
        BY <3>3, ReadUnfold
      <4> QED
        BY <4>1, <3>3, <3>4, Zenon
    <3>6. ReadVarint[t \o r] = Success(k \div 128, r)
      BY <2>3
    <3>7. /\ ReadVarint[t \o r].ok
          /\ ReadVarint[t \o r].value = k \div 128
          /\ ReadVarint[t \o r].rest = r
      BY <3>6 DEF Success
    <3>8. ReadVarint[b] = Success((x % 128) + 128 * (k \div 128), r)
      BY <3>5, <3>7, Zenon
    <3>9. (x % 128) + 128 * (k \div 128) = k
      BY <2>1
    <3> QED
      BY <3>1, <3>8, <3>9
  <2> QED
    BY <2>1, <2>4, <2>5
<1> HIDE DEF P
<1>3. 0 \in U
  OBVIOUS
<1>4. ASSUME NEW k \in Nat, k \in U PROVE k + 1 \in U
  <2>1. P(k)
    <3>1. CASE k < 128
      BY <3>1, <1>1
    <3>2. CASE k >= 128
      <4>1. k \div 128 \in Nat /\ k \div 128 < k
        BY <3>2
      <4>2. P(k \div 128)
        BY <1>4, <4>1
      <4> QED
        BY <3>2, <4>2, <1>2
    <3> QED
      BY <3>1, <3>2
  <2>2. ASSUME NEW j \in Nat, j < k + 1 PROVE P(j)
    BY <1>4, <2>1, <2>2
  <2> QED
    BY <2>2
<1>5. n + 1 \in U
  <2> HIDE DEF U
  <2>1. Nat \subseteq U
    BY <1>3, <1>4, Induction
  <2> QED
    BY <2>1
<1>6. P(n)
  BY <1>5
<1> QED
  BY <1>6 DEF P

(* ByteSizeLong() counts as many bytes as are written. *)
LEMMA VarintLen ==
  ASSUME NEW n \in Nat, Fits(n)
  PROVE  Len(Varint[n]) = VarintSize(n)
<1>1. ASSUME NEW k \in Nat
      PROVE  Len(Varint[k]) = IF k < 128 THEN 1 ELSE 1 + Len(Varint[k \div 128])
  <2>1. CASE k < 128
    BY <2>1, VarintSmall
  <2>2. CASE k >= 128
    <3>1. Varint[k] = << 128 + (k % 128) >> \o Varint[k \div 128]
      BY <2>2, VarintLarge
    <3>2. k \div 128 \in Nat /\ 128 + (k % 128) \in Byte
      BY ByteIs
    <3>3. Varint[k \div 128] \in Seq(Byte)
      BY <3>2, VarintRead
    <3>4. Len(Varint[k \div 128]) \in Nat
      BY <3>3, LenProperties
    <3> QED
      BY <2>2, <3>1, <3>2, <3>3, <3>4, FirstByte
  <2> QED
    BY <2>1, <2>2
<1> DEFINE a == n \div 128
           b == a \div 128
           c == b \div 128
           d == c \div 128
<1>2. a \in Nat /\ b \in Nat /\ c \in Nat /\ d \in Nat
  OBVIOUS
<1>3. d < 128
  BY DEF Fits
<1>4. /\ (n < 128 * 128 <=> a < 128)
      /\ (n < 128 * 128 * 128 <=> b < 128)
      /\ (n < 128 * 128 * 128 * 128 <=> c < 128)
  OBVIOUS
<1> HIDE DEF a, b, c, d
<1> DEFINE L(k) == Len(Varint[k])
<1>5. ASSUME NEW k \in Nat
      PROVE  (k < 128 => L(k) = 1) /\ (k >= 128 => L(k) = 1 + L(k \div 128))
  <2>1. L(k) = IF k < 128 THEN 1 ELSE 1 + L(k \div 128)
    BY <1>1
  <2> HIDE DEF L
  <2> QED
    BY <2>1
<1> HIDE DEF L
<1>6. L(d) = 1
  BY <1>2, <1>3, <1>5
<1>7. (c < 128 => L(c) = 1) /\ (c >= 128 => L(c) = 1 + L(d))
  BY <1>2, <1>5 DEF d
<1>8. (b < 128 => L(b) = 1) /\ (b >= 128 => L(b) = 1 + L(c))
  BY <1>2, <1>5 DEF c
<1>9. (a < 128 => L(a) = 1) /\ (a >= 128 => L(a) = 1 + L(b))
  BY <1>2, <1>5 DEF b
<1>10. (n < 128 => L(n) = 1) /\ (n >= 128 => L(n) = 1 + L(a))
  BY <1>5 DEF a
<1>11. L(n) = VarintSize(n)
  <2>1. CASE n < 128
    BY <2>1, <1>10, Zenon DEF VarintSize
  <2>2. CASE n >= 128 /\ a < 128
    <3>1. n < 128 * 128 /\ ~(n < 128)
      BY <2>2, <1>4
    <3>2. L(n) = 2
      BY <2>2, <1>9, <1>10
    <3> QED
      BY <3>1, <3>2 DEF VarintSize
  <2>3. CASE n >= 128 /\ a >= 128 /\ b < 128
    <3>1. n < 128 * 128 * 128 /\ ~(n < 128) /\ ~(n < 128 * 128)
      BY <2>3, <1>2, <1>4
    <3>2. L(n) = 3
      BY <2>3, <1>8, <1>9, <1>10
    <3> QED
      BY <3>1, <3>2 DEF VarintSize
  <2>4. CASE n >= 128 /\ a >= 128 /\ b >= 128 /\ c < 128
    <3>1. /\ n < 128 * 128 * 128 * 128
          /\ ~(n < 128) /\ ~(n < 128 * 128) /\ ~(n < 128 * 128 * 128)
      BY <2>4, <1>2, <1>4
    <3>2. L(n) = 4
      BY <2>4, <1>7, <1>8, <1>9, <1>10
    <3> QED
      BY <3>1, <3>2 DEF VarintSize
  <2>5. CASE n >= 128 /\ a >= 128 /\ b >= 128 /\ c >= 128
    <3>1. /\ ~(n < 128 * 128 * 128 * 128)
          /\ ~(n < 128) /\ ~(n < 128 * 128) /\ ~(n < 128 * 128 * 128)
      BY <2>5, <1>2, <1>4
    <3>2. L(n) = 5
      BY <2>5, <1>6, <1>7, <1>8, <1>9, <1>10
    <3> QED
      BY <3>1, <3>2 DEF VarintSize
  <2> QED
    BY <1>2, <2>1, <2>2, <2>3, <2>4, <2>5
<1> QED
  BY <1>11 DEF L

-----------------------------------------------------------------------------
(* The tables of snp.proto.                                                *)

(* The message types of snp.proto.                                         *)
Types ==
  {"ValueString", "ValueBool", "ValueUint32", "ValueDouble", "Property",
   "Component", "Capabilities", "Setup", "Data", "Message",
   "StreamDataRaw", "StreamDataPointer", "StreamDataKeyboard", "StreamDataCursor"}

(* A table lists its fields by number, with different names.  The types of *)
(* sub-messages are fields that are repeated or cases of a oneof.          *)
IsField(f, i) ==
  /\ f.num = i
  /\ \/ f.kind \in {"varint", "fixed64", "bytes"} /\ f.label \in {"implicit", "optional"}
     \/ f.kind \in Types /\ f.label \in {"repeated", "oneof"}

IsTable(fs) ==
  /\ Len(fs) \in 1 .. 6
  /\ DOMAIN fs = 1 .. Len(fs)
  /\ \A i \in 1 .. Len(fs) : IsField(fs[i], i)
  /\ \A i, j \in 1 .. Len(fs) : fs[i].name = fs[j].name => i = j

(* Each type has a table.                                                  *)
LEMMA FieldsDomain == DOMAIN Fields = Types
BY DEF Fields, Types

(* Each table is one.                                                      *)
LEMMA ValueStringTable == IsTable(ValueStringFields)
<1> DEFINE fs == ValueStringFields
<1>1. Len(fs) = 1 /\ DOMAIN fs = 1 .. 1
  BY DEF ValueStringFields
<1>2. fs[1].num = 1 /\ fs[1].name = "value" /\ fs[1].kind = "bytes" /\ fs[1].label = "implicit"
  BY DEF ValueStringFields, Field
<1> HIDE DEF fs
<1>3. \A i \in 1 .. 1 : i = 1
  OBVIOUS
<1>4. \A i \in 1 .. 1 : IsField(fs[i], i)
  BY <1>2, <1>3 DEF IsField, Types
<1>5. \A i, j \in 1 .. 1 : fs[i].name = fs[j].name => i = j
  BY <1>2, <1>3
<1> QED
  BY <1>1, <1>4, <1>5 DEF IsTable, fs

LEMMA ValueBoolTable == IsTable(ValueBoolFields)
<1> DEFINE fs == ValueBoolFields
<1>1. Len(fs) = 1 /\ DOMAIN fs = 1 .. 1
  BY DEF ValueBoolFields
<1>2. fs[1].num = 1 /\ fs[1].name = "value" /\ fs[1].kind = "varint" /\ fs[1].label = "implicit"
  BY DEF ValueBoolFields, Field
<1> HIDE DEF fs
<1>3. \A i \in 1 .. 1 : i = 1
  OBVIOUS
<1>4. \A i \in 1 .. 1 : IsField(fs[i], i)
  BY <1>2, <1>3 DEF IsField, Types
<1>5. \A i, j \in 1 .. 1 : fs[i].name = fs[j].name => i = j
  BY <1>2, <1>3
<1> QED
  BY <1>1, <1>4, <1>5 DEF IsTable, fs

LEMMA ValueUint32Table == IsTable(ValueUint32Fields)
<1> DEFINE fs == ValueUint32Fields
<1>1. Len(fs) = 3 /\ DOMAIN fs = 1 .. 3
  BY DEF ValueUint32Fields
<1>2. fs[1].num = 1 /\ fs[1].name = "value" /\ fs[1].kind = "varint" /\ fs[1].label = "implicit"
  BY DEF ValueUint32Fields, Field
<1>3. fs[2].num = 2 /\ fs[2].name = "min" /\ fs[2].kind = "varint" /\ fs[2].label = "optional"
  BY DEF ValueUint32Fields, Field
<1>4. fs[3].num = 3 /\ fs[3].name = "max" /\ fs[3].kind = "varint" /\ fs[3].label = "optional"
  BY DEF ValueUint32Fields, Field
<1> HIDE DEF fs
<1>5. \A i \in 1 .. 3 : i = 1 \/ i = 2 \/ i = 3
  OBVIOUS
<1>6. \A i \in 1 .. 3 : IsField(fs[i], i)
  BY <1>2, <1>3, <1>4, <1>5 DEF IsField, Types
<1>7. \A i, j \in 1 .. 3 : fs[i].name = fs[j].name => i = j
  BY <1>2, <1>3, <1>4, <1>5
<1> QED
  BY <1>1, <1>6, <1>7 DEF IsTable, fs

LEMMA ValueDoubleTable == IsTable(ValueDoubleFields)
<1> DEFINE fs == ValueDoubleFields
<1>1. Len(fs) = 3 /\ DOMAIN fs = 1 .. 3
  BY DEF ValueDoubleFields
<1>2. fs[1].num = 1 /\ fs[1].name = "value" /\ fs[1].kind = "fixed64" /\ fs[1].label = "implicit"
  BY DEF ValueDoubleFields, Field
<1>3. fs[2].num = 2 /\ fs[2].name = "min" /\ fs[2].kind = "fixed64" /\ fs[2].label = "optional"
  BY DEF ValueDoubleFields, Field
<1>4. fs[3].num = 3 /\ fs[3].name = "max" /\ fs[3].kind = "fixed64" /\ fs[3].label = "optional"
  BY DEF ValueDoubleFields, Field
<1> HIDE DEF fs
<1>5. \A i \in 1 .. 3 : i = 1 \/ i = 2 \/ i = 3
  OBVIOUS
<1>6. \A i \in 1 .. 3 : IsField(fs[i], i)
  BY <1>2, <1>3, <1>4, <1>5 DEF IsField, Types
<1>7. \A i, j \in 1 .. 3 : fs[i].name = fs[j].name => i = j
  BY <1>2, <1>3, <1>4, <1>5
<1> QED
  BY <1>1, <1>6, <1>7 DEF IsTable, fs

LEMMA PropertyTable == IsTable(PropertyFields)
<1> DEFINE fs == PropertyFields
<1>1. Len(fs) = 6 /\ DOMAIN fs = 1 .. 6
  BY DEF PropertyFields
<1>2. fs[1].num = 1 /\ fs[1].name = "type" /\ fs[1].kind = "varint" /\ fs[1].label = "implicit"
  BY DEF PropertyFields, Field
<1>3. fs[2].num = 2 /\ fs[2].name = "name" /\ fs[2].kind = "bytes" /\ fs[2].label = "implicit"
  BY DEF PropertyFields, Field
<1>4. fs[3].num = 3 /\ fs[3].name = "value_string" /\ fs[3].kind = "ValueString" /\ fs[3].label = "oneof"
  BY DEF PropertyFields, Field
<1>5. fs[4].num = 4 /\ fs[4].name = "value_bool" /\ fs[4].kind = "ValueBool" /\ fs[4].label = "oneof"
  BY DEF PropertyFields, Field
<1>6. fs[5].num = 5 /\ fs[5].name = "value_uint32" /\ fs[5].kind = "ValueUint32" /\ fs[5].label = "oneof"
  BY DEF PropertyFields, Field
<1>7. fs[6].num = 6 /\ fs[6].name = "value_double" /\ fs[6].kind = "ValueDouble" /\ fs[6].label = "oneof"
  BY DEF PropertyFields, Field
<1> HIDE DEF fs
<1>8. \A i \in 1 .. 6 : i = 1 \/ i = 2 \/ i = 3 \/ i = 4 \/ i = 5 \/ i = 6
  OBVIOUS
<1>9. \A i \in 1 .. 6 : IsField(fs[i], i)
  BY <1>2, <1>3, <1>4, <1>5, <1>6, <1>7, <1>8 DEF IsField, Types
<1>10. \A i, j \in 1 .. 6 : fs[i].name = fs[j].name => i = j
  BY <1>2, <1>3, <1>4, <1>5, <1>6, <1>7, <1>8
<1> QED
  BY <1>1, <1>9, <1>10 DEF IsTable, fs

LEMMA ComponentTable == IsTable(ComponentFields)
<1> DEFINE fs == ComponentFields
<1>1. Len(fs) = 2 /\ DOMAIN fs = 1 .. 2
  BY DEF ComponentFields
<1>2. fs[1].num = 1 /\ fs[1].name = "componentType" /\ fs[1].kind = "varint" /\ fs[1].label = "implicit"
  BY DEF ComponentFields, Field
<1>3. fs[2].num = 2 /\ fs[2].name = "property" /\ fs[2].kind = "Property" /\ fs[2].label = "repeated"
  BY DEF ComponentFields, Field
<1> HIDE DEF fs
<1>4. \A i \in 1 .. 2 : i = 1 \/ i = 2
  OBVIOUS
<1>5. \A i \in 1 .. 2 : IsField(fs[i], i)
  BY <1>2, <1>3, <1>4 DEF IsField, Types
<1>6. \A i, j \in 1 .. 2 : fs[i].name = fs[j].name => i = j
  BY <1>2, <1>3, <1>4
<1> QED
  BY <1>1, <1>5, <1>6 DEF IsTable, fs

LEMMA CapabilitiesTable == IsTable(CapabilitiesFields)
<1> DEFINE fs == CapabilitiesFields
<1>1. Len(fs) = 2 /\ DOMAIN fs = 1 .. 2
  BY DEF CapabilitiesFields
<1>2. fs[1].num = 1 /\ fs[1].name = "platform" /\ fs[1].kind = "varint" /\ fs[1].label = "implicit"
  BY DEF CapabilitiesFields, Field
<1>3. fs[2].num = 2 /\ fs[2].name = "component" /\ fs[2].kind = "Component" /\ fs[2].label = "repeated"
  BY DEF CapabilitiesFields, Field
<1> HIDE DEF fs
<1>4. \A i \in 1 .. 2 : i = 1 \/ i = 2
  OBVIOUS
<1>5. \A i \in 1 .. 2 : IsField(fs[i], i)
  BY <1>2, <1>3, <1>4 DEF IsField, Types
<1>6. \A i, j \in 1 .. 2 : fs[i].name = fs[j].name => i = j
  BY <1>2, <1>3, <1>4
<1> QED
  BY <1>1, <1>5, <1>6 DEF IsTable, fs

LEMMA SetupTable == IsTable(SetupFields)
<1> DEFINE fs == SetupFields
<1>1. Len(fs) = 3 /\ DOMAIN fs = 1 .. 3
  BY DEF SetupFields
<1>2. fs[1].num = 1 /\ fs[1].name = "pipe_id" /\ fs[1].kind = "varint" /\ fs[1].label = "implicit"
  BY DEF SetupFields, Field
<1>3. fs[2].num = 2 /\ fs[2].name = "command" /\ fs[2].kind = "varint" /\ fs[2].label = "implicit"
  BY DEF SetupFields, Field
<1>4. fs[3].num = 3 /\ fs[3].name = "component" /\ fs[3].kind = "Component" /\ fs[3].label = "repeated"
  BY DEF SetupFields, Field
<1> HIDE DEF fs
<1>5. \A i \in 1 .. 3 : i = 1 \/ i = 2 \/ i = 3
  OBVIOUS
<1>6. \A i \in 1 .. 3 : IsField(fs[i], i)
  BY <1>2, <1>3, <1>4, <1>5 DEF IsField, Types
<1>7. \A i, j \in 1 .. 3 : fs[i].name = fs[j].name => i = j
  BY <1>2, <1>3, <1>4, <1>5
<1> QED
  BY <1>1, <1>6, <1>7 DEF IsTable, fs

LEMMA DataTable == IsTable(DataFields)
<1> DEFINE fs == DataFields
<1>1. Len(fs) = 5 /\ DOMAIN fs = 1 .. 5
  BY DEF DataFields
<1>2. fs[1].num = 1 /\ fs[1].name = "pipe_id" /\ fs[1].kind = "varint" /\ fs[1].label = "implicit"
  BY DEF DataFields, Field
<1>3. fs[2].num = 2 /\ fs[2].name = "dataRaw" /\ fs[2].kind = "StreamDataRaw" /\ fs[2].label = "oneof"
  BY DEF DataFields, Field
<1>4. fs[3].num = 3 /\ fs[3].name = "dataPointer" /\ fs[3].kind = "StreamDataPointer" /\ fs[3].label = "oneof"
  BY DEF DataFields, Field
<1>5. fs[4].num = 4 /\ fs[4].name = "dataKeyboard" /\ fs[4].kind = "StreamDataKeyboard" /\ fs[4].label = "oneof"
  BY DEF DataFields, Field
<1>6. fs[5].num = 5 /\ fs[5].name = "dataCursor" /\ fs[5].kind = "StreamDataCursor" /\ fs[5].label = "oneof"
  BY DEF DataFields, Field
<1> HIDE DEF fs
<1>7. \A i \in 1 .. 5 : i = 1 \/ i = 2 \/ i = 3 \/ i = 4 \/ i = 5
  OBVIOUS
<1>8. \A i \in 1 .. 5 : IsField(fs[i], i)
  BY <1>2, <1>3, <1>4, <1>5, <1>6, <1>7 DEF IsField, Types
<1>9. \A i, j \in 1 .. 5 : fs[i].name = fs[j].name => i = j
  BY <1>2, <1>3, <1>4, <1>5, <1>6, <1>7
<1> QED
  BY <1>1, <1>8, <1>9 DEF IsTable, fs

LEMMA MessageTable == IsTable(MessageFields)
<1> DEFINE fs == MessageFields
<1>1. Len(fs) = 4 /\ DOMAIN fs = 1 .. 4
  BY DEF MessageFields
<1>2. fs[1].num = 1 /\ fs[1].name = "type" /\ fs[1].kind = "varint" /\ fs[1].label = "implicit"
  BY DEF MessageFields, Field
<1>3. fs[2].num = 2 /\ fs[2].name = "capabilities" /\ fs[2].kind = "Capabilities" /\ fs[2].label = "oneof"
  BY DEF MessageFields, Field
<1>4. fs[3].num = 3 /\ fs[3].name = "setup" /\ fs[3].kind = "Setup" /\ fs[3].label = "oneof"
  BY DEF MessageFields, Field
<1>5. fs[4].num = 4 /\ fs[4].name = "data" /\ fs[4].kind = "Data" /\ fs[4].label = "oneof"
  BY DEF MessageFields, Field
<1> HIDE DEF fs
<1>6. \A i \in 1 .. 4 : i = 1 \/ i = 2 \/ i = 3 \/ i = 4
  OBVIOUS
<1>7. \A i \in 1 .. 4 : IsField(fs[i], i)
  BY <1>2, <1>3, <1>4, <1>5, <1>6 DEF IsField, Types
<1>8. \A i, j \in 1 .. 4 : fs[i].name = fs[j].name => i = j
  BY <1>2, <1>3, <1>4, <1>5, <1>6
<1> QED
  BY <1>1, <1>7, <1>8 DEF IsTable, fs

LEMMA StreamDataRawTable == IsTable(StreamDataRawFields)
<1> DEFINE fs == StreamDataRawFields
<1>1. Len(fs) = 1 /\ DOMAIN fs = 1 .. 1
  BY DEF StreamDataRawFields
<1>2. fs[1].num = 1 /\ fs[1].name = "payload" /\ fs[1].kind = "bytes" /\ fs[1].label = "implicit"
  BY DEF StreamDataRawFields, Field
<1> HIDE DEF fs
<1>3. \A i \in 1 .. 1 : i = 1
  OBVIOUS
<1>4. \A i \in 1 .. 1 : IsField(fs[i], i)
  BY <1>2, <1>3 DEF IsField, Types
<1>5. \A i, j \in 1 .. 1 : fs[i].name = fs[j].name => i = j
  BY <1>2, <1>3
<1> QED
  BY <1>1, <1>4, <1>5 DEF IsTable, fs

LEMMA StreamDataPointerTable == IsTable(StreamDataPointerFields)
<1> DEFINE fs == StreamDataPointerFields
<1>1. Len(fs) = 3 /\ DOMAIN fs = 1 .. 3
  BY DEF StreamDataPointerFields
<1>2. fs[1].num = 1 /\ fs[1].name = "absx" /\ fs[1].kind = "varint" /\ fs[1].label = "implicit"
  BY DEF StreamDataPointerFields, Field
<1>3. fs[2].num = 2 /\ fs[2].name = "absy" /\ fs[2].kind = "varint" /\ fs[2].label = "implicit"
  BY DEF StreamDataPointerFields, Field
<1>4. fs[3].num = 3 /\ fs[3].name = "mask" /\ fs[3].kind = "varint" /\ fs[3].label = "optional"
  BY DEF StreamDataPointerFields, Field
<1> HIDE DEF fs
<1>5. \A i \in 1 .. 3 : i = 1 \/ i = 2 \/ i = 3
  OBVIOUS
<1>6. \A i \in 1 .. 3 : IsField(fs[i], i)
  BY <1>2, <1>3, <1>4, <1>5 DEF IsField, Types
<1>7. \A i, j \in 1 .. 3 : fs[i].name = fs[j].name => i = j
  BY <1>2, <1>3, <1>4, <1>5
<1> QED
  BY <1>1, <1>6, <1>7 DEF IsTable, fs

LEMMA StreamDataKeyboardTable == IsTable(StreamDataKeyboardFields)
<1> DEFINE fs == StreamDataKeyboardFields
<1>1. Len(fs) = 3 /\ DOMAIN fs = 1 .. 3
  BY DEF StreamDataKeyboardFields
<1>2. fs[1].num = 1 /\ fs[1].name = "keysym" /\ fs[1].kind = "varint" /\ fs[1].label = "implicit"
  BY DEF StreamDataKeyboardFields, Field
<1>3. fs[2].num = 2 /\ fs[2].name = "keycode" /\ fs[2].kind = "varint" /\ fs[2].label = "implicit"
  BY DEF StreamDataKeyboardFields, Field
<1>4. fs[3].num = 3 /\ fs[3].name = "down" /\ fs[3].kind = "varint" /\ fs[3].label = "implicit"
  BY DEF StreamDataKeyboardFields, Field
<1> HIDE DEF fs
<1>5. \A i \in 1 .. 3 : i = 1 \/ i = 2 \/ i = 3
  OBVIOUS
<1>6. \A i \in 1 .. 3 : IsField(fs[i], i)
  BY <1>2, <1>3, <1>4, <1>5 DEF IsField, Types
<1>7. \A i, j \in 1 .. 3 : fs[i].name = fs[j].name => i = j
  BY <1>2, <1>3, <1>4, <1>5
<1> QED
  BY <1>1, <1>6, <1>7 DEF IsTable, fs

LEMMA StreamDataCursorTable == IsTable(StreamDataCursorFields)
<1> DEFINE fs == StreamDataCursorFields
<1>1. Len(fs) = 5 /\ DOMAIN fs = 1 .. 5
  BY DEF StreamDataCursorFields
<1>2. fs[1].num = 1 /\ fs[1].name = "width" /\ fs[1].kind = "varint" /\ fs[1].label = "implicit"
  BY DEF StreamDataCursorFields, Field
<1>3. fs[2].num = 2 /\ fs[2].name = "height" /\ fs[2].kind = "varint" /\ fs[2].label = "implicit"
  BY DEF StreamDataCursorFields, Field
<1>4. fs[3].num = 3 /\ fs[3].name = "hotx" /\ fs[3].kind = "varint" /\ fs[3].label = "implicit"
  BY DEF StreamDataCursorFields, Field
<1>5. fs[4].num = 4 /\ fs[4].name = "hoty" /\ fs[4].kind = "varint" /\ fs[4].label = "implicit"
  BY DEF StreamDataCursorFields, Field
<1>6. fs[5].num = 5 /\ fs[5].name = "image" /\ fs[5].kind = "bytes" /\ fs[5].label = "implicit"
  BY DEF StreamDataCursorFields, Field
<1> HIDE DEF fs
<1>7. \A i \in 1 .. 5 : i = 1 \/ i = 2 \/ i = 3 \/ i = 4 \/ i = 5
  OBVIOUS
<1>8. \A i \in 1 .. 5 : IsField(fs[i], i)
  BY <1>2, <1>3, <1>4, <1>5, <1>6, <1>7 DEF IsField, Types
<1>9. \A i, j \in 1 .. 5 : fs[i].name = fs[j].name => i = j
  BY <1>2, <1>3, <1>4, <1>5, <1>6, <1>7
<1> QED
  BY <1>1, <1>8, <1>9 DEF IsTable, fs

(* All of them.                                                            *)
LEMMA Tables ==
  ASSUME NEW type \in Types
  PROVE  IsTable(Fields[type])
<1>1. CASE type = "ValueString"
  BY <1>1, ValueStringTable DEF Fields
<1>2. CASE type = "ValueBool"
  BY <1>2, ValueBoolTable DEF Fields
<1>3. CASE type = "ValueUint32"
  BY <1>3, ValueUint32Table DEF Fields
<1>4. CASE type = "ValueDouble"
  BY <1>4, ValueDoubleTable DEF Fields
<1>5. CASE type = "Property"
  BY <1>5, PropertyTable DEF Fields
<1>6. CASE type = "Component"
  BY <1>6, ComponentTable DEF Fields
<1>7. CASE type = "Capabilities"
  BY <1>7, CapabilitiesTable DEF Fields
<1>8. CASE type = "Setup"
  BY <1>8, SetupTable DEF Fields
<1>9. CASE type = "Data"
  BY <1>9, DataTable DEF Fields
<1>10. CASE type = "Message"
  BY <1>10, MessageTable DEF Fields
<1>11. CASE type = "StreamDataRaw"
  BY <1>11, StreamDataRawTable DEF Fields
<1>12. CASE type = "StreamDataPointer"
  BY <1>12, StreamDataPointerTable DEF Fields
<1>13. CASE type = "StreamDataKeyboard"
  BY <1>13, StreamDataKeyboardTable DEF Fields
<1>14. CASE type = "StreamDataCursor"
  BY <1>14, StreamDataCursorTable DEF Fields
<1> QED
  BY <1>1, <1>2, <1>3, <1>4, <1>5, <1>6, <1>7, <1>8, <1>9, <1>10, <1>11, <1>12, <1>13, <1>14 DEF Types

-----------------------------------------------------------------------------
(* Measuring: ByteSizeLong() and _InternalSerialize() agree.               *)

(* The first k parts joined. *)
IsJoining(parts, first) ==
  /\ first[0] = Nothing
  /\ \A k \in Nat : first[k + 1] = Before(first[k], parts[k + 1])

(* Joined is the last of the values of a recursive function.               *)
LEMMA JoinedIs ==
  ASSUME NEW parts
  PROVE  \E first : IsJoining(parts, first) /\ Joined(parts) = first[Len(parts)]
<1> DEFINE c == [what |-> "parts", parts |-> parts]
           F(h) == [k \in Nat |-> IF k = 0 THEN Nothing ELSE Before(h[k - 1], parts[k])]
           first == CHOOSE h : h = F(h)
<1>1. PICK g : Endless(c, Nothing, g)
  BY ChainExists
<1>2. g = [k \in Nat |-> IF k = 0 THEN Nothing ELSE Following(c, k - 1, g[k - 1])]
  BY <1>1, ChainEquation
<1>3. ASSUME NEW k \in Nat, k # 0
      PROVE  Following(c, k - 1, g[k - 1]) = Before(g[k - 1], parts[k])
  <2>1. c.what = "parts" /\ c.parts = parts
    OBVIOUS
  <2> HIDE DEF c
  <2>2. Following(c, k - 1, g[k - 1]) = Before(g[k - 1], parts[(k - 1) + 1])
    BY <2>1, Zenon DEF Following
  <2>3. (k - 1) + 1 = k
    OBVIOUS
  <2> QED
    BY <2>2, <2>3
<1>4. g = F(g)
  BY <1>2, <1>3
<1>5. Joined(parts) = first[Len(parts)]
  BY Zenon DEF Joined
<1>6. first = F(first)
  <2> HIDE DEF F
  <2> QED
    BY <1>4, Zenon
<1> HIDE DEF first
<1>7. first[0] = Nothing
  BY <1>6
<1>8. ASSUME NEW k \in Nat PROVE first[k + 1] = Before(first[k], parts[k + 1])
  <2>1. k + 1 \in Nat /\ k + 1 # 0 /\ (k + 1) - 1 = k
    OBVIOUS
  <2>2. first[k + 1] = IF k + 1 = 0 THEN Nothing ELSE Before(first[(k + 1) - 1], parts[k + 1])
    BY <1>6, <2>1
  <2> QED
    BY <2>1, <2>2
<1> QED
  BY <1>5, <1>7, <1>8 DEF IsJoining

(* Bytes as many as were counted, if the count fits. *)
IsMeasured(p) ==
  /\ p.size \in Nat
  /\ p.bytes \in Seq(Byte)
  /\ Fits(p.size) => p.size = Len(p.bytes)

(* What is not above a number of 32 bits is one.                           *)
LEMMA FitsBelow ==
  ASSUME NEW a \in Nat, NEW b \in Nat, Fits(b), a <= b
  PROVE  Fits(a)
BY DEF Fits

(* Nothing is measured right, and one part before another is.              *)
LEMMA NothingMeasured == IsMeasured(Nothing) /\ Nothing.size = 0 /\ Nothing.bytes = << >>
<1>1. Nothing.size = 0 /\ Nothing.bytes = << >>
  BY DEF Nothing
<1>2. << >> \in Seq(Byte) /\ Len(<< >>) = 0
  BY EmptySeq
<1> QED
  BY <1>1, <1>2 DEF IsMeasured

(* The components of Before.                                               *)
LEMMA BeforeIs ==
  ASSUME NEW p, NEW q
  PROVE  Before(p, q).size = p.size + q.size /\ Before(p, q).bytes = p.bytes \o q.bytes
BY DEF Before

(* One part before another is measured right if both are.                  *)
LEMMA BeforeMeasured ==
  ASSUME NEW p, NEW q, IsMeasured(p), IsMeasured(q)
  PROVE  /\ IsMeasured(Before(p, q))
         /\ p.size <= Before(p, q).size
         /\ q.size <= Before(p, q).size
<1>1. p.size \in Nat /\ q.size \in Nat /\ p.bytes \in Seq(Byte) /\ q.bytes \in Seq(Byte)
  BY DEF IsMeasured
<1> DEFINE r == Before(p, q)
<1>2. r.size = p.size + q.size /\ r.bytes = p.bytes \o q.bytes
  BY BeforeIs
<1> HIDE DEF r
<1>3. r.size \in Nat /\ p.size <= r.size /\ q.size <= r.size
  BY <1>1, <1>2
<1>4. r.bytes \in Seq(Byte) /\ Len(r.bytes) = Len(p.bytes) + Len(q.bytes)
  BY <1>1, <1>2, ConcatProperties
<1>5. ASSUME Fits(r.size) PROVE r.size = Len(r.bytes)
  <2>1. Fits(p.size) /\ Fits(q.size)
    BY <1>1, <1>3, <1>5, FitsBelow
  <2>2. p.size = Len(p.bytes) /\ q.size = Len(q.bytes)
    BY <2>1 DEF IsMeasured
  <2> QED
    BY <1>2, <1>4, <2>2
<1>6. IsMeasured(r)
  BY <1>3, <1>4, <1>5 DEF IsMeasured
<1> QED
  BY <1>3, <1>6 DEF r

(* Parts that are measured right are, joined; none is larger than all.     *)
LEMMA JoiningMeasured ==
  ASSUME NEW parts, NEW n \in Nat, \A i \in 1 .. n : IsMeasured(parts[i]),
         NEW first, IsJoining(parts, first)
  PROVE  \A k \in 0 .. n : /\ IsMeasured(first[k])
                           /\ \A i \in 1 .. k : parts[i].size <= first[k].size
<1> DEFINE P(k) == /\ IsMeasured(first[k])
                   /\ \A i \in 1 .. k : parts[i].size <= first[k].size
           U == {k \in Nat : k <= n => P(k)}
<1>1. 0 \in U
  <2>1. first[0] = Nothing
    BY DEF IsJoining
  <2> QED
    BY <2>1, NothingMeasured
<1>2. ASSUME NEW k \in Nat, k \in U PROVE k + 1 \in U
  <2> SUFFICES ASSUME k + 1 <= n PROVE P(k + 1)
    OBVIOUS
  <2>1. IsMeasured(first[k]) /\ \A i \in 1 .. k : parts[i].size <= first[k].size
    BY <1>2
  <2>2. k + 1 \in 1 .. n /\ IsMeasured(parts[k + 1])
    OBVIOUS
  <2>3. first[k + 1] = Before(first[k], parts[k + 1])
    BY DEF IsJoining
  <2>4. /\ IsMeasured(first[k + 1])
        /\ first[k].size <= first[k + 1].size
        /\ parts[k + 1].size <= first[k + 1].size
    BY <2>1, <2>2, <2>3, BeforeMeasured
  <2>5. ASSUME NEW i \in 1 .. k + 1 PROVE parts[i].size <= first[k + 1].size
    <3>1. CASE i = k + 1
      BY <2>4, <3>1
    <3>2. CASE i # k + 1
      <4>1. i \in 1 .. k /\ i \in 1 .. n
        BY <3>2
      <4>2. parts[i].size <= first[k].size
        BY <2>1, <4>1
      <4>3. parts[i].size \in Nat /\ first[k].size \in Nat /\ first[k + 1].size \in Nat
        BY <2>1, <2>4, <4>1 DEF IsMeasured
      <4> QED
        BY <2>4, <4>2, <4>3
    <3> QED
      BY <3>1, <3>2
  <2> QED
    BY <2>4, <2>5
<1> HIDE DEF P
<1>3. Nat \subseteq U
  <2> HIDE DEF U
  <2> QED
    BY <1>1, <1>2, Induction
<1>4. \A k \in 0 .. n : P(k)
  BY <1>3
<1> QED
  BY <1>4 DEF P

LEMMA JoinedMeasured ==
  ASSUME NEW parts, Len(parts) \in Nat, \A i \in 1 .. Len(parts) : IsMeasured(parts[i])
  PROVE  /\ IsMeasured(Joined(parts))
         /\ \A i \in 1 .. Len(parts) : parts[i].size <= Joined(parts).size
<1>1. PICK first : IsJoining(parts, first) /\ Joined(parts) = first[Len(parts)]
  BY JoinedIs
<1>2. \A k \in 0 .. Len(parts) : /\ IsMeasured(first[k])
                                 /\ \A i \in 1 .. k : parts[i].size <= first[k].size
  BY <1>1, JoiningMeasured
<1>3. Len(parts) \in 0 .. Len(parts)
  OBVIOUS
<1> QED
  BY <1>1, <1>2, <1>3

-----------------------------------------------------------------------------
(* Types by depth, as their sub-messages nest.                             *)

(* What is written, made and merged at a depth, as ParseAt.                *)
WriteAt(depth, type, m) ==
  IF depth = 1 THEN WriteValue(type, m)
  ELSE IF depth = 2 THEN WriteProperty(type, m)
  ELSE IF depth = 3 THEN WriteComponent(type, m)
  ELSE IF depth = 4 THEN WriteBody(type, m)
  ELSE IF depth = 5 THEN WriteFields(type, m, WriteBody)
  ELSE Nothing

(* The messages the accessors can make, at a depth.                        *)
MadeAt(depth, type, m) ==
  IF depth = 1 THEN IsValue(type, m)
  ELSE IF depth = 2 THEN IsProperty(type, m)
  ELSE IF depth = 3 THEN IsComponent(type, m)
  ELSE IF depth = 4 THEN IsBody(type, m)
  ELSE IF depth = 5 THEN IsMade(type, m, IsBody)
  ELSE FALSE

(* MergeImpl(), at a depth.                                                *)
MergeAt(depth, type, old, v) ==
  IF depth = 1 THEN MergeValue(type, old, v)
  ELSE IF depth = 2 THEN MergeProperty(type, old, v)
  ELSE IF depth = 3 THEN MergeComponent(type, old, v)
  ELSE IF depth = 4 THEN MergeBody(type, old, v)
  ELSE IF depth = 5 THEN MergeFields(type, old, v, MergeBody)
  ELSE old

(* The pieces that Serialize joins.                                        *)
Inner(depth, f, v) ==
  IF IsMessage(f.kind) THEN WriteAt(depth - 1, f.kind, v) ELSE [size |-> Len(v), bytes |-> v]

FieldParts(depth, m, f) ==
  [j \in DOMAIN Values(m, f) |-> Written(f, Values(m, f)[j], Inner(depth, f, Values(m, f)[j]))]

Parts(depth, type, m) ==
  [i \in DOMAIN Fields[type] |-> Joined(FieldParts(depth, m, Fields[type][i]))]

(* A message is written field by field, its sub-messages one level below.  *)
LEMMA WriteUnfold ==
  ASSUME NEW depth \in 1 .. 5, NEW type, NEW m
  PROVE  WriteAt(depth, type, m) = Joined(Parts(depth, type, m))
<1>1. CASE depth = 1
  <2>1. depth - 1 = 0
    BY <1>1
  <2>2. \A kind, v : WriteAt(0, kind, v) = Nothing
    BY DEF WriteAt
  <2>3. WriteAt(1, type, m) = WriteValue(type, m)
    BY DEF WriteAt
  <2> QED
    BY <1>1, <2>1, <2>2, <2>3, Zenon DEF WriteValue, WriteFields, Parts, FieldParts, Inner
<1>2. CASE depth = 2
  <2>1. depth - 1 = 1
    BY <1>2
  <2>2. \A kind, v : WriteAt(1, kind, v) = WriteValue(kind, v)
    BY DEF WriteAt
  <2>3. WriteAt(2, type, m) = WriteProperty(type, m)
    BY DEF WriteAt
  <2> QED
    BY <1>2, <2>1, <2>2, <2>3, Zenon DEF WriteProperty, WriteFields, Parts, FieldParts, Inner
<1>3. CASE depth = 3
  <2>1. depth - 1 = 2
    BY <1>3
  <2>2. \A kind, v : WriteAt(2, kind, v) = WriteProperty(kind, v)
    BY DEF WriteAt
  <2>3. WriteAt(3, type, m) = WriteComponent(type, m)
    BY DEF WriteAt
  <2> QED
    BY <1>3, <2>1, <2>2, <2>3, Zenon DEF WriteComponent, WriteFields, Parts, FieldParts, Inner
<1>4. CASE depth = 4
  <2>1. depth - 1 = 3
    BY <1>4
  <2>2. \A kind, v : WriteAt(3, kind, v) = WriteComponent(kind, v)
    BY DEF WriteAt
  <2>3. WriteAt(4, type, m) = WriteBody(type, m)
    BY DEF WriteAt
  <2> QED
    BY <1>4, <2>1, <2>2, <2>3, Zenon DEF WriteBody, WriteFields, Parts, FieldParts, Inner
<1>5. CASE depth = 5
  <2>1. depth - 1 = 4
    BY <1>5
  <2>2. \A kind, v : WriteAt(4, kind, v) = WriteBody(kind, v)
    BY DEF WriteAt
  <2>3. WriteAt(5, type, m) = WriteFields(type, m, WriteBody)
    BY DEF WriteAt
  <2> QED
    BY <1>5, <2>1, <2>2, <2>3, Zenon DEF WriteFields, Parts, FieldParts, Inner
<1> QED
  BY <1>1, <1>2, <1>3, <1>4, <1>5

(* MadeValue, MadeField and IsMade with the level below for Nested.        *)
ValueMade(depth, f, v) ==
  \/ f.kind = "varint" /\ Fits(v)
  \/ f.kind = "fixed64" /\ IsBytes(v) /\ Len(v) = 8
  \/ f.kind = "bytes" /\ IsBytes(v)
  \/ IsMessage(f.kind) /\ MadeAt(depth - 1, f.kind, v)

FieldMade(depth, f, v) ==
  \/ /\ f.label = "repeated"
     /\ v \in Seq(ToSet(v)) /\ v # << >> /\ \A j \in DOMAIN v : ValueMade(depth, f, v[j])
  \/ /\ f.label # "repeated"
     /\ ValueMade(depth, f, v) /\ (f.label = "implicit" => v # Default(f.kind))

Made(depth, type, m) ==
  /\ m = [n \in DOMAIN m |-> m[n]]
  /\ DOMAIN m \subseteq {f.name : f \in ToSet(Fields[type])}
  /\ \A f \in ToSet(Fields[type]) : f.name \in DOMAIN m => FieldMade(depth, f, m[f.name])
  /\ \A n, o \in Cases(type) \cap DOMAIN m : n = o

(* The case of the oneof, merged one level below.                          *)
CasesMerged(depth, type, kept, v) ==
  [n \in Cases(type) \cap DOMAIN v |->
     MergeAt(depth - 1, Named(type, n).kind, Get(kept, n, << >>), v[n])]

(* A message is made of messages of the level below.                       *)
LEMMA MadeUnfold ==
  ASSUME NEW depth \in 1 .. 5, NEW type, NEW m
  PROVE  MadeAt(depth, type, m) <=> Made(depth, type, m)
<1>1. CASE depth = 1
  <2> DEFINE value(f, v) == MadeValue(f, v, LAMBDA kind, w : FALSE)
             field(f, v) == MadeField(f, v, LAMBDA kind, w : FALSE)
  <2>1. depth - 1 = 0
    BY <1>1
  <2>2. \A kind, v : MadeAt(0, kind, v) <=> FALSE
    BY DEF MadeAt
  <2>3. MadeAt(1, type, m) <=> IsValue(type, m)
    BY DEF MadeAt
  <2>4. IsValue(type, m) <=>
          /\ m = [n \in DOMAIN m |-> m[n]]
          /\ DOMAIN m \subseteq {f.name : f \in ToSet(Fields[type])}
          /\ \A f \in ToSet(Fields[type]) : f.name \in DOMAIN m => field(f, m[f.name])
          /\ \A n, o \in Cases(type) \cap DOMAIN m : n = o
    BY Zenon DEF IsValue, IsMade, MadeField, MadeValue
  <2>5. ASSUME NEW f, NEW v PROVE value(f, v) <=> ValueMade(depth, f, v)
    BY <2>1, <2>2, Zenon DEF ValueMade, MadeValue
  <2>6. ASSUME NEW f, NEW v PROVE field(f, v) <=> FieldMade(depth, f, v)
    BY <2>5, Zenon DEF FieldMade, MadeField
  <2> HIDE DEF field
  <2> QED
    BY <1>1, <2>3, <2>4, <2>6, Zenon DEF Made
<1>2. CASE depth = 2
  <2> DEFINE value(f, v) == MadeValue(f, v, IsValue)
             field(f, v) == MadeField(f, v, IsValue)
  <2>1. depth - 1 = 1
    BY <1>2
  <2>2. \A kind, v : MadeAt(1, kind, v) <=> IsValue(kind, v)
    BY DEF MadeAt
  <2>3. MadeAt(2, type, m) <=> IsProperty(type, m)
    BY DEF MadeAt
  <2>4. IsProperty(type, m) <=>
          /\ m = [n \in DOMAIN m |-> m[n]]
          /\ DOMAIN m \subseteq {f.name : f \in ToSet(Fields[type])}
          /\ \A f \in ToSet(Fields[type]) : f.name \in DOMAIN m => field(f, m[f.name])
          /\ \A n, o \in Cases(type) \cap DOMAIN m : n = o
    BY Zenon DEF IsProperty, IsMade, MadeField, MadeValue
  <2>5. ASSUME NEW f, NEW v PROVE value(f, v) <=> ValueMade(depth, f, v)
    BY <2>1, <2>2, Zenon DEF ValueMade, MadeValue
  <2>6. ASSUME NEW f, NEW v PROVE field(f, v) <=> FieldMade(depth, f, v)
    BY <2>5, Zenon DEF FieldMade, MadeField
  <2> HIDE DEF field
  <2> QED
    BY <1>2, <2>3, <2>4, <2>6, Zenon DEF Made
<1>3. CASE depth = 3
  <2> DEFINE value(f, v) == MadeValue(f, v, IsProperty)
             field(f, v) == MadeField(f, v, IsProperty)
  <2>1. depth - 1 = 2
    BY <1>3
  <2>2. \A kind, v : MadeAt(2, kind, v) <=> IsProperty(kind, v)
    BY DEF MadeAt
  <2>3. MadeAt(3, type, m) <=> IsComponent(type, m)
    BY DEF MadeAt
  <2>4. IsComponent(type, m) <=>
          /\ m = [n \in DOMAIN m |-> m[n]]
          /\ DOMAIN m \subseteq {f.name : f \in ToSet(Fields[type])}
          /\ \A f \in ToSet(Fields[type]) : f.name \in DOMAIN m => field(f, m[f.name])
          /\ \A n, o \in Cases(type) \cap DOMAIN m : n = o
    BY Zenon DEF IsComponent, IsMade, MadeField, MadeValue
  <2>5. ASSUME NEW f, NEW v PROVE value(f, v) <=> ValueMade(depth, f, v)
    BY <2>1, <2>2, Zenon DEF ValueMade, MadeValue
  <2>6. ASSUME NEW f, NEW v PROVE field(f, v) <=> FieldMade(depth, f, v)
    BY <2>5, Zenon DEF FieldMade, MadeField
  <2> HIDE DEF field
  <2> QED
    BY <1>3, <2>3, <2>4, <2>6, Zenon DEF Made
<1>4. CASE depth = 4
  <2> DEFINE value(f, v) == MadeValue(f, v, IsComponent)
             field(f, v) == MadeField(f, v, IsComponent)
  <2>1. depth - 1 = 3
    BY <1>4
  <2>2. \A kind, v : MadeAt(3, kind, v) <=> IsComponent(kind, v)
    BY DEF MadeAt
  <2>3. MadeAt(4, type, m) <=> IsBody(type, m)
    BY DEF MadeAt
  <2>4. IsBody(type, m) <=>
          /\ m = [n \in DOMAIN m |-> m[n]]
          /\ DOMAIN m \subseteq {f.name : f \in ToSet(Fields[type])}
          /\ \A f \in ToSet(Fields[type]) : f.name \in DOMAIN m => field(f, m[f.name])
          /\ \A n, o \in Cases(type) \cap DOMAIN m : n = o
    BY Zenon DEF IsBody, IsMade, MadeField, MadeValue
  <2>5. ASSUME NEW f, NEW v PROVE value(f, v) <=> ValueMade(depth, f, v)
    BY <2>1, <2>2, Zenon DEF ValueMade, MadeValue
  <2>6. ASSUME NEW f, NEW v PROVE field(f, v) <=> FieldMade(depth, f, v)
    BY <2>5, Zenon DEF FieldMade, MadeField
  <2> HIDE DEF field
  <2> QED
    BY <1>4, <2>3, <2>4, <2>6, Zenon DEF Made
<1>5. CASE depth = 5
  <2> DEFINE value(f, v) == MadeValue(f, v, IsBody)
             field(f, v) == MadeField(f, v, IsBody)
  <2>1. depth - 1 = 4
    BY <1>5
  <2>2. \A kind, v : MadeAt(4, kind, v) <=> IsBody(kind, v)
    BY DEF MadeAt
  <2>3. MadeAt(5, type, m) <=> IsMade(type, m, IsBody)
    BY DEF MadeAt
  <2>4. IsMade(type, m, IsBody) <=>
          /\ m = [n \in DOMAIN m |-> m[n]]
          /\ DOMAIN m \subseteq {f.name : f \in ToSet(Fields[type])}
          /\ \A f \in ToSet(Fields[type]) : f.name \in DOMAIN m => field(f, m[f.name])
          /\ \A n, o \in Cases(type) \cap DOMAIN m : n = o
    BY Zenon DEF IsMade, MadeField, MadeValue
  <2>5. ASSUME NEW f, NEW v PROVE value(f, v) <=> ValueMade(depth, f, v)
    BY <2>1, <2>2, Zenon DEF ValueMade, MadeValue
  <2>6. ASSUME NEW f, NEW v PROVE field(f, v) <=> FieldMade(depth, f, v)
    BY <2>5, Zenon DEF FieldMade, MadeField
  <2> HIDE DEF field
  <2> QED
    BY <1>5, <2>3, <2>4, <2>6, Zenon DEF Made
<1> QED
  BY <1>1, <1>2, <1>3, <1>4, <1>5

(* A message is merged with its sub-messages merged one level below.       *)
LEMMA MergeUnfold ==
  ASSUME NEW depth \in 1 .. 5, NEW type, NEW to, NEW m
  PROVE  MergeAt(depth, type, to, m)
         = MergeInto(type, Kept(type, to, m), m, CasesMerged(depth, type, Kept(type, to, m), m))
<1>1. CASE depth = 1
  <2> DEFINE kept == Kept(type, to, m)
  <2>1. depth - 1 = 0
    BY <1>1
  <2>2. \A kind, old, v : MergeAt(0, kind, old, v) = old
    BY DEF MergeAt
  <2>3. MergeAt(1, type, to, m) = MergeValue(type, to, m)
    BY DEF MergeAt
  <2>4. CasesMerged(depth, type, kept, m)
          = [n \in Cases(type) \cap DOMAIN m |-> Get(kept, n, << >>)]
    BY <2>1, <2>2 DEF CasesMerged
  <2> QED
    BY <1>1, <2>3, <2>4, Zenon DEF MergeValue, MergeFields
<1>2. CASE depth = 2
  <2>1. depth - 1 = 1
    BY <1>2
  <2>2. \A kind, old, v : MergeAt(1, kind, old, v) = MergeValue(kind, old, v)
    BY DEF MergeAt
  <2>3. MergeAt(2, type, to, m) = MergeProperty(type, to, m)
    BY DEF MergeAt
  <2> QED
    BY <1>2, <2>1, <2>2, <2>3, Zenon DEF MergeProperty, MergeFields, CasesMerged
<1>3. CASE depth = 3
  <2>1. depth - 1 = 2
    BY <1>3
  <2>2. \A kind, old, v : MergeAt(2, kind, old, v) = MergeProperty(kind, old, v)
    BY DEF MergeAt
  <2>3. MergeAt(3, type, to, m) = MergeComponent(type, to, m)
    BY DEF MergeAt
  <2> QED
    BY <1>3, <2>1, <2>2, <2>3, Zenon DEF MergeComponent, MergeFields, CasesMerged
<1>4. CASE depth = 4
  <2>1. depth - 1 = 3
    BY <1>4
  <2>2. \A kind, old, v : MergeAt(3, kind, old, v) = MergeComponent(kind, old, v)
    BY DEF MergeAt
  <2>3. MergeAt(4, type, to, m) = MergeBody(type, to, m)
    BY DEF MergeAt
  <2> QED
    BY <1>4, <2>1, <2>2, <2>3, Zenon DEF MergeBody, MergeFields, CasesMerged
<1>5. CASE depth = 5
  <2>1. depth - 1 = 4
    BY <1>5
  <2>2. \A kind, old, v : MergeAt(4, kind, old, v) = MergeBody(kind, old, v)
    BY DEF MergeAt
  <2>3. MergeAt(5, type, to, m) = MergeFields(type, to, m, MergeBody)
    BY DEF MergeAt
  <2> QED
    BY <1>5, <2>1, <2>2, <2>3, Zenon DEF MergeFields, CasesMerged
<1> QED
  BY <1>1, <1>2, <1>3, <1>4, <1>5

-----------------------------------------------------------------------------
(* The parser as a sequence of states.                                     *)

(* The parser of a type as a recursive function, and its states.           *)
Parser(depth, type) == [what |-> "parse", depth |-> depth, type |-> type]

Between(rest, m) == [ok |-> TRUE, rest |-> rest, msg |-> m]

Outcome(s) == IF s.ok THEN [ok |-> TRUE, msg |-> s.msg] ELSE Failure

(* An iteration of the parser. *)
StepFrom(depth, type, s) ==
  IF s.ok /\ s.rest # << >> THEN TakeField(type, s, InnerParse(depth, type, s)) ELSE s

(* The next state is that after one more field.                            *)
LEMMA ParserStep ==
  ASSUME NEW depth, NEW type, NEW n, NEW s
  PROVE  Following(Parser(depth, type), n, s) = StepFrom(depth, type, s)
<1> DEFINE c == Parser(depth, type)
<1>1. c.what = "parse" /\ c.depth = depth /\ c.type = type
  BY DEF Parser
<1> HIDE DEF c
<1>2. Following(c, n, s) = StepFrom(depth, type, s)
  BY <1>1, Zenon DEF Following, StepFrom
<1> QED
  BY <1>2 DEF c

(* The states of the parser satisfy the equation of ParseFields, and are   *)
(* what satisfies it.                                                      *)
LEMMA ParserEquation ==
  ASSUME NEW depth, NEW type, NEW start, NEW g, Endless(Parser(depth, type), start, g)
  PROVE  g = [n \in Nat |-> IF n = 0 THEN start ELSE StepFrom(depth, type, g[n - 1])]
<1>1. g = [n \in Nat |-> IF n = 0 THEN start
                         ELSE Following(Parser(depth, type), n - 1, g[n - 1])]
  BY ChainEquation
<1> QED
  BY <1>1, ParserStep

LEMMA EquationParser ==
  ASSUME NEW depth, NEW type, NEW start, NEW g,
         g = [n \in Nat |-> IF n = 0 THEN start ELSE StepFrom(depth, type, g[n - 1])]
  PROVE  Endless(Parser(depth, type), start, g)
<1>1. g[0] = start
  OBVIOUS
<1>2. ASSUME NEW n \in Nat PROVE g[n + 1] = Following(Parser(depth, type), n, g[n])
  <2>1. n + 1 \in Nat /\ n + 1 # 0 /\ (n + 1) - 1 = n
    OBVIOUS
  <2>2. g[n + 1] = IF n + 1 = 0 THEN start ELSE StepFrom(depth, type, g[(n + 1) - 1])
    BY <2>1
  <2>3. g[n + 1] = StepFrom(depth, type, g[n])
    BY <2>1, <2>2
  <2> QED
    BY <2>3, ParserStep
<1>3. g = [n \in Nat |-> g[n]]
  OBVIOUS
<1> QED
  BY <1>1, <1>2, <1>3 DEF Endless

(* A parse returns the state after as many steps as there are bytes.       *)
LEMMA ParseUnfold ==
  ASSUME NEW depth \in 1 .. 5, NEW type, NEW b, NEW m
  PROVE  \E g : /\ Endless(Parser(depth, type), Between(b, m), g)
                /\ ParseAt(depth, type, b, m) = Outcome(g[Len(b)])
<1>1. PICK g : Endless(Parser(depth, type), Between(b, m), g)
  BY ChainExists
<1>2. g = [n \in Nat |-> IF n = 0 THEN Between(b, m) ELSE StepFrom(depth, type, g[n - 1])]
  BY <1>1, ParserEquation
<1>3. CASE depth = 1
  <2> DEFINE inner(s) ==
               LET read == ReadField(type, s.rest)
                   f == CHOOSE f \in read.fields : TRUE
               IN IF IsMessage(f.kind) THEN Failure
                  ELSE [ok |-> TRUE, msg |-> read.value]
             F(h) == [n \in Nat |->
                        IF n = 0 THEN [ok |-> TRUE, rest |-> b, msg |-> m]
                        ELSE LET s == h[n - 1] IN
                             IF s.ok /\ s.rest # << >> THEN TakeField(type, s, inner(s)) ELSE s]
             h == CHOOSE x : x = F(x)
  <2>1. depth - 1 = 0
    BY <1>3
  <2>2. \A kind, v, old : ParseAt(0, kind, v, old) = Failure
    BY DEF ParseAt
  <2>3. ParseAt(1, type, b, m) = ParseValue(type, b, m)
    BY DEF ParseAt
  <2>4. ParseValue(type, b, m)
          = IF h[Len(b)].ok THEN [ok |-> TRUE, msg |-> h[Len(b)].msg] ELSE Failure
    BY Zenon DEF ParseValue, ParseFields
  <2>5. ASSUME NEW s PROVE inner(s) = InnerParse(depth, type, s)
    BY <2>1, <2>2, Zenon DEF InnerParse
  <2> HIDE DEF inner
  <2>6. ASSUME NEW k
        PROVE  F(k) = [n \in Nat |-> IF n = 0 THEN Between(b, m)
                                     ELSE StepFrom(depth, type, k[n - 1])]
    BY <2>5, Zenon DEF StepFrom, Between
  <2> HIDE DEF F
  <2>7. g = F(g)
    BY <1>2, <2>6, Zenon
  <2>8. h = F(h)
    BY <2>7, Zenon
  <2> HIDE DEF h
  <2>9. Endless(Parser(depth, type), Between(b, m), h)
    <3>1. h = [n \in Nat |-> IF n = 0 THEN Between(b, m) ELSE StepFrom(depth, type, h[n - 1])]
      BY <2>6, <2>8, Zenon
    <3> QED
      BY <3>1, EquationParser
  <2> QED
    BY <1>3, <2>3, <2>4, <2>9, Zenon DEF Outcome
<1>4. CASE depth = 2
  <2> DEFINE inner(s) ==
               LET read == ReadField(type, s.rest)
                   f == CHOOSE f \in read.fields : TRUE
               IN IF IsMessage(f.kind) THEN ParseValue(f.kind, read.value, Old(s.msg, f))
                  ELSE [ok |-> TRUE, msg |-> read.value]
             F(h) == [n \in Nat |->
                        IF n = 0 THEN [ok |-> TRUE, rest |-> b, msg |-> m]
                        ELSE LET s == h[n - 1] IN
                             IF s.ok /\ s.rest # << >> THEN TakeField(type, s, inner(s)) ELSE s]
             h == CHOOSE x : x = F(x)
  <2>1. depth - 1 = 1
    BY <1>4
  <2>2. \A kind, v, old : ParseAt(1, kind, v, old) = ParseValue(kind, v, old)
    BY DEF ParseAt
  <2>3. ParseAt(2, type, b, m) = ParseProperty(type, b, m)
    BY DEF ParseAt
  <2>4. ParseProperty(type, b, m)
          = IF h[Len(b)].ok THEN [ok |-> TRUE, msg |-> h[Len(b)].msg] ELSE Failure
    BY Zenon DEF ParseProperty, ParseFields
  <2>5. ASSUME NEW s PROVE inner(s) = InnerParse(depth, type, s)
    BY <2>1, <2>2, Zenon DEF InnerParse
  <2> HIDE DEF inner
  <2>6. ASSUME NEW k
        PROVE  F(k) = [n \in Nat |-> IF n = 0 THEN Between(b, m)
                                     ELSE StepFrom(depth, type, k[n - 1])]
    BY <2>5, Zenon DEF StepFrom, Between
  <2> HIDE DEF F
  <2>7. g = F(g)
    BY <1>2, <2>6, Zenon
  <2>8. h = F(h)
    BY <2>7, Zenon
  <2> HIDE DEF h
  <2>9. Endless(Parser(depth, type), Between(b, m), h)
    <3>1. h = [n \in Nat |-> IF n = 0 THEN Between(b, m) ELSE StepFrom(depth, type, h[n - 1])]
      BY <2>6, <2>8, Zenon
    <3> QED
      BY <3>1, EquationParser
  <2> QED
    BY <1>4, <2>3, <2>4, <2>9, Zenon DEF Outcome
<1>5. CASE depth = 3
  <2> DEFINE inner(s) ==
               LET read == ReadField(type, s.rest)
                   f == CHOOSE f \in read.fields : TRUE
               IN IF IsMessage(f.kind) THEN ParseProperty(f.kind, read.value, Old(s.msg, f))
                  ELSE [ok |-> TRUE, msg |-> read.value]
             F(h) == [n \in Nat |->
                        IF n = 0 THEN [ok |-> TRUE, rest |-> b, msg |-> m]
                        ELSE LET s == h[n - 1] IN
                             IF s.ok /\ s.rest # << >> THEN TakeField(type, s, inner(s)) ELSE s]
             h == CHOOSE x : x = F(x)
  <2>1. depth - 1 = 2
    BY <1>5
  <2>2. \A kind, v, old : ParseAt(2, kind, v, old) = ParseProperty(kind, v, old)
    BY DEF ParseAt
  <2>3. ParseAt(3, type, b, m) = ParseComponent(type, b, m)
    BY DEF ParseAt
  <2>4. ParseComponent(type, b, m)
          = IF h[Len(b)].ok THEN [ok |-> TRUE, msg |-> h[Len(b)].msg] ELSE Failure
    BY Zenon DEF ParseComponent, ParseFields
  <2>5. ASSUME NEW s PROVE inner(s) = InnerParse(depth, type, s)
    BY <2>1, <2>2, Zenon DEF InnerParse
  <2> HIDE DEF inner
  <2>6. ASSUME NEW k
        PROVE  F(k) = [n \in Nat |-> IF n = 0 THEN Between(b, m)
                                     ELSE StepFrom(depth, type, k[n - 1])]
    BY <2>5, Zenon DEF StepFrom, Between
  <2> HIDE DEF F
  <2>7. g = F(g)
    BY <1>2, <2>6, Zenon
  <2>8. h = F(h)
    BY <2>7, Zenon
  <2> HIDE DEF h
  <2>9. Endless(Parser(depth, type), Between(b, m), h)
    <3>1. h = [n \in Nat |-> IF n = 0 THEN Between(b, m) ELSE StepFrom(depth, type, h[n - 1])]
      BY <2>6, <2>8, Zenon
    <3> QED
      BY <3>1, EquationParser
  <2> QED
    BY <1>5, <2>3, <2>4, <2>9, Zenon DEF Outcome
<1>6. CASE depth = 4
  <2> DEFINE inner(s) ==
               LET read == ReadField(type, s.rest)
                   f == CHOOSE f \in read.fields : TRUE
               IN IF IsMessage(f.kind) THEN ParseComponent(f.kind, read.value, Old(s.msg, f))
                  ELSE [ok |-> TRUE, msg |-> read.value]
             F(h) == [n \in Nat |->
                        IF n = 0 THEN [ok |-> TRUE, rest |-> b, msg |-> m]
                        ELSE LET s == h[n - 1] IN
                             IF s.ok /\ s.rest # << >> THEN TakeField(type, s, inner(s)) ELSE s]
             h == CHOOSE x : x = F(x)
  <2>1. depth - 1 = 3
    BY <1>6
  <2>2. \A kind, v, old : ParseAt(3, kind, v, old) = ParseComponent(kind, v, old)
    BY DEF ParseAt
  <2>3. ParseAt(4, type, b, m) = ParseBody(type, b, m)
    BY DEF ParseAt
  <2>4. ParseBody(type, b, m)
          = IF h[Len(b)].ok THEN [ok |-> TRUE, msg |-> h[Len(b)].msg] ELSE Failure
    BY Zenon DEF ParseBody, ParseFields
  <2>5. ASSUME NEW s PROVE inner(s) = InnerParse(depth, type, s)
    BY <2>1, <2>2, Zenon DEF InnerParse
  <2> HIDE DEF inner
  <2>6. ASSUME NEW k
        PROVE  F(k) = [n \in Nat |-> IF n = 0 THEN Between(b, m)
                                     ELSE StepFrom(depth, type, k[n - 1])]
    BY <2>5, Zenon DEF StepFrom, Between
  <2> HIDE DEF F
  <2>7. g = F(g)
    BY <1>2, <2>6, Zenon
  <2>8. h = F(h)
    BY <2>7, Zenon
  <2> HIDE DEF h
  <2>9. Endless(Parser(depth, type), Between(b, m), h)
    <3>1. h = [n \in Nat |-> IF n = 0 THEN Between(b, m) ELSE StepFrom(depth, type, h[n - 1])]
      BY <2>6, <2>8, Zenon
    <3> QED
      BY <3>1, EquationParser
  <2> QED
    BY <1>6, <2>3, <2>4, <2>9, Zenon DEF Outcome
<1>7. CASE depth = 5
  <2> DEFINE inner(s) ==
               LET read == ReadField(type, s.rest)
                   f == CHOOSE f \in read.fields : TRUE
               IN IF IsMessage(f.kind) THEN ParseBody(f.kind, read.value, Old(s.msg, f))
                  ELSE [ok |-> TRUE, msg |-> read.value]
             F(h) == [n \in Nat |->
                        IF n = 0 THEN [ok |-> TRUE, rest |-> b, msg |-> m]
                        ELSE LET s == h[n - 1] IN
                             IF s.ok /\ s.rest # << >> THEN TakeField(type, s, inner(s)) ELSE s]
             h == CHOOSE x : x = F(x)
  <2>1. depth - 1 = 4
    BY <1>7
  <2>2. \A kind, v, old : ParseAt(4, kind, v, old) = ParseBody(kind, v, old)
    BY DEF ParseAt
  <2>3. ParseAt(5, type, b, m) = ParseFields(type, b, m, ParseBody)
    BY DEF ParseAt
  <2>4. ParseFields(type, b, m, ParseBody)
          = IF h[Len(b)].ok THEN [ok |-> TRUE, msg |-> h[Len(b)].msg] ELSE Failure
    BY Zenon DEF ParseFields
  <2>5. ASSUME NEW s PROVE inner(s) = InnerParse(depth, type, s)
    BY <2>1, <2>2, Zenon DEF InnerParse
  <2> HIDE DEF inner
  <2>6. ASSUME NEW k
        PROVE  F(k) = [n \in Nat |-> IF n = 0 THEN Between(b, m)
                                     ELSE StepFrom(depth, type, k[n - 1])]
    BY <2>5, Zenon DEF StepFrom, Between
  <2> HIDE DEF F
  <2>7. g = F(g)
    BY <1>2, <2>6, Zenon
  <2>8. h = F(h)
    BY <2>7, Zenon
  <2> HIDE DEF h
  <2>9. Endless(Parser(depth, type), Between(b, m), h)
    <3>1. h = [n \in Nat |-> IF n = 0 THEN Between(b, m) ELSE StepFrom(depth, type, h[n - 1])]
      BY <2>6, <2>8, Zenon
    <3> QED
      BY <3>1, EquationParser
  <2> QED
    BY <1>7, <2>3, <2>4, <2>9, Zenon DEF Outcome
<1> QED
  BY <1>3, <1>4, <1>5, <1>6, <1>7

(* The parser gets from s to t, with a byte at least for an iteration. *)
Reaches(depth, type, s, t) ==
  /\ s.rest \in Seq(Byte) /\ t.rest \in Seq(Byte)
  /\ \E k \in Nat : /\ k + Len(t.rest) <= Len(s.rest)
                    /\ \A g : Endless(Parser(depth, type), s, g) => g[k] = t

(* No step, one step, and steps one after the other.                       *)
LEMMA ReachesSelf ==
  ASSUME NEW depth, NEW type, NEW s, s.rest \in Seq(Byte)
  PROVE  Reaches(depth, type, s, s)
<1>1. Len(s.rest) \in Nat
  BY LenProperties
<1>2. 0 + Len(s.rest) <= Len(s.rest)
  BY <1>1
<1>3. ASSUME NEW g, Endless(Parser(depth, type), s, g) PROVE g[0] = s
  BY <1>3 DEF Endless
<1> QED
  BY <1>2, <1>3 DEF Reaches

LEMMA ReachesStep ==
  ASSUME NEW depth, NEW type, NEW s, NEW t, t = StepFrom(depth, type, s),
         s.rest \in Seq(Byte), t.rest \in Seq(Byte), Len(t.rest) < Len(s.rest)
  PROVE  Reaches(depth, type, s, t)
<1>1. Len(s.rest) \in Nat /\ Len(t.rest) \in Nat
  BY LenProperties
<1>2. 1 + Len(t.rest) <= Len(s.rest)
  BY <1>1
<1>3. ASSUME NEW g, Endless(Parser(depth, type), s, g) PROVE g[1] = t
  <2>1. g[0] = s /\ g[0 + 1] = Following(Parser(depth, type), 0, g[0])
    BY <1>3 DEF Endless
  <2> QED
    BY <2>1, ParserStep
<1> QED
  BY <1>2, <1>3 DEF Reaches

LEMMA ReachesOn ==
  ASSUME NEW depth, NEW type, NEW s, NEW t, NEW u,
         Reaches(depth, type, s, t), Reaches(depth, type, t, u)
  PROVE  Reaches(depth, type, s, u)
<1> DEFINE c == Parser(depth, type)
<1>1. PICK k \in Nat : /\ k + Len(t.rest) <= Len(s.rest)
                       /\ \A g : Endless(c, s, g) => g[k] = t
  BY DEF Reaches
<1>2. PICK l \in Nat : /\ l + Len(u.rest) <= Len(t.rest)
                       /\ \A g : Endless(c, t, g) => g[l] = u
  BY DEF Reaches
<1>3. s.rest \in Seq(Byte) /\ t.rest \in Seq(Byte) /\ u.rest \in Seq(Byte)
  BY DEF Reaches
<1>4. Len(s.rest) \in Nat /\ Len(t.rest) \in Nat /\ Len(u.rest) \in Nat
  BY <1>3, LenProperties
<1>5. (k + l) + Len(u.rest) <= Len(s.rest)
  <2>1. k + Len(t.rest) <= Len(s.rest) /\ l + Len(u.rest) <= Len(t.rest)
    BY <1>1, <1>2
  <2>2. \A x, y, z \in Nat : k + y <= x /\ l + z <= y => (k + l) + z <= x
    OBVIOUS
  <2> QED
    BY <1>4, <2>1, <2>2
<1>6. ASSUME NEW g, Endless(c, s, g) PROVE g[k + l] = u
  <2> DEFINE h == [n \in Nat |-> g[k + n]]
  <2>1. h[0] = t
    BY <1>1, <1>6
  <2>2. ASSUME NEW n \in Nat PROVE h[n + 1] = Following(c, n, h[n])
    <3>1. k + n \in Nat /\ k + (n + 1) = (k + n) + 1
      OBVIOUS
    <3>2. g[(k + n) + 1] = Following(c, k + n, g[k + n])
      BY <3>1, <1>6 DEF Endless
    <3>3. Following(c, k + n, g[k + n]) = Following(c, n, g[k + n])
      BY ParserStep
    <3> HIDE DEF c
    <3> QED
      BY <3>1, <3>2, <3>3
  <2>3. h = [n \in Nat |-> h[n]]
    OBVIOUS
  <2> HIDE DEF h, c
  <2>4. Endless(c, t, h)
    BY <2>1, <2>2, <2>3 DEF Endless
  <2>5. h[l] = u
    BY <1>2, <2>4
  <2> QED
    BY <2>5 DEF h
<1>7. k + l \in Nat
  OBVIOUS
<1> QED
  BY <1>3, <1>5, <1>6, <1>7 DEF Reaches

(* A parser that can reach the end of the bytes reaches it.                *)
LEMMA ReachesEnd ==
  ASSUME NEW depth \in 1 .. 5, NEW type, NEW b, NEW m, NEW o,
         Reaches(depth, type, Between(b, m), Between(<< >>, o))
  PROVE  ParseAt(depth, type, b, m) = [ok |-> TRUE, msg |-> o]
<1> DEFINE t == Between(<< >>, o)
<1>1. t.ok = TRUE /\ t.rest = << >> /\ t.msg = o /\ Between(b, m).rest = b
  BY DEF Between
<1> HIDE DEF t
<1>2. b \in Seq(Byte) /\ Len(b) \in Nat
  <2>1. b \in Seq(Byte)
    BY <1>1 DEF Reaches
  <2> QED
    BY <2>1, LenProperties
<1>3. PICK g : /\ Endless(Parser(depth, type), Between(b, m), g)
               /\ ParseAt(depth, type, b, m) = Outcome(g[Len(b)])
  BY ParseUnfold
<1>4. PICK k \in Nat : k + Len(t.rest) <= Len(b) /\ g[k] = t
  BY <1>1, <1>3 DEF Reaches, t
<1>5. k <= Len(b)
  BY <1>1, <1>2, <1>4, EmptySeq
<1> DEFINE U == {n \in Nat : g[k + n] = t}
<1>6. 0 \in U
  BY <1>4
<1>7. ASSUME NEW n \in Nat, n \in U PROVE n + 1 \in U
  <2>1. k + n \in Nat /\ k + (n + 1) = (k + n) + 1
    OBVIOUS
  <2>2. g[(k + n) + 1] = Following(Parser(depth, type), k + n, g[k + n])
    BY <1>3, <2>1 DEF Endless
  <2>3. g[(k + n) + 1] = StepFrom(depth, type, t)
    BY <2>2, <1>7, ParserStep
  <2>4. StepFrom(depth, type, t) = t
    BY <1>1 DEF StepFrom
  <2> QED
    BY <2>1, <2>3, <2>4
<1>8. Len(b) - k \in Nat /\ k + (Len(b) - k) = Len(b)
  BY <1>2, <1>5
<1>9. g[Len(b)] = t
  <2> HIDE DEF U
  <2>1. Nat \subseteq U
    BY <1>6, <1>7, Induction
  <2>2. Len(b) - k \in U
    BY <1>8, <2>1
  <2> QED
    BY <2>2, <1>8 DEF U
<1> QED
  BY <1>1, <1>3, <1>9 DEF Outcome

-----------------------------------------------------------------------------
(* A field is written, measured and read back.                             *)

(* What was put first is read first.                                       *)
LEMMA ConcatRead ==
  ASSUME NEW x \in Seq(Byte), NEW r \in Seq(Byte)
  PROVE  ReadBytes(x \o r, Len(x)) = Success(x, r)
<1> DEFINE b == x \o r
<1>1. PICK n \in Nat : n = Len(x)
  BY LenProperties
<1>2. PICK l \in Nat : l = Len(r)
  BY LenProperties
<1>3. /\ b \in Seq(Byte)
      /\ Len(b) = n + l
      /\ \A i \in 1 .. n + l : b[i] = IF i <= n THEN x[i] ELSE r[i - n]
  <2>1. /\ b \in Seq(Byte)
        /\ Len(b) = Len(x) + Len(r)
        /\ \A i \in 1 .. Len(x) + Len(r) : b[i] = IF i <= Len(x) THEN x[i] ELSE r[i - Len(x)]
    BY ConcatProperties
  <2> QED
    BY <1>1, <1>2, <2>1
<1> HIDE DEF b
<1>4. \A i \in 1 .. n + l : b[i] \in Byte
  BY <1>3, ElementOfSeq
<1>5. SubSeq(b, 1, n) = x
  <2>1. \A i \in 1 .. n : b[i] \in Byte
    BY <1>4
  <2>2. /\ SubSeq(b, 1, n) \in Seq(Byte)
        /\ Len(SubSeq(b, 1, n)) = IF 1 <= n THEN n - 1 + 1 ELSE 0
        /\ \A i \in 1 .. n - 1 + 1 : SubSeq(b, 1, n)[i] = b[1 + i - 1]
    BY <2>1, SubSeqProperties
  <2>3. (IF 1 <= n THEN n - 1 + 1 ELSE 0) = n
    OBVIOUS
  <2>4. ASSUME NEW i \in 1 .. n PROVE SubSeq(b, 1, n)[i] = x[i]
    <3>1. i \in 1 .. n - 1 + 1 /\ 1 + i - 1 = i /\ i \in 1 .. n + l /\ i <= n
      OBVIOUS
    <3>2. SubSeq(b, 1, n)[i] = b[i]
      BY <2>2, <3>1
    <3>3. b[i] = x[i]
      BY <1>3, <3>1
    <3> QED
      BY <3>2, <3>3
  <2> QED
    BY <1>1, <2>2, <2>3, <2>4, SeqEqual
<1>6. DropFirst(b, n) = r
  <2>1. DropFirst(b, n) = SubSeq(b, n + 1, n + l)
    BY <1>3 DEF DropFirst
  <2>2. \A i \in n + 1 .. n + l : b[i] \in Byte
    BY <1>4
  <2>3. /\ SubSeq(b, n + 1, n + l) \in Seq(Byte)
        /\ Len(SubSeq(b, n + 1, n + l)) = IF n + 1 <= n + l THEN (n + l) - (n + 1) + 1 ELSE 0
        /\ \A i \in 1 .. (n + l) - (n + 1) + 1 : SubSeq(b, n + 1, n + l)[i] = b[(n + 1) + i - 1]
    BY <2>2, SubSeqProperties
  <2>4. (IF n + 1 <= n + l THEN (n + l) - (n + 1) + 1 ELSE 0) = l
    OBVIOUS
  <2>5. ASSUME NEW i \in 1 .. l PROVE SubSeq(b, n + 1, n + l)[i] = r[i]
    <3>1. /\ i \in 1 .. (n + l) - (n + 1) + 1 /\ (n + 1) + i - 1 = n + i
          /\ n + i \in 1 .. n + l /\ ~(n + i <= n) /\ (n + i) - n = i
      OBVIOUS
    <3>2. SubSeq(b, n + 1, n + l)[i] = b[n + i]
      BY <2>3, <3>1
    <3>3. b[n + i] = r[i]
      BY <1>3, <3>1
    <3> QED
      BY <3>2, <3>3
  <2>6. SubSeq(b, n + 1, n + l) = r
    BY <1>2, <2>3, <2>4, <2>5, SeqEqual
  <2> QED
    BY <2>1, <2>6
<1>7. ~(n > Len(b))
  BY <1>3
<1>8. ReadBytes(b, n) = Success(x, r)
  BY <1>5, <1>6, <1>7, Zenon DEF ReadBytes
<1> QED
  BY <1>1, <1>8 DEF b

(* The kind of a field is that of a value or of a sub-message.             *)
LEMMA FieldKinds ==
  ASSUME NEW f, NEW i, IsField(f, i)
  PROVE  \/ f.kind \in {"varint", "fixed64", "bytes"} /\ ~IsMessage(f.kind)
         \/ f.kind \in Types /\ IsMessage(f.kind)
<1>1. CASE f.kind \in {"varint", "fixed64", "bytes"}
  <2>1. f.kind \notin Types
    BY <1>1 DEF Types
  <2>2. ~IsMessage(f.kind)
    BY <2>1, FieldsDomain DEF IsMessage
  <2> QED
    BY <1>1, <2>2
<1>2. CASE f.kind \in Types
  <2>1. IsMessage(f.kind)
    BY <1>2, FieldsDomain DEF IsMessage
  <2> QED
    BY <1>2, <2>1
<1> QED
  BY <1>1, <1>2 DEF IsField

(* The wire types of the kinds.                                            *)
LEMMA WireTypes ==
  ASSUME NEW f
  PROVE  /\ f.kind = "varint" => WireType(f.kind) = 0
         /\ f.kind = "fixed64" => WireType(f.kind) = 1
         /\ f.kind # "varint" /\ f.kind # "fixed64" => WireType(f.kind) = 2
<1>1. "varint" # "fixed64"
  OBVIOUS
<1> QED
  BY <1>1, Zenon DEF WireType

(* The tag of a field of a table takes one byte and tells the field.       *)
LEMMA Tags ==
  ASSUME NEW f, NEW i \in 1 .. 6, IsField(f, i)
  PROVE  /\ Tag(f) \in 8 .. 127
         /\ Tag(f) % 8 = WireType(f.kind)
         /\ Tag(f) \div 8 = i
         /\ Varint[Tag(f)] = << Tag(f) >>
<1>1. WireType(f.kind) \in 0 .. 2
  BY WireTypes
<1>2. f.num = i
  BY DEF IsField
<1> DEFINE w == WireType(f.kind)
<1>3. Tag(f) = 8 * i + w
  BY <1>2 DEF Tag
<1>4. w \in 0 .. 2
  BY <1>1
<1> HIDE DEF w
<1>5. 8 * i + w \in 8 .. 127 /\ (8 * i + w) % 8 = w /\ (8 * i + w) \div 8 = i
  BY <1>4
<1>6. Tag(f) \in Nat /\ Tag(f) < 128
  <2>1. 8 * i + w \in Nat /\ 8 * i + w < 128
    BY <1>5
  <2> QED
    BY <1>3, <2>1
<1>7. Varint[Tag(f)] = << Tag(f) >>
  BY <1>6, VarintSmall
<1> QED
  BY <1>3, <1>5, <1>7 DEF w

(* What follows the tag. *)
Content(f, v, inner) ==
  IF f.kind = "varint" THEN Varint[v]
  ELSE IF f.kind = "fixed64" THEN v
  ELSE Varint[inner.size] \o inner.bytes

(* What is written of a value, without the tag: its size.                  *)
ContentSize(f, v, inner) ==
  IF f.kind = "varint" THEN VarintSize(v)
  ELSE IF f.kind = "fixed64" THEN 8
  ELSE VarintSize(inner.size) + inner.size

(* A field is its tag and its content.                                     *)
LEMMA WrittenIs ==
  ASSUME NEW f, NEW v, NEW inner
  PROVE  /\ Written(f, v, inner).size = 1 + ContentSize(f, v, inner)
         /\ Written(f, v, inner).bytes = Varint[Tag(f)] \o Content(f, v, inner)
<1>1. "varint" # "fixed64"
  OBVIOUS
<1> DEFINE size == CASE f.kind = "varint" -> VarintSize(v)
                     [] f.kind = "fixed64" -> 8
                     [] OTHER -> VarintSize(inner.size) + inner.size
           content == CASE f.kind = "varint" -> Varint[v]
                        [] f.kind = "fixed64" -> v
                        [] OTHER -> Varint[inner.size] \o inner.bytes
<1>2. size = ContentSize(f, v, inner)
  BY <1>1, Zenon DEF ContentSize
<1>3. content = Content(f, v, inner)
  BY <1>1, Zenon DEF Content
<1>4. Written(f, v, inner) = [size |-> 1 + size, bytes |-> Varint[Tag(f)] \o content]
  BY Zenon DEF Written
<1> HIDE DEF size, content
<1> QED
  BY <1>2, <1>3, <1>4

(* The length of a function on 1 .. n.                                     *)
LEMMA LenOf ==
  ASSUME NEW n \in Nat, NEW s, s = [i \in 1 .. n |-> s[i]]
  PROVE  Len(s) = n /\ DOMAIN s = 1 .. n
<1> DEFINE S == {s[i] : i \in 1 .. n}
<1>1. DOMAIN s = 1 .. n
  OBVIOUS
<1>2. s \in [1 .. n -> S]
  OBVIOUS
<1>3. s \in Seq(S)
  BY <1>2, SeqDef
<1> HIDE DEF S
<1>4. Len(s) \in Nat /\ DOMAIN s = 1 .. Len(s)
  BY <1>3, LenProperties
<1>5. ASSUME NEW l \in Nat, 1 .. l = 1 .. n PROVE l = n
  <2>1. l \in 1 .. l \/ l = 0
    OBVIOUS
  <2>2. n \in 1 .. n \/ n = 0
    OBVIOUS
  <2>3. l <= n
    BY <1>5, <2>1
  <2>4. n <= l
    BY <1>5, <2>2
  <2> QED
    BY <2>3, <2>4
<1> QED
  BY <1>1, <1>4, <1>5

(* A size of a varint.                                                     *)
LEMMA VarintSizeNat ==
  ASSUME NEW n \in Nat
  PROVE  VarintSize(n) \in 1 .. 5
BY DEF VarintSize

(* A number of 32 bits takes as many bytes as VarintSize says.             *)
LEMMA VarintMeasured ==
  ASSUME NEW n \in Nat, NEW p, p.size = VarintSize(n), p.bytes = Varint[n], Fits(n)
  PROVE  IsMeasured(p)
<1>1. p.size \in Nat
  BY VarintSizeNat
<1>2. p.bytes \in Seq(Byte)
  BY VarintRead
<1>3. p.size = Len(p.bytes)
  BY VarintLen
<1> QED
  BY <1>1, <1>2, <1>3 DEF IsMeasured

(* A field's value as it may be, with its sub-message or bytes measured. *)
IsContent(f, v, inner) ==
  \/ f.kind = "varint" /\ v \in Nat /\ Fits(v)
  \/ f.kind = "fixed64" /\ v \in Seq(Byte) /\ Len(v) = 8
  \/ f.kind \notin {"varint", "fixed64"} /\ IsMeasured(inner)

(* ByteSizeLong() and what is written of a value agree.                    *)
LEMMA ContentMeasured ==
  ASSUME NEW f, NEW v, NEW inner, IsContent(f, v, inner),
         NEW p, p.size = ContentSize(f, v, inner), p.bytes = Content(f, v, inner)
  PROVE  /\ IsMeasured(p)
         /\ f.kind \notin {"varint", "fixed64"} => inner.size \in Nat /\ inner.size <= p.size
<1>0. "varint" # "fixed64"
  OBVIOUS
<1>1. CASE f.kind = "varint"
  <2>1. v \in Nat /\ Fits(v)
    BY <1>1, <1>0 DEF IsContent
  <2>2. p.size = VarintSize(v) /\ p.bytes = Varint[v]
    BY <1>1 DEF ContentSize, Content
  <2>3. IsMeasured(p)
    BY <2>1, <2>2, VarintMeasured
  <2> QED
    BY <1>1, <2>3
<1>2. CASE f.kind = "fixed64"
  <2>1. v \in Seq(Byte) /\ Len(v) = 8
    BY <1>2, <1>0 DEF IsContent
  <2>2. p.size = 8 /\ p.bytes = v
    BY <1>2, <1>0 DEF ContentSize, Content
  <2>3. IsMeasured(p)
    BY <2>1, <2>2 DEF IsMeasured
  <2> QED
    BY <1>2, <2>3
<1>3. CASE f.kind \notin {"varint", "fixed64"}
  <2>1. IsMeasured(inner)
    BY <1>3 DEF IsContent
  <2>2. inner.size \in Nat
    BY <2>1 DEF IsMeasured
  <2> DEFINE n == inner.size
             len == [size |-> VarintSize(n), bytes |-> Varint[n]]
  <2>3. p.size = VarintSize(n) + n /\ p.bytes = Varint[n] \o inner.bytes
    BY <1>3 DEF ContentSize, Content
  <2>4. VarintSize(n) \in Nat /\ Varint[n] \in Seq(Byte) /\ inner.bytes \in Seq(Byte)
    <3>1. n \in Nat
      BY <2>2
    <3> HIDE DEF n
    <3>2. VarintSize(n) \in Nat
      BY <3>1, VarintSizeNat
    <3>3. Varint[n] \in Seq(Byte)
      BY <3>1, VarintRead
    <3> QED
      BY <2>1, <3>2, <3>3 DEF IsMeasured
  <2> HIDE DEF n
  <2>5. p.size \in Nat /\ n \in Nat /\ n <= p.size
    BY <2>2, <2>3, <2>4 DEF n
  <2>6. p.bytes \in Seq(Byte) /\ Len(p.bytes) = Len(Varint[n]) + Len(inner.bytes)
    BY <2>3, <2>4, ConcatProperties
  <2>7. ASSUME Fits(p.size) PROVE p.size = Len(p.bytes)
    <3>1. Fits(n)
      BY <2>5, <2>7, FitsBelow
    <3>2. Len(Varint[n]) = VarintSize(n)
      BY <2>5, <3>1, VarintLen
    <3>3. n = Len(inner.bytes)
      BY <2>1, <3>1 DEF IsMeasured, n
    <3> QED
      BY <2>3, <2>6, <3>2, <3>3
  <2>8. IsMeasured(p)
    BY <2>5, <2>6, <2>7 DEF IsMeasured
  <2> QED
    BY <2>5, <2>8 DEF n
<1> QED
  BY <1>1, <1>2, <1>3

(* They agree with the tag; a field takes at least a byte.                 *)
LEMMA WrittenMeasured ==
  ASSUME NEW f, NEW i \in 1 .. 6, IsField(f, i), NEW v, NEW inner, IsContent(f, v, inner)
  PROVE  /\ IsMeasured(Written(f, v, inner))
         /\ Written(f, v, inner).size >= 1
         /\ f.kind \notin {"varint", "fixed64"} =>
              inner.size \in Nat /\ inner.size <= Written(f, v, inner).size
<1> DEFINE q == [size |-> 1, bytes |-> Varint[Tag(f)]]
           p == [size |-> ContentSize(f, v, inner), bytes |-> Content(f, v, inner)]
           w == Written(f, v, inner)
<1>1. q.size = 1 /\ q.bytes = Varint[Tag(f)]
  OBVIOUS
<1>2. p.size = ContentSize(f, v, inner) /\ p.bytes = Content(f, v, inner)
  OBVIOUS
<1>3. w.size = q.size + p.size /\ w.bytes = q.bytes \o p.bytes
  BY <1>1, <1>2, WrittenIs
<1> HIDE DEF p, q, w
<1>4. IsMeasured(q)
  <2>1. Tag(f) \in 8 .. 127
    BY Tags
  <2>2. Tag(f) \in Nat /\ Fits(Tag(f)) /\ VarintSize(Tag(f)) = 1
    BY <2>1 DEF Fits, VarintSize
  <2> QED
    BY <1>1, <2>2, VarintMeasured
<1>5. /\ IsMeasured(p)
      /\ f.kind \notin {"varint", "fixed64"} => inner.size \in Nat /\ inner.size <= p.size
  BY <1>2, ContentMeasured
<1> DEFINE r == Before(q, p)
<1>6. /\ IsMeasured(r)
      /\ q.size <= r.size
      /\ p.size <= r.size
  BY <1>4, <1>5, BeforeMeasured
<1>7. r.size = w.size /\ r.bytes = w.bytes
  BY <1>3, BeforeIs
<1> HIDE DEF r
<1>8. IsMeasured(w)
  BY <1>6, <1>7 DEF IsMeasured
<1>9. w.size \in Nat /\ p.size \in Nat
  BY <1>5, <1>8 DEF IsMeasured
<1>10. w.size >= 1
  BY <1>1, <1>6, <1>7, <1>9
<1>11. f.kind \notin {"varint", "fixed64"} => inner.size \in Nat /\ inner.size <= w.size
  BY <1>5, <1>6, <1>7, <1>9
<1> QED
  BY <1>8, <1>10, <1>11 DEF w

(* The tables, for any type.                                               *)
LEMMA Table ==
  ASSUME NEW type \in Types
  PROVE  /\ Len(Fields[type]) \in 1 .. 6
         /\ DOMAIN Fields[type] = 1 .. Len(Fields[type])
         /\ ToSet(Fields[type]) = {Fields[type][i] : i \in 1 .. Len(Fields[type])}
         /\ \A i \in 1 .. Len(Fields[type]) : IsField(Fields[type][i], i)
         /\ \A i, j \in 1 .. Len(Fields[type]) :
              Fields[type][i].name = Fields[type][j].name => i = j
<1>1. IsTable(Fields[type])
  BY Tables
<1>2. DOMAIN Fields[type] = 1 .. Len(Fields[type])
  BY <1>1 DEF IsTable
<1>3. ToSet(Fields[type]) = {Fields[type][i] : i \in 1 .. Len(Fields[type])}
  BY <1>2 DEF ToSet
<1> QED
  BY <1>1, <1>2, <1>3 DEF IsTable

(* Field i of a type.                                                      *)
LEMMA FieldAt ==
  ASSUME NEW type \in Types, NEW i \in 1 .. Len(Fields[type])
  PROVE  /\ i \in 1 .. 6
         /\ IsField(Fields[type][i], i)
         /\ Fields[type][i] \in ToSet(Fields[type])
<1>1. IsField(Fields[type][i], i)
  BY Table
<1>2. Fields[type][i] \in ToSet(Fields[type])
  <2>1. ToSet(Fields[type]) = {Fields[type][j] : j \in 1 .. Len(Fields[type])}
    BY Table
  <2> QED
    BY <2>1
<1>3. Len(Fields[type]) \in 1 .. 6
  BY Table
<1> QED
  BY <1>1, <1>2, <1>3

(* The values of a field are as they may be. *)
LEMMA ValuesMade ==
  ASSUME NEW depth \in 1 .. 5, NEW type, NEW m, MadeAt(depth, type, m),
         NEW f \in ToSet(Fields[type])
  PROVE  /\ Len(Values(m, f)) \in Nat
         /\ DOMAIN Values(m, f) = 1 .. Len(Values(m, f))
         /\ \A j \in 1 .. Len(Values(m, f)) : ValueMade(depth, f, Values(m, f)[j])
<1>1. f.name \in DOMAIN m => FieldMade(depth, f, m[f.name])
  BY MadeUnfold DEF Made
<1>2. CASE f.name \notin DOMAIN m
  <2>1. Values(m, f) = << >>
    BY <1>2 DEF Values
  <2>2. Len(<< >>) = 0 /\ DOMAIN << >> = 1 .. 0
    OBVIOUS
  <2> QED
    BY <2>1, <2>2
<1>3. CASE f.name \in DOMAIN m /\ f.label = "repeated"
  <2> DEFINE v == m[f.name]
  <2>1. Values(m, f) = v
    BY <1>3 DEF Values
  <2>2. FieldMade(depth, f, v)
    BY <1>1, <1>3
  <2> HIDE DEF v
  <2>3. v \in Seq(ToSet(v)) /\ \A j \in DOMAIN v : ValueMade(depth, f, v[j])
    BY <1>3, <2>2 DEF FieldMade
  <2>4. Len(v) \in Nat /\ DOMAIN v = 1 .. Len(v)
    BY <2>3, LenProperties
  <2> QED
    BY <2>1, <2>3, <2>4
<1>4. CASE f.name \in DOMAIN m /\ f.label # "repeated"
  <2> DEFINE v == m[f.name]
  <2>1. Values(m, f) = << v >>
    BY <1>4 DEF Values
  <2>2. FieldMade(depth, f, v)
    BY <1>1, <1>4
  <2> HIDE DEF v
  <2>3. ValueMade(depth, f, v)
    BY <1>4, <2>2 DEF FieldMade
  <2>4. Len(<< v >>) = 1 /\ DOMAIN << v >> = 1 .. 1 /\ << v >>[1] = v
    OBVIOUS
  <2>5. \A j \in 1 .. 1 : j = 1
    OBVIOUS
  <2> QED
    BY <2>1, <2>3, <2>4, <2>5
<1> QED
  BY <1>2, <1>3, <1>4

(* The messages of a depth are measured right.                             *)
WritesMeasured(depth) ==
  \A type \in Types : \A m : MadeAt(depth, type, m) => IsMeasured(WriteAt(depth, type, m))

(* A value that may be in a field is measured right, by the level below.   *)
LEMMA InnerContent ==
  ASSUME NEW depth \in 1 .. 5, WritesMeasured(depth - 1), NEW f, NEW i \in 1 .. 6,
         IsField(f, i), NEW v, ValueMade(depth, f, v)
  PROVE  IsContent(f, v, Inner(depth, f, v))
<1>1. CASE f.kind = "varint"
  <2>1. ~IsMessage(f.kind)
    BY <1>1, FieldKinds DEF Types
  <2>2. Fits(v) /\ v \in Nat
    BY <1>1, <2>1 DEF ValueMade, Fits
  <2> QED
    BY <1>1, <2>2 DEF IsContent
<1>2. CASE f.kind = "fixed64"
  <2>1. ~IsMessage(f.kind)
    BY <1>2, FieldKinds DEF Types
  <2>2. v \in Seq(Byte) /\ Len(v) = 8
    BY <1>2, <2>1 DEF ValueMade, IsBytes
  <2> QED
    BY <1>2, <2>2 DEF IsContent
<1>3. CASE f.kind = "bytes"
  <2>1. ~IsMessage(f.kind)
    BY <1>3, FieldKinds DEF Types
  <2>2. v \in Seq(Byte)
    BY <1>3, <2>1 DEF ValueMade, IsBytes
  <2>3. Inner(depth, f, v) = [size |-> Len(v), bytes |-> v]
    BY <2>1 DEF Inner
  <2>4. Len(v) \in Nat
    BY <2>2, LenProperties
  <2>5. IsMeasured(Inner(depth, f, v))
    BY <2>2, <2>3, <2>4 DEF IsMeasured
  <2>6. f.kind \notin {"varint", "fixed64"}
    BY <1>3
  <2> QED
    BY <2>5, <2>6 DEF IsContent
<1>4. CASE f.kind \in Types
  <2>1. IsMessage(f.kind)
    BY <1>4, FieldKinds DEF Types
  <2>2. f.kind \notin {"varint", "fixed64", "bytes"}
    BY <1>4 DEF Types
  <2>3. MadeAt(depth - 1, f.kind, v)
    BY <2>2 DEF ValueMade
  <2>4. IsMeasured(WriteAt(depth - 1, f.kind, v))
    BY <1>4, <2>3 DEF WritesMeasured
  <2>5. Inner(depth, f, v) = WriteAt(depth - 1, f.kind, v)
    BY <2>1 DEF Inner
  <2> QED
    BY <2>2, <2>4, <2>5 DEF IsContent
<1> QED
  BY <1>1, <1>2, <1>3, <1>4, FieldKinds

(* All values of a field are measured right.                               *)
LEMMA FieldMeasured ==
  ASSUME NEW depth \in 1 .. 5, WritesMeasured(depth - 1), NEW type \in Types, NEW m,
         MadeAt(depth, type, m), NEW i \in 1 .. Len(Fields[type]),
         NEW f, f = Fields[type][i], NEW parts, parts = FieldParts(depth, m, f)
  PROVE  /\ Len(parts) = Len(Values(m, f))
         /\ Len(parts) \in Nat
         /\ \A j \in 1 .. Len(parts) :
              /\ parts[j] = Written(f, Values(m, f)[j], Inner(depth, f, Values(m, f)[j]))
              /\ IsContent(f, Values(m, f)[j], Inner(depth, f, Values(m, f)[j]))
              /\ IsMeasured(parts[j])
              /\ parts[j].size >= 1
<1>1. i \in 1 .. 6 /\ IsField(f, i) /\ f \in ToSet(Fields[type])
  BY FieldAt
<1> DEFINE vs == Values(m, f)
           n == Len(vs)
<1>2. n \in Nat /\ DOMAIN vs = 1 .. n /\ \A j \in 1 .. n : ValueMade(depth, f, vs[j])
  BY <1>1, ValuesMade
<1>3. parts = [j \in 1 .. n |-> Written(f, vs[j], Inner(depth, f, vs[j]))]
  BY <1>2 DEF FieldParts
<1> HIDE DEF vs, n
<1>4. parts = [j \in 1 .. n |-> parts[j]]
  BY <1>3
<1>5. Len(parts) = n
  BY <1>2, <1>4, LenOf
<1>6. ASSUME NEW j \in 1 .. n
      PROVE  /\ parts[j] = Written(f, vs[j], Inner(depth, f, vs[j]))
             /\ IsContent(f, vs[j], Inner(depth, f, vs[j]))
             /\ IsMeasured(parts[j])
             /\ parts[j].size >= 1
  <2> DEFINE inner == Inner(depth, f, vs[j])
             v == vs[j]
  <2>1. parts[j] = Written(f, v, inner)
    BY <1>3
  <2>2. ValueMade(depth, f, v)
    BY <1>2
  <2>3. IsContent(f, v, inner)
    BY <1>1, <2>2, InnerContent
  <2> HIDE DEF inner, v
  <2>4. IsMeasured(Written(f, v, inner)) /\ Written(f, v, inner).size >= 1
    BY <1>1, <2>3, WrittenMeasured
  <2> QED
    BY <2>1, <2>3, <2>4 DEF inner, v
<1> QED
  BY <1>2, <1>5, <1>6 DEF vs, n

(* All fields are measured right.                                          *)
LEMMA PartsMeasured ==
  ASSUME NEW depth \in 1 .. 5, WritesMeasured(depth - 1), NEW type \in Types, NEW m,
         MadeAt(depth, type, m), NEW parts, parts = Parts(depth, type, m)
  PROVE  /\ Len(parts) = Len(Fields[type])
         /\ \A i \in 1 .. Len(parts) :
              /\ parts[i] = Joined(FieldParts(depth, m, Fields[type][i]))
              /\ IsMeasured(parts[i])
<1> DEFINE n == Len(Fields[type])
<1>1. n \in Nat /\ DOMAIN Fields[type] = 1 .. n
  <2>1. n \in 1 .. 6 /\ DOMAIN Fields[type] = 1 .. n
    BY Table
  <2> QED
    BY <2>1
<1>2. parts = [i \in 1 .. n |-> Joined(FieldParts(depth, m, Fields[type][i]))]
  BY <1>1 DEF Parts
<1>3. parts = [i \in 1 .. n |-> parts[i]]
  BY <1>2
<1> HIDE DEF n
<1>4. Len(parts) = n
  BY <1>1, <1>3, LenOf
<1>5. ASSUME NEW i \in 1 .. n
      PROVE  IsMeasured(Joined(FieldParts(depth, m, Fields[type][i])))
  <2> DEFINE f == Fields[type][i]
             fp == FieldParts(depth, m, f)
  <2>1. Len(fp) \in Nat /\ \A j \in 1 .. Len(fp) : IsMeasured(fp[j])
    BY <1>5, FieldMeasured DEF n
  <2> HIDE DEF fp
  <2>2. IsMeasured(Joined(fp))
    BY <2>1, JoinedMeasured
  <2> QED
    BY <2>2 DEF fp
<1> QED
  BY <1>2, <1>4, <1>5 DEF n

(* From one depth to the next.                                             *)
LEMMA WriteMeasuredStep ==
  ASSUME NEW depth \in 1 .. 5, WritesMeasured(depth - 1)
  PROVE  WritesMeasured(depth)
<1> SUFFICES ASSUME NEW type \in Types, NEW m, MadeAt(depth, type, m)
             PROVE  IsMeasured(WriteAt(depth, type, m))
  BY DEF WritesMeasured
<1> DEFINE parts == Parts(depth, type, m)
<1>1. Len(parts) = Len(Fields[type]) /\ \A i \in 1 .. Len(parts) : IsMeasured(parts[i])
  BY PartsMeasured
<1>2. Len(Fields[type]) \in Nat
  <2>1. Len(Fields[type]) \in 1 .. 6
    BY Table
  <2> QED
    BY <2>1
<1> HIDE DEF parts
<1>3. Len(parts) \in Nat
  BY <1>1, <1>2
<1>4. IsMeasured(Joined(parts))
  BY <1>1, <1>3, JoinedMeasured
<1> QED
  BY <1>4, WriteUnfold DEF parts

(* ByteSizeLong() and _InternalSerialize() agree, at every depth. *)
LEMMA WriteMeasured ==
  ASSUME NEW depth \in 0 .. 5
  PROVE  WritesMeasured(depth)
<1>0. WritesMeasured(0)
  BY DEF WritesMeasured, MadeAt
<1>1. ASSUME NEW k \in 1 .. 5, WritesMeasured(k - 1) PROVE WritesMeasured(k)
  BY <1>1, WriteMeasuredStep
<1>2. WritesMeasured(1)
  BY <1>0, <1>1
<1>3. WritesMeasured(2)
  BY <1>2, <1>1
<1>4. WritesMeasured(3)
  BY <1>3, <1>1
<1>5. WritesMeasured(4)
  BY <1>4, <1>1
<1>6. WritesMeasured(5)
  BY <1>5, <1>1
<1>7. depth = 0 \/ depth = 1 \/ depth = 2 \/ depth = 3 \/ depth = 4 \/ depth = 5
  OBVIOUS
<1> QED
  BY <1>0, <1>2, <1>3, <1>4, <1>5, <1>6, <1>7

(* Concatenation is associative.                                           *)
LEMMA Associative ==
  ASSUME NEW x \in Seq(Byte), NEW y \in Seq(Byte), NEW z \in Seq(Byte)
  PROVE  (x \o y) \o z = x \o (y \o z)
BY ConcatAssociative

(* The cases of ReadValue.                                                 *)
LEMMA ReadValueIs ==
  ASSUME NEW b
  PROVE  /\ ReadValue(0, b) = ReadVarint[b]
         /\ ReadValue(1, b) = ReadBytes(b, 8)
         /\ ReadValue(2, b) = LET len == ReadVarint[b] IN
                              IF len.ok THEN ReadBytes(len.rest, len.value) ELSE Failure
<1>1. 0 # 1 /\ 0 # 2 /\ 0 # 5 /\ 1 # 2 /\ 1 # 5 /\ 2 # 5
  OBVIOUS
<1> QED
  BY <1>1, Zenon DEF ReadValue

(* What is known of a value to be parsed: its content is measured, and the *)
(* size of that fits.                                                      *)
IsReadable(f, v, inner) ==
  /\ IsContent(f, v, inner)
  /\ f.kind \notin {"varint", "fixed64"} => Fits(inner.size)

(* What is read of it. *)
ValueRead(f, v, inner) == IF f.kind \in {"varint", "fixed64"} THEN v ELSE inner.bytes

(* The content that was written is read, and no more.                      *)
LEMMA ContentRead ==
  ASSUME NEW f, NEW v, NEW inner, IsReadable(f, v, inner), NEW r \in Seq(Byte)
  PROVE  /\ Content(f, v, inner) \in Seq(Byte)
         /\ ReadValue(WireType(f.kind), Content(f, v, inner) \o r)
              = Success(ValueRead(f, v, inner), r)
<1>0. IsContent(f, v, inner)
  BY DEF IsReadable
<1>1. CASE f.kind = "varint"
  <2>1. v \in Nat
    BY <1>0, <1>1 DEF IsContent
  <2>2. Content(f, v, inner) = Varint[v] /\ ValueRead(f, v, inner) = v
    BY <1>1 DEF Content, ValueRead
  <2>3. WireType(f.kind) = 0
    BY <1>1, WireTypes
  <2>4. Varint[v] \in Seq(Byte) /\ ReadVarint[Varint[v] \o r] = Success(v, r)
    BY <2>1, VarintRead
  <2>5. ReadValue(0, Varint[v] \o r) = ReadVarint[Varint[v] \o r]
    BY ReadValueIs
  <2> QED
    BY <2>2, <2>3, <2>4, <2>5
<1>2. CASE f.kind = "fixed64"
  <2>1. v \in Seq(Byte) /\ Len(v) = 8
    BY <1>0, <1>2 DEF IsContent
  <2>2. Content(f, v, inner) = v /\ ValueRead(f, v, inner) = v
    BY <1>2 DEF Content, ValueRead
  <2>3. WireType(f.kind) = 1
    BY <1>2, WireTypes
  <2>4. ReadBytes(v \o r, Len(v)) = Success(v, r)
    BY <2>1, ConcatRead
  <2>5. ReadValue(1, v \o r) = ReadBytes(v \o r, 8)
    BY ReadValueIs
  <2> QED
    BY <2>1, <2>2, <2>3, <2>4, <2>5
<1>3. CASE f.kind \notin {"varint", "fixed64"}
  <2> DEFINE n == inner.size
             x == inner.bytes
  <2>1. IsMeasured(inner) /\ Fits(n)
    BY <1>0, <1>3 DEF IsContent, IsReadable
  <2>2. n \in Nat /\ x \in Seq(Byte) /\ n = Len(x)
    BY <2>1 DEF IsMeasured
  <2>3. Content(f, v, inner) = Varint[n] \o x /\ ValueRead(f, v, inner) = x
    BY <1>3 DEF Content, ValueRead
  <2>4. WireType(f.kind) = 2
    BY <1>3, WireTypes
  <2> HIDE DEF n, x
  <2>5. Varint[n] \in Seq(Byte)
    BY <2>2, VarintRead
  <2>6. x \o r \in Seq(Byte)
    BY <2>2, ConcatProperties
  <2>7. (Varint[n] \o x) \o r = Varint[n] \o (x \o r)
    BY <2>2, <2>5, Associative
  <2>8. ReadVarint[Varint[n] \o (x \o r)] = Success(n, x \o r)
    BY <2>2, <2>6, VarintRead
  <2>9. ReadBytes(x \o r, n) = Success(x, r)
    BY <2>2, ConcatRead
  <2> DEFINE b == Varint[n] \o (x \o r)
             len == ReadVarint[b]
  <2>10. len.ok /\ len.value = n /\ len.rest = x \o r
    BY <2>8 DEF Success
  <2>11. ReadValue(2, b) = IF len.ok THEN ReadBytes(len.rest, len.value) ELSE Failure
    BY ReadValueIs, Zenon
  <2> HIDE DEF b, len
  <2>12. ReadValue(2, b) = Success(x, r)
    BY <2>9, <2>10, <2>11
  <2>13. Varint[n] \o x \in Seq(Byte)
    BY <2>2, <2>5, ConcatProperties
  <2> QED
    BY <2>3, <2>4, <2>7, <2>12, <2>13 DEF b
<1> QED
  BY <1>1, <1>2, <1>3

(* A written field is read, and nothing more. *)
IsReadFrom(type, f, v, inner, r, b) ==
  /\ b \in Seq(Byte) /\ b # << >> /\ Len(r) < Len(b)
  /\ ReadField(type, b).ok
  /\ ReadField(type, b).fields = {f}
  /\ ReadField(type, b).value = ValueRead(f, v, inner)
  /\ ReadField(type, b).rest = r

(* The field that was written is read, known by its tag.                   *)
LEMMA FieldRead ==
  ASSUME NEW type \in Types, NEW i \in 1 .. Len(Fields[type]), NEW f, f = Fields[type][i],
         NEW v, NEW inner, IsReadable(f, v, inner), NEW r \in Seq(Byte),
         NEW b, b = Written(f, v, inner).bytes \o r
  PROVE  IsReadFrom(type, f, v, inner, r, b)
<1>1. i \in 1 .. 6 /\ IsField(f, i) /\ f \in ToSet(Fields[type])
  BY FieldAt
<1> DEFINE tag == Tag(f)
           c == Content(f, v, inner)
<1>2. /\ c \in Seq(Byte)
      /\ ReadValue(WireType(f.kind), c \o r) = Success(ValueRead(f, v, inner), r)
  BY ContentRead
<1>3. tag \in 8 .. 127 /\ tag % 8 = WireType(f.kind) /\ Varint[tag] = << tag >>
  BY <1>1, Tags
<1>4. Written(f, v, inner).bytes = Varint[tag] \o c
  BY WrittenIs
<1> HIDE DEF c
<1>5. tag \in Nat /\ ~(tag < 8) /\ tag \in Byte
  <2>1. tag \in 8 .. 127
    BY <1>3
  <2> HIDE DEF tag
  <2> QED
    BY <2>1 DEF Byte
<1>6. c \o r \in Seq(Byte) /\ Len(c \o r) = Len(c) + Len(r)
  BY <1>2, ConcatProperties
<1>7. Varint[tag] \in Seq(Byte)
  BY <1>5, VarintRead
<1>8. b = Varint[tag] \o (c \o r)
  <2>1. b = (Varint[tag] \o c) \o r
    BY <1>4
  <2>2. c \in Seq(Byte)
    BY <1>2
  <2> HIDE DEF tag
  <2>3. (Varint[tag] \o c) \o r = Varint[tag] \o (c \o r)
    BY <1>7, <2>2, Associative
  <2> QED
    BY <2>1, <2>3
<1>9. ReadVarint[b] = Success(tag, c \o r)
  BY <1>5, <1>6, <1>8, VarintRead
<1>10. b \in Seq(Byte) /\ b # << >> /\ Len(b) = Len(c \o r) + 1
  <2>1. b = << tag >> \o (c \o r)
    BY <1>3, <1>8
  <2> QED
    BY <2>1, <1>5, <1>6, FirstByte
<1>11. Len(r) < Len(b)
  <2>1. Len(c) \in Nat /\ Len(r) \in Nat
    BY <1>2, LenProperties
  <2>2. \A x, y \in Nat : y < (x + y) + 1
    OBVIOUS
  <2> QED
    BY <1>6, <1>10, <2>1, <2>2
<1>12. {g \in ToSet(Fields[type]) : Tag(g) = tag} = {f}
  <2>1. ASSUME NEW g \in ToSet(Fields[type]), Tag(g) = tag PROVE g = f
    <3>1. PICK j \in 1 .. Len(Fields[type]) : g = Fields[type][j]
      <4>1. ToSet(Fields[type]) = {Fields[type][k] : k \in 1 .. Len(Fields[type])}
        BY Table
      <4> QED
        BY <4>1
    <3>2. j \in 1 .. 6 /\ IsField(g, j)
      BY <3>1, FieldAt
    <3>3. Tag(g) \div 8 = j
      BY <3>2, Tags
    <3>4. Tag(f) \div 8 = i
      BY <1>1, Tags
    <3>5. i = j
      BY <2>1, <3>3, <3>4
    <3> QED
      BY <3>1, <3>5
  <2> QED
    BY <1>1, <2>1
<1> DEFINE read == ReadVarint[b]
           value == ReadValue(read.value % 8, read.rest)
<1>13. read.ok /\ read.value = tag /\ read.rest = c \o r
  BY <1>9 DEF Success
<1>14. ReadField(type, b) =
         IF ~read.ok \/ read.value < 8 \/ ~value.ok THEN Failure
         ELSE [ok |-> TRUE, fields |-> {g \in ToSet(Fields[type]) : Tag(g) = read.value},
               value |-> value.value, rest |-> value.rest]
  BY Zenon DEF ReadField
<1> HIDE DEF read, tag
<1>15. value = Success(ValueRead(f, v, inner), r)
  BY <1>2, <1>3, <1>13
<1> HIDE DEF value
<1>16. value.ok /\ value.value = ValueRead(f, v, inner) /\ value.rest = r
  BY <1>15 DEF Success
<1>17. ReadField(type, b) = [ok |-> TRUE, fields |-> {f},
                             value |-> ValueRead(f, v, inner), rest |-> r]
  BY <1>5, <1>12, <1>13, <1>14, <1>16
<1> QED
  BY <1>10, <1>11, <1>17 DEF IsReadFrom

-----------------------------------------------------------------------------
(* Merging into an empty message, and field by field.                      *)

(* A field is found by its name.                                           *)
LEMMA NamedIs ==
  ASSUME NEW type \in Types, NEW f \in ToSet(Fields[type])
  PROVE  Named(type, f.name) = f
<1>1. ToSet(Fields[type]) = {Fields[type][k] : k \in 1 .. Len(Fields[type])}
  BY Table
<1>2. ASSUME NEW g \in ToSet(Fields[type]), g.name = f.name PROVE g = f
  <2>1. PICK i \in 1 .. Len(Fields[type]) : f = Fields[type][i]
    BY <1>1
  <2>2. PICK j \in 1 .. Len(Fields[type]) : g = Fields[type][j]
    BY <1>1
  <2>3. i = j
    BY <1>2, <2>1, <2>2, Table
  <2> QED
    BY <2>1, <2>2, <2>3
<1> DEFINE P(g) == g \in ToSet(Fields[type]) /\ g.name = f.name
           c == CHOOSE g : P(g)
<1>3. Named(type, f.name) = c
  BY Zenon DEF Named
<1>4. P(f)
  OBVIOUS
<1>5. P(c)
  <2> HIDE DEF P
  <2> QED
    BY <1>4
<1> HIDE DEF c
<1> QED
  BY <1>2, <1>3, <1>5

(* The cases of the oneof are the fields with that label.                  *)
LEMMA CasesIs ==
  ASSUME NEW type \in Types, NEW f \in ToSet(Fields[type])
  PROVE  (f.label = "oneof" => f.name \in Cases(type))
         /\ (f.label # "oneof" => f.name \notin Cases(type))
<1>1. f.label = "oneof" => f.name \in Cases(type)
  BY DEF Cases
<1>2. ASSUME f.name \in Cases(type) PROVE f.label = "oneof"
  <2>1. PICK g \in ToSet(Fields[type]) : g.label = "oneof" /\ g.name = f.name
    BY <1>2 DEF Cases
  <2>2. Named(type, g.name) = g /\ Named(type, f.name) = f
    BY NamedIs
  <2> QED
    BY <2>1, <2>2
<1> QED
  BY <1>1, <1>2

(* A field of what is merged.                                              *)
MergeEntry(depth, type, kept, v, n) ==
  IF n \notin DOMAIN v THEN kept[n]
  ELSE IF n \in Cases(type)
    THEN MergeAt(depth - 1, Named(type, n).kind, Get(kept, n, << >>), v[n])
  ELSE IF Named(type, n).label = "repeated" THEN Get(kept, n, << >>) \o v[n]
  ELSE v[n]

MergeOf(depth, type, to, v) ==
  [n \in DOMAIN Kept(type, to, v) \cup DOMAIN v |->
     MergeEntry(depth, type, Kept(type, to, v), v, n)]

(* A merge is field by field.                                              *)
LEMMA MergeIs ==
  ASSUME NEW depth \in 1 .. 5, NEW type, NEW to, NEW v
  PROVE  MergeAt(depth, type, to, v) = MergeOf(depth, type, to, v)
<1> DEFINE kept == Kept(type, to, v)
           cases == CasesMerged(depth, type, kept, v)
<1>1. MergeAt(depth, type, to, v) = MergeInto(type, kept, v, cases)
  BY MergeUnfold
<1>2. ASSUME NEW n, n \in Cases(type), n \in DOMAIN v
      PROVE  cases[n] = MergeAt(depth - 1, Named(type, n).kind, Get(kept, n, << >>), v[n])
  BY <1>2 DEF CasesMerged
<1> HIDE DEF kept, cases
<1>3. ASSUME NEW n
      PROVE  MergeEntry(depth, type, kept, v, n) =
               IF n \notin DOMAIN v THEN kept[n]
               ELSE IF n \in Cases(type) THEN cases[n]
               ELSE IF Named(type, n).label = "repeated" THEN Get(kept, n, << >>) \o v[n]
               ELSE v[n]
  BY <1>2 DEF MergeEntry
<1> DEFINE E(n) == MergeEntry(depth, type, kept, v, n)
<1>4. MergeInto(type, kept, v, cases) = [n \in DOMAIN kept \cup DOMAIN v |-> E(n)]
  BY <1>3 DEF MergeInto
<1> QED
  BY <1>1, <1>4, Zenon DEF kept, MergeOf

(* Merged into an empty message, a message is as it was. *)
MergesToItself(depth) ==
  \A type \in Types : \A v : MadeAt(depth, type, v) => MergeAt(depth, type, << >>, v) = v

(* From one depth to the next, and for all.                                *)
LEMMA MergeIntoEmptyStep ==
  ASSUME NEW depth \in 1 .. 5, MergesToItself(depth - 1)
  PROVE  MergesToItself(depth)
<1> SUFFICES ASSUME NEW type \in Types, NEW v, MadeAt(depth, type, v)
             PROVE  MergeAt(depth, type, << >>, v) = v
  BY DEF MergesToItself
<1> DEFINE kept == Kept(type, << >>, v)
<1>1. DOMAIN kept = {}
  BY DEF Kept, Without
<1>2. /\ v = [n \in DOMAIN v |-> v[n]]
      /\ DOMAIN v \subseteq {f.name : f \in ToSet(Fields[type])}
      /\ \A f \in ToSet(Fields[type]) : f.name \in DOMAIN v => FieldMade(depth, f, v[f.name])
  BY MadeUnfold DEF Made
<1>3. ASSUME NEW n \in DOMAIN v PROVE MergeEntry(depth, type, kept, v, n) = v[n]
  <2>1. PICK f \in ToSet(Fields[type]) : f.name = n
    BY <1>2
  <2>2. Named(type, n) = f
    BY <2>1, NamedIs
  <2>3. FieldMade(depth, f, v[n])
    BY <1>2, <2>1
  <2>4. Get(kept, n, << >>) = << >>
    BY <1>1 DEF Get
  <2>5. CASE n \in Cases(type)
    <3>1. f.label = "oneof"
      BY <2>1, <2>5, CasesIs
    <3>2. PICK i \in 1 .. Len(Fields[type]) : IsField(f, i)
      <4>1. ToSet(Fields[type]) = {Fields[type][k] : k \in 1 .. Len(Fields[type])}
        BY Table
      <4>2. PICK i \in 1 .. Len(Fields[type]) : f = Fields[type][i]
        BY <4>1
      <4>3. IsField(f, i)
        BY <4>2, FieldAt
      <4> QED
        BY <4>3
    <3>3. f.kind \in Types
      BY <3>1, <3>2 DEF IsField
    <3>4. f.kind \notin {"varint", "fixed64", "bytes"}
      BY <3>3 DEF Types
    <3>5. ValueMade(depth, f, v[n])
      BY <2>3, <3>1 DEF FieldMade
    <3>6. MadeAt(depth - 1, f.kind, v[n])
      BY <3>4, <3>5 DEF ValueMade
    <3>7. MergeAt(depth - 1, f.kind, << >>, v[n]) = v[n]
      BY <3>3, <3>6 DEF MergesToItself
    <3>8. MergeEntry(depth, type, kept, v, n)
            = MergeAt(depth - 1, Named(type, n).kind, Get(kept, n, << >>), v[n])
      BY <2>5 DEF MergeEntry
    <3> QED
      BY <2>2, <2>4, <3>7, <3>8
  <2>6. CASE n \notin Cases(type) /\ f.label = "repeated"
    <3>1. v[n] \in Seq(ToSet(v[n]))
      BY <2>3, <2>6 DEF FieldMade
    <3>2. << >> \o v[n] = v[n]
      BY <3>1, ConcatEmptySeq
    <3>3. MergeEntry(depth, type, kept, v, n) = Get(kept, n, << >>) \o v[n]
      BY <2>2, <2>6 DEF MergeEntry
    <3> QED
      BY <2>4, <3>2, <3>3
  <2>7. CASE n \notin Cases(type) /\ f.label # "repeated"
    BY <2>2, <2>7 DEF MergeEntry
  <2> QED
    BY <2>5, <2>6, <2>7
<1>4. MergeAt(depth, type, << >>, v)
        = [n \in DOMAIN kept \cup DOMAIN v |-> MergeEntry(depth, type, kept, v, n)]
  <2>1. MergeAt(depth, type, << >>, v) = MergeOf(depth, type, << >>, v)
    BY MergeIs
  <2> QED
    BY <2>1, Zenon DEF MergeOf
<1> HIDE DEF kept
<1>5. DOMAIN kept \cup DOMAIN v = DOMAIN v
  BY <1>1
<1>6. MergeAt(depth, type, << >>, v) = [n \in DOMAIN v |-> v[n]]
  BY <1>3, <1>4, <1>5
<1> QED
  BY <1>2, <1>6

LEMMA MergeIntoEmpty ==
  ASSUME NEW depth \in 0 .. 5
  PROVE  MergesToItself(depth)
<1>0. MergesToItself(0)
  BY DEF MergesToItself, MadeAt
<1>1. ASSUME NEW k \in 1 .. 5, MergesToItself(k - 1) PROVE MergesToItself(k)
  BY <1>1, MergeIntoEmptyStep
<1>2. MergesToItself(1)
  BY <1>0, <1>1
<1>3. MergesToItself(2)
  BY <1>2, <1>1
<1>4. MergesToItself(3)
  BY <1>3, <1>1
<1>5. MergesToItself(4)
  BY <1>4, <1>1
<1>6. MergesToItself(5)
  BY <1>5, <1>1
<1>7. depth = 0 \/ depth = 1 \/ depth = 2 \/ depth = 3 \/ depth = 4 \/ depth = 5
  OBVIOUS
<1> QED
  BY <1>0, <1>2, <1>3, <1>4, <1>5, <1>6, <1>7

(* The cases of Store.                                                     *)
LEMMA StoreIs ==
  ASSUME NEW type, NEW m, NEW f, NEW v
  PROVE  /\ f.label = "implicit" => Store(type, m, f, v) = Set(m, f.name, v, Default(f.kind))
         /\ f.label = "repeated" =>
              Store(type, m, f, v) = With(m, f.name, Append(Get(m, f.name, << >>), v))
         /\ f.label = "oneof" =>
              Store(type, m, f, v) = With(Without(m, Cases(type)), f.name, v)
         /\ f.label \notin {"implicit", "repeated", "oneof"} =>
              Store(type, m, f, v) = With(m, f.name, v)
<1>1. "implicit" # "repeated" /\ "implicit" # "oneof" /\ "repeated" # "oneof"
  OBVIOUS
<1> QED
  BY <1>1, Zenon DEF Store

(* Accessors.                                                              *)
LEMMA WithDomain ==
  ASSUME NEW p, NEW name, NEW y
  PROVE  DOMAIN With(p, name, y) = DOMAIN p \cup {name}
BY DEF With

LEMMA WithAt ==
  ASSUME NEW p, NEW name, NEW y
  PROVE  With(p, name, y)[name] = y
BY DEF With

LEMMA WithOther ==
  ASSUME NEW p, NEW name, NEW y, NEW n \in DOMAIN p, n # name
  PROVE  With(p, name, y)[n] = p[n]
BY DEF With

(* A field of a merge depends on that field only.                          *)
LEMMA EntryOther ==
  ASSUME NEW depth, NEW type, NEW kept, NEW p, NEW q, NEW n,
         n \in DOMAIN q <=> n \in DOMAIN p, n \in DOMAIN p => q[n] = p[n]
  PROVE  MergeEntry(depth, type, kept, q, n) = MergeEntry(depth, type, kept, p, n)
<1>1. CASE n \notin DOMAIN p
  <2>1. MergeEntry(depth, type, kept, p, n) = kept[n]
    BY <1>1, Zenon DEF MergeEntry
  <2>2. MergeEntry(depth, type, kept, q, n) = kept[n]
    BY <1>1, Zenon DEF MergeEntry
  <2> QED
    BY <2>1, <2>2
<1>2. CASE n \in DOMAIN p
  <2>1. n \in DOMAIN q /\ q[n] = p[n]
    BY <1>2
  <2> QED
    BY <1>2, <2>1, Zenon DEF MergeEntry
<1> QED
  BY <1>1, <1>2

(* A merge with one field more, or with more in it, is the merge before    *)
(* with that field set to what is there now.                               *)
LEMMA MergeWith ==
  ASSUME NEW depth \in 1 .. 5, NEW type, NEW to, NEW p, NEW name, NEW y,
         Kept(type, to, With(p, name, y)) = Kept(type, to, p)
  PROVE  MergeAt(depth, type, to, With(p, name, y))
           = With(MergeAt(depth, type, to, p), name,
                  MergeEntry(depth, type, Kept(type, to, p), With(p, name, y), name))
<1> DEFINE kept == Kept(type, to, p)
           q == With(p, name, y)
           x == MergeAt(depth, type, to, p)
           e == MergeEntry(depth, type, kept, q, name)
<1>1. x = [n \in DOMAIN kept \cup DOMAIN p |-> MergeEntry(depth, type, kept, p, n)]
  <2>1. x = MergeOf(depth, type, to, p)
    BY MergeIs
  <2> QED
    BY <2>1, Zenon DEF MergeOf
<1>2. MergeAt(depth, type, to, q)
        = [n \in DOMAIN kept \cup DOMAIN q |-> MergeEntry(depth, type, kept, q, n)]
  <2> HIDE DEF q
  <2>1. MergeAt(depth, type, to, q) = MergeOf(depth, type, to, q)
    BY MergeIs
  <2>2. Kept(type, to, q) = kept
    BY DEF q
  <2> QED
    BY <2>1, <2>2, Zenon DEF MergeOf
<1>3. DOMAIN q = DOMAIN p \cup {name}
  BY WithDomain
<1>4. ASSUME NEW n, n # name
      PROVE  MergeEntry(depth, type, kept, q, n) = MergeEntry(depth, type, kept, p, n)
  <2>1. n \in DOMAIN q <=> n \in DOMAIN p
    BY <1>3, <1>4
  <2>2. n \in DOMAIN p => q[n] = p[n]
    BY <1>4, WithOther
  <2> HIDE DEF q, kept
  <2> QED
    BY <2>1, <2>2, EntryOther
<1> HIDE DEF kept, q, x
<1>5. DOMAIN kept \cup DOMAIN q = DOMAIN x \cup {name}
  BY <1>1, <1>3
<1>6. ASSUME NEW n \in DOMAIN kept \cup DOMAIN q
      PROVE  MergeEntry(depth, type, kept, q, n) = IF n = name THEN e ELSE x[n]
  <2>1. CASE n = name
    BY <2>1
  <2>2. CASE n # name
    <3>1. n \in DOMAIN kept \cup DOMAIN p
      BY <2>2, <1>3, <1>6
    <3>2. x[n] = MergeEntry(depth, type, kept, p, n)
      BY <3>1, <1>1
    <3> QED
      BY <2>2, <3>2, <1>4
  <2> QED
    BY <2>1, <2>2
<1> HIDE DEF e
<1>7. MergeAt(depth, type, to, q) = [n \in DOMAIN x \cup {name} |-> IF n = name THEN e ELSE x[n]]
  BY <1>2, <1>5, <1>6
<1>8. MergeAt(depth, type, to, q) = With(x, name, e)
  BY <1>7, Zenon DEF With
<1> QED
  BY <1>8 DEF q, x, e, kept

(* What is kept depends on the cases of the oneof only.                    *)
LEMMA KeptOther ==
  ASSUME NEW type, NEW to, NEW p, NEW name, NEW y, name \notin Cases(type)
  PROVE  Kept(type, to, With(p, name, y)) = Kept(type, to, p)
<1> DEFINE q == With(p, name, y)
<1>1. DOMAIN q = DOMAIN p \cup {name}
  BY WithDomain
<1> HIDE DEF q
<1>2. Cases(type) \cap DOMAIN q = Cases(type) \cap DOMAIN p
  BY <1>1
<1>3. Cases(type) \ DOMAIN q = Cases(type) \ DOMAIN p
  BY <1>1
<1>4. Kept(type, to, q) = Kept(type, to, p)
  BY <1>2, <1>3, Zenon DEF Kept
<1> QED
  BY <1>4 DEF q

(* Storing w in field f gives what merging y as this field gives. *)
StoresAs(depth, type, to, p, f, w, y) ==
  Store(type, MergeAt(depth, type, to, p), f, w) = MergeAt(depth, type, to, With(p, f.name, y))

(* A value that is neither in a list nor a case of the oneof. *)
LEMMA StoredPlain ==
  ASSUME NEW depth \in 1 .. 5, NEW type \in Types, NEW to, NEW p,
         NEW f \in ToSet(Fields[type]), f.label \notin {"repeated", "oneof"},
         NEW v, f.label = "implicit" => v # Default(f.kind)
  PROVE  StoresAs(depth, type, to, p, f, v, v)
<1> DEFINE x == MergeAt(depth, type, to, p)
           q == With(p, f.name, v)
           kept == Kept(type, to, p)
           e == MergeEntry(depth, type, kept, q, f.name)
<1>1. f.name \notin Cases(type) /\ Named(type, f.name) = f
  BY CasesIs, NamedIs
<1>2. e = v
  <2>1. f.name \in DOMAIN q /\ q[f.name] = v
    <3>1. DOMAIN q = DOMAIN p \cup {f.name}
      BY WithDomain
    <3>2. q[f.name] = v
      BY WithAt
    <3> HIDE DEF q
    <3> QED
      BY <3>1, <3>2
  <2> HIDE DEF q, kept
  <2> QED
    BY <1>1, <2>1 DEF MergeEntry
<1>3. MergeAt(depth, type, to, q) = With(x, f.name, e)
  <2>1. Kept(type, to, q) = kept
    BY <1>1, KeptOther
  <2> QED
    BY <2>1, MergeWith
<1>4. Store(type, x, f, v) = With(x, f.name, v)
  <2> HIDE DEF x
  <2>1. CASE f.label = "implicit"
    <3>1. Store(type, x, f, v) = Set(x, f.name, v, Default(f.kind))
      BY <2>1, StoreIs
    <3> QED
      BY <2>1, <3>1 DEF Set
  <2>2. CASE f.label # "implicit"
    <3>1. f.label \notin {"implicit", "repeated", "oneof"}
      BY <2>2
    <3> QED
      BY <3>1, StoreIs
  <2> QED
    BY <2>1, <2>2
<1> HIDE DEF e, x, q
<1>5. Store(type, x, f, v) = MergeAt(depth, type, to, q)
  BY <1>2, <1>3, <1>4
<1> QED
  BY <1>5 DEF x, q, StoresAs

(* A value in a list. *)
LEMMA StoredListed ==
  ASSUME NEW depth \in 1 .. 5, NEW type \in Types, NEW to, NEW p,
         NEW f \in ToSet(Fields[type]), f.label = "repeated",
         NEW S, NEW v \in S, Get(p, f.name, << >>) \in Seq(S), Get(to, f.name, << >>) \in Seq(S),
         NEW y, y = Append(Get(p, f.name, << >>), v)
  PROVE  StoresAs(depth, type, to, p, f, v, y)
<1> DEFINE x == MergeAt(depth, type, to, p)
           a == Get(p, f.name, << >>)
           q == With(p, f.name, Append(a, v))
           kept == Kept(type, to, p)
           k == Get(kept, f.name, << >>)
           e == MergeEntry(depth, type, kept, q, f.name)
<1>1. f.name \notin Cases(type) /\ Named(type, f.name) = f
  BY CasesIs, NamedIs
<1>2. e = k \o Append(a, v)
  <2>1. f.name \in DOMAIN q /\ q[f.name] = Append(a, v)
    <3>1. DOMAIN q = DOMAIN p \cup {f.name}
      BY WithDomain
    <3>2. q[f.name] = Append(a, v)
      <4> DEFINE w == Append(a, v)
      <4> HIDE DEF w
      <4>1. With(p, f.name, w)[f.name] = w
        BY WithAt
      <4> QED
        BY <4>1 DEF w
    <3> HIDE DEF q
    <3> QED
      BY <3>1, <3>2
  <2> HIDE DEF q, kept, a
  <2> QED
    BY <1>1, <2>1 DEF MergeEntry
<1>3. MergeAt(depth, type, to, q) = With(x, f.name, e)
  <2>1. Kept(type, to, q) = kept
    BY <1>1, KeptOther
  <2> QED
    BY <2>1, MergeWith
<1>4. k = Get(to, f.name, << >>)
  BY <1>1 DEF Kept, Get, Without
<1>5. Get(x, f.name, << >>) = k \o a
  <2>1. x = [n \in DOMAIN kept \cup DOMAIN p |-> MergeEntry(depth, type, kept, p, n)]
    <3>1. x = MergeOf(depth, type, to, p)
      BY MergeIs
    <3> QED
      BY <3>1, Zenon DEF MergeOf
  <2>2. k \in Seq(S)
    BY <1>4
  <2> HIDE DEF x, kept
  <2>3. CASE f.name \in DOMAIN p
    <3>1. x[f.name] = MergeEntry(depth, type, kept, p, f.name) /\ f.name \in DOMAIN x
      BY <2>1, <2>3
    <3>2. MergeEntry(depth, type, kept, p, f.name) = k \o p[f.name]
      BY <1>1, <2>3 DEF MergeEntry
    <3> QED
      BY <2>3, <3>1, <3>2 DEF Get
  <2>4. CASE f.name \notin DOMAIN p
    <3>1. a = << >>
      BY <2>4 DEF Get
    <3>2. k \o << >> = k
      BY <2>2, ConcatEmptySeq
    <3>3. Get(x, f.name, << >>) = k
      <4>1. CASE f.name \in DOMAIN kept
        <5>1. x[f.name] = MergeEntry(depth, type, kept, p, f.name) /\ f.name \in DOMAIN x
          BY <2>1, <4>1
        <5>2. MergeEntry(depth, type, kept, p, f.name) = kept[f.name]
          BY <2>4 DEF MergeEntry
        <5> QED
          BY <4>1, <5>1, <5>2 DEF Get
      <4>2. CASE f.name \notin DOMAIN kept
        <5>1. f.name \notin DOMAIN x
          BY <2>1, <2>4, <4>2
        <5> QED
          BY <4>2, <5>1 DEF Get
      <4> QED
        BY <4>1, <4>2
    <3> HIDE DEF k, a
    <3> QED
      BY <3>1, <3>2, <3>3
  <2> QED
    BY <2>3, <2>4
<1>6. Append(k \o a, v) = k \o Append(a, v)
  <2>1. k \in Seq(S) /\ a \in Seq(S)
    BY <1>4
  <2> HIDE DEF k, a
  <2>2. Append(k \o a, v) = (k \o a) \o << v >> /\ Append(a, v) = a \o << v >>
    BY <2>1, ConcatProperties, AppendIsConcat
  <2>3. << v >> \in Seq(S)
    OBVIOUS
  <2>4. (k \o a) \o << v >> = k \o (a \o << v >>)
    BY <2>1, <2>3, ConcatAssociative
  <2> QED
    BY <2>2, <2>4
<1>7. Store(type, x, f, v) = With(x, f.name, Append(Get(x, f.name, << >>), v))
  BY StoreIs
<1> HIDE DEF e, x, q, k, a
<1>8. Store(type, x, f, v) = MergeAt(depth, type, to, q)
  BY <1>2, <1>3, <1>5, <1>6, <1>7
<1> QED
  BY <1>8 DEF x, q, a, StoresAs

(* No case of the oneof was merged yet: those of `to` are as they were. *)
LEMMA CaseBefore ==
  ASSUME NEW depth \in 1 .. 5, NEW type, NEW to, NEW p, Cases(type) \cap DOMAIN p = {},
         NEW name \in Cases(type)
  PROVE  Get(MergeAt(depth, type, to, p), name, << >>) = Get(to, name, << >>)
<1> DEFINE x == MergeAt(depth, type, to, p)
<1>1. Kept(type, to, p) = to
  BY DEF Kept
<1>2. x = [n \in DOMAIN to \cup DOMAIN p |-> MergeEntry(depth, type, to, p, n)]
  <2>1. x = MergeOf(depth, type, to, p)
    BY MergeIs
  <2> QED
    BY <1>1, <2>1, Zenon DEF MergeOf
<1>3. name \notin DOMAIN p
  OBVIOUS
<1>4. MergeEntry(depth, type, to, p, name) = to[name]
  BY <1>3 DEF MergeEntry
<1> HIDE DEF x
<1>5. name \in DOMAIN x <=> name \in DOMAIN to
  BY <1>2, <1>3
<1>6. name \in DOMAIN to => x[name] = to[name]
  BY <1>2, <1>4
<1>7. Get(x, name, << >>) = Get(to, name, << >>)
  BY <1>5, <1>6 DEF Get
<1> QED
  BY <1>7 DEF x

(* A case of the oneof. *)
LEMMA StoredCase ==
  ASSUME NEW depth \in 1 .. 5, NEW type \in Types, NEW to, NEW p,
         NEW f \in ToSet(Fields[type]), f.label = "oneof", Cases(type) \cap DOMAIN p = {},
         NEW v, NEW w, w = MergeAt(depth - 1, f.kind, Get(to, f.name, << >>), v)
  PROVE  StoresAs(depth, type, to, p, f, w, v)
<1> DEFINE x == MergeAt(depth, type, to, p)
           q == With(p, f.name, v)
           name == f.name
           kept == Kept(type, to, q)
           cases == Cases(type)
<1>1. name \in cases /\ Named(type, name) = f
  BY CasesIs, NamedIs
<1>2. DOMAIN q = DOMAIN p \cup {name}
  BY WithDomain
<1>3. q[name] = v
  BY WithAt
<1>4. \A n \in DOMAIN p : n # name => q[n] = p[n]
  BY WithOther
<1>5. x = [n \in DOMAIN to \cup DOMAIN p |-> MergeEntry(depth, type, to, p, n)]
  <2>1. Kept(type, to, p) = to
    BY DEF Kept
  <2>2. x = MergeOf(depth, type, to, p)
    BY MergeIs
  <2> QED
    BY <2>1, <2>2, Zenon DEF MergeOf
<1>6. MergeAt(depth, type, to, q)
        = [n \in DOMAIN kept \cup DOMAIN q |-> MergeEntry(depth, type, kept, q, n)]
  <2> HIDE DEF q
  <2>1. MergeAt(depth, type, to, q) = MergeOf(depth, type, to, q)
    BY MergeIs
  <2> QED
    BY <2>1, Zenon DEF MergeOf
<1>7. Store(type, x, f, w) = With(Without(x, cases), name, w)
  BY StoreIs
<1>8. kept = Without(to, cases \ {name})
  <2>1. cases \cap DOMAIN q # {} /\ cases \ DOMAIN q = cases \ {name}
    BY <1>1, <1>2
  <2> HIDE DEF q
  <2> QED
    BY <2>1, Zenon DEF Kept
<1> HIDE DEF q, x, kept, cases, name
<1>9. DOMAIN kept = DOMAIN to \ (cases \ {name}) /\ \A n \in DOMAIN kept : kept[n] = to[n]
  BY <1>8 DEF Without
<1>10. DOMAIN kept \cup DOMAIN q = ((DOMAIN x) \ cases) \cup {name}
  BY <1>1, <1>2, <1>5, <1>9 DEF cases
<1>11. ASSUME NEW n \in DOMAIN kept \cup DOMAIN q, n # name
       PROVE  MergeEntry(depth, type, kept, q, n) = x[n] /\ n \in (DOMAIN x) \ cases
  <2>1. n \in (DOMAIN x) \ cases
    BY <1>10, <1>11
  <2>2. x[n] = MergeEntry(depth, type, to, p, n)
    BY <1>5, <2>1
  <2>3. n \in DOMAIN kept <=> n \in DOMAIN to
    BY <1>9, <2>1
  <2>4. CASE n \in DOMAIN p
    <3>1. n \in DOMAIN q /\ q[n] = p[n]
      BY <1>2, <1>4, <1>11, <2>4
    <3>2. Get(kept, n, << >>) = Get(to, n, << >>)
      BY <1>9, <2>3 DEF Get
    <3>3. n \notin Cases(type)
      BY <2>1 DEF cases
    <3>4. MergeEntry(depth, type, kept, q, n)
            = IF Named(type, n).label = "repeated" THEN Get(kept, n, << >>) \o q[n] ELSE q[n]
      BY <3>1, <3>3, Zenon DEF MergeEntry
    <3>5. MergeEntry(depth, type, to, p, n)
            = IF Named(type, n).label = "repeated" THEN Get(to, n, << >>) \o p[n] ELSE p[n]
      BY <2>4, <3>3, Zenon DEF MergeEntry
    <3> QED
      BY <2>1, <2>2, <3>1, <3>2, <3>4, <3>5
  <2>5. CASE n \notin DOMAIN p
    <3>1. n \notin DOMAIN q
      BY <1>2, <1>11, <2>5
    <3>2. MergeEntry(depth, type, kept, q, n) = kept[n]
      BY <3>1, Zenon DEF MergeEntry
    <3>3. MergeEntry(depth, type, to, p, n) = to[n]
      BY <2>5, Zenon DEF MergeEntry
    <3>4. kept[n] = to[n]
      BY <1>9, <1>11, <3>1
    <3> QED
      BY <2>1, <2>2, <3>2, <3>3, <3>4
  <2> QED
    BY <2>4, <2>5
<1>12. MergeEntry(depth, type, kept, q, name) = w
  <2>1. name \in DOMAIN q /\ q[name] = v
    BY <1>2, <1>3
  <2>2. name \in Cases(type)
    BY <1>1 DEF cases
  <2>3. MergeEntry(depth, type, kept, q, name)
          = MergeAt(depth - 1, Named(type, name).kind, Get(kept, name, << >>), q[name])
    BY <2>1, <2>2, Zenon DEF MergeEntry
  <2>4. Get(kept, name, << >>) = Get(to, name, << >>)
    BY <1>9 DEF Get
  <2> QED
    BY <1>1, <2>1, <2>3, <2>4 DEF name
<1> DEFINE y == Without(x, cases)
<1>13. DOMAIN y = (DOMAIN x) \ cases /\ \A n \in DOMAIN y : y[n] = x[n]
  BY DEF Without
<1> HIDE DEF y
<1>14. With(y, name, w) = [n \in DOMAIN y \cup {name} |-> IF n = name THEN w ELSE y[n]]
  BY DEF With
<1>15. MergeAt(depth, type, to, q) = With(y, name, w)
  <2>1. ASSUME NEW n \in DOMAIN kept \cup DOMAIN q
        PROVE  MergeEntry(depth, type, kept, q, n) = IF n = name THEN w ELSE y[n]
    BY <1>11, <1>12, <1>13
  <2> QED
    BY <1>6, <1>10, <1>13, <1>14, <2>1
<1>16. Store(type, x, f, w) = MergeAt(depth, type, to, q)
  BY <1>7, <1>15 DEF y
<1> QED
  BY <1>16 DEF x, q, name, StoresAs

-----------------------------------------------------------------------------
(* What was written is parsed into the merge.                              *)

(* What is written of a message is merged into what is there already. *)
Taken(depth) ==
  \A type \in Types : \A m, to :
    (MadeAt(depth, type, m) /\ MadeAt(depth, type, to) /\ Fits(WriteAt(depth, type, m).size)) =>
      \A r \in Seq(Byte) :
        Reaches(depth, type, Between(WriteAt(depth, type, m).bytes \o r, to),
                Between(r, MergeAt(depth, type, to, m)))

(* Bytes that are taken to their end are parsed into the merge.            *)
LEMMA ParsedInto ==
  ASSUME NEW depth \in 1 .. 5, Taken(depth), NEW type \in Types, NEW m, NEW to,
         MadeAt(depth, type, m), MadeAt(depth, type, to), Fits(WriteAt(depth, type, m).size)
  PROVE  ParseAt(depth, type, WriteAt(depth, type, m).bytes, to)
           = [ok |-> TRUE, msg |-> MergeAt(depth, type, to, m)]
<1> DEFINE w == WriteAt(depth, type, m)
           o == MergeAt(depth, type, to, m)
<1>1. w.bytes \in Seq(Byte)
  <2>1. WritesMeasured(depth)
    BY WriteMeasured
  <2>2. IsMeasured(w)
    BY <2>1 DEF WritesMeasured
  <2> QED
    BY <2>2 DEF IsMeasured
<1>2. Reaches(depth, type, Between(w.bytes \o << >>, to), Between(<< >>, o))
  <2>1. << >> \in Seq(Byte)
    BY EmptySeq
  <2> QED
    BY <2>1 DEF Taken
<1> HIDE DEF w, o
<1>3. w.bytes \o << >> = w.bytes
  BY <1>1, ConcatEmptySeq
<1>4. Reaches(depth, type, Between(w.bytes, to), Between(<< >>, o))
  BY <1>2, <1>3
<1>5. ParseAt(depth, type, w.bytes, to) = [ok |-> TRUE, msg |-> o]
  <2> DEFINE b == w.bytes
  <2>1. Reaches(depth, type, Between(b, to), Between(<< >>, o))
    BY <1>4
  <2> HIDE DEF b
  <2>2. ParseAt(depth, type, b, to) = [ok |-> TRUE, msg |-> o]
    BY <2>1, ReachesEnd
  <2> QED
    BY <2>2 DEF b
<1> QED
  BY <1>5 DEF w, o

(* A message without fields.                                               *)
LEMMA EmptyMade ==
  ASSUME NEW depth \in 1 .. 5, NEW type
  PROVE  MadeAt(depth, type, << >>)
<1>1. << >> = [n \in DOMAIN << >> |-> << >>[n]] /\ DOMAIN << >> = {}
  OBVIOUS
<1> DEFINE e == << >>
<1> HIDE DEF e
<1>2. e = [n \in DOMAIN e |-> e[n]] /\ DOMAIN e = {}
  BY <1>1 DEF e
<1>3. Made(depth, type, e)
  BY <1>2 DEF Made
<1> QED
  BY <1>3, MadeUnfold DEF e

(* What a value of field f is parsed into, in message x. *)
Got(depth, f, x, v) ==
  IF IsMessage(f.kind) THEN MergeAt(depth - 1, f.kind, Old(x, f), v) ELSE v

(* One field with a value v is taken in one step, into what Store makes of *)
(* it.                                                                     *)
LEMMA ValueTaken ==
  ASSUME NEW depth \in 1 .. 5, Taken(depth - 1), NEW type \in Types,
         NEW i \in 1 .. Len(Fields[type]), NEW f, f = Fields[type][i],
         NEW v, ValueMade(depth, f, v), NEW inner, inner = Inner(depth, f, v),
         Fits(Written(f, v, inner).size),
         NEW x, IsMessage(f.kind) => MadeAt(depth - 1, f.kind, Old(x, f)),
         NEW r \in Seq(Byte)
  PROVE  Reaches(depth, type, Between(Written(f, v, inner).bytes \o r, x),
                 Between(r, Store(type, x, f, Got(depth, f, x, v))))
<1>1. i \in 1 .. 6 /\ IsField(f, i) /\ f \in ToSet(Fields[type])
  BY FieldAt
<1>2. IsContent(f, v, inner)
  <2>1. depth - 1 \in 0 .. 5
    OBVIOUS
  <2>2. WritesMeasured(depth - 1)
    BY <2>1, WriteMeasured
  <2> QED
    BY <1>1, <2>2, InnerContent
<1>3. /\ Written(f, v, inner).size \in Nat
      /\ f.kind \notin {"varint", "fixed64"} =>
           inner.size \in Nat /\ inner.size <= Written(f, v, inner).size
  BY <1>1, <1>2, WrittenMeasured DEF IsMeasured
<1>4. f.kind \notin {"varint", "fixed64"} => Fits(inner.size)
  BY <1>3, FitsBelow
<1>5. IsReadable(f, v, inner)
  BY <1>2, <1>4 DEF IsReadable
<1> DEFINE b == Written(f, v, inner).bytes \o r
           s == Between(b, x)
           read == ReadField(type, b)
           parsed == InnerParse(depth, type, s)
           got == Got(depth, f, x, v)
           o == Store(type, x, f, got)
<1>6. /\ b \in Seq(Byte) /\ b # << >> /\ Len(r) < Len(b)
      /\ read.ok
      /\ read.fields = {f}
      /\ read.value = ValueRead(f, v, inner)
      /\ read.rest = r
  <2>1. b = Written(f, v, inner).bytes \o r
    OBVIOUS
  <2> HIDE DEF b
  <2>2. /\ b \in Seq(Byte) /\ b # << >> /\ Len(r) < Len(b)
        /\ ReadField(type, b).ok
        /\ ReadField(type, b).fields = {f}
        /\ ReadField(type, b).value = ValueRead(f, v, inner)
        /\ ReadField(type, b).rest = r
    <3>1. IsReadFrom(type, f, v, inner, r, b)
      BY <1>5, <2>1, FieldRead
    <3> QED
      BY <3>1 DEF IsReadFrom
  <2> HIDE DEF read
  <2> QED
    BY <2>2 DEF read
<1> HIDE DEF b
<1>7. s.ok = TRUE /\ s.rest = b /\ s.msg = x
  BY DEF Between
<1> HIDE DEF s, read
<1>8. (CHOOSE g \in {f} : TRUE) = f
  OBVIOUS
<1>9. parsed = IF IsMessage(f.kind) THEN ParseAt(depth - 1, f.kind, read.value, Old(x, f))
               ELSE [ok |-> TRUE, msg |-> read.value]
  <2> DEFINE rd == ReadField(type, s.rest)
             g == CHOOSE h \in rd.fields : TRUE
  <2>1. rd = read
    BY <1>7 DEF read
  <2>2. parsed = IF IsMessage(g.kind) THEN ParseAt(depth - 1, g.kind, rd.value, Old(s.msg, g))
                 ELSE [ok |-> TRUE, msg |-> rd.value]
    BY Zenon DEF InnerParse
  <2> HIDE DEF rd
  <2>3. g = f
    BY <1>6, <2>1
  <2> HIDE DEF g, parsed
  <2> QED
    BY <1>7, <2>1, <2>2, <2>3
<1> HIDE DEF parsed
<1>10. parsed = [ok |-> TRUE, msg |-> got]
  <2>1. CASE f.kind \in {"varint", "fixed64", "bytes"} /\ ~IsMessage(f.kind)
    <3>1. got = v
      BY <2>1 DEF Got
    <3>2. ValueRead(f, v, inner) = v
      <4>1. CASE f.kind \in {"varint", "fixed64"}
        BY <4>1 DEF ValueRead
      <4>2. CASE f.kind \notin {"varint", "fixed64"}
        <5>1. inner = [size |-> Len(v), bytes |-> v]
          BY <2>1 DEF Inner
        <5> QED
          BY <4>2, <5>1 DEF ValueRead
      <4> QED
        BY <4>1, <4>2
    <3> QED
      BY <1>6, <1>9, <2>1, <3>1, <3>2
  <2>2. CASE f.kind \in Types /\ IsMessage(f.kind)
    <3>1. f.kind \notin {"varint", "fixed64", "bytes"}
      BY <2>2 DEF Types
    <3>2. MadeAt(depth - 1, f.kind, v)
      BY <3>1 DEF ValueMade
    <3>3. depth - 1 \in 1 .. 5
      <4>1. depth = 1 \/ depth - 1 \in 1 .. 5
        OBVIOUS
      <4>2. depth # 1
        <5>1. ASSUME depth - 1 = 0 PROVE ~MadeAt(depth - 1, f.kind, v)
          BY <5>1 DEF MadeAt
        <5> QED
          BY <3>2, <5>1
      <4> QED
        BY <4>1, <4>2
    <3>4. inner = WriteAt(depth - 1, f.kind, v)
      BY <2>2 DEF Inner
    <3>5. ValueRead(f, v, inner) = inner.bytes /\ Fits(inner.size)
      BY <1>4, <3>1 DEF ValueRead
    <3>6. got = MergeAt(depth - 1, f.kind, Old(x, f), v)
      BY <2>2 DEF Got
    <3>7. MadeAt(depth - 1, f.kind, Old(x, f))
      BY <2>2
    <3> DEFINE d == depth - 1
    <3>8. ParseAt(d, f.kind, WriteAt(d, f.kind, v).bytes, Old(x, f))
            = [ok |-> TRUE, msg |-> MergeAt(d, f.kind, Old(x, f), v)]
      <4>1. d \in 1 .. 5 /\ Taken(d) /\ MadeAt(d, f.kind, v) /\ MadeAt(d, f.kind, Old(x, f))
            /\ Fits(WriteAt(d, f.kind, v).size)
        BY <3>2, <3>3, <3>4, <3>5, <3>7
      <4>2. f.kind \in Types
        BY <2>2
      <4> HIDE DEF d
      <4> QED
        BY <4>1, <4>2, ParsedInto
    <3> HIDE DEF got
    <3> QED
      BY <1>6, <1>9, <2>2, <3>4, <3>5, <3>6, <3>8
  <2> QED
    BY <1>1, <2>1, <2>2, FieldKinds
<1> HIDE DEF got
<1>11. TakeField(type, s, parsed) = Between(r, o)
  <2>1. parsed.ok /\ parsed.msg = got
    BY <1>10
  <2>2. read.fields # {} /\ (CHOOSE g \in read.fields : TRUE) = f
    BY <1>6, <1>8
  <2>3. TakeField(type, s, parsed)
          = [ok |-> TRUE, rest |-> read.rest,
             msg |-> Store(type, s.msg, CHOOSE g \in read.fields : TRUE, parsed.msg)]
    BY <1>6, <1>7, <2>1, <2>2, Zenon DEF TakeField, read
  <2> QED
    BY <1>6, <1>7, <2>1, <2>2, <2>3 DEF Between
<1>12. StepFrom(depth, type, s) = Between(r, o)
  BY <1>6, <1>7, <1>11, Zenon DEF StepFrom, parsed
<1>13. Between(r, o).rest = r
  BY DEF Between
<1> HIDE DEF o
<1>14. Reaches(depth, type, s, Between(r, o))
  BY <1>6, <1>7, <1>12, <1>13, ReachesStep
<1> QED
  BY <1>14 DEF s, b, o, got

(* The first i fields of a message, and with them the first j values of    *)
(* the next.                                                               *)
Prefix(type, m, i) ==
  [n \in {Fields[type][k].name : k \in 1 .. i} \cap DOMAIN m |-> m[n]]

(* The first i fields of m, and of the next one the first j values.        *)
PartOf(type, m, i, j) ==
  LET f == Fields[type][i + 1] IN
  IF j = 0 THEN Prefix(type, m, i)
  ELSE With(Prefix(type, m, i), f.name,
            IF f.label = "repeated" THEN SubSeq(m[f.name], 1, j) ELSE m[f.name])

(* The first i + 1 fields are the first i and the next.                    *)
LEMMA PrefixIs ==
  ASSUME NEW type \in Types, NEW m, NEW i \in 0 .. Len(Fields[type]) - 1,
         NEW f, f = Fields[type][i + 1]
  PROVE  /\ f.name \notin DOMAIN Prefix(type, m, i)
         /\ DOMAIN Prefix(type, m, i) \subseteq DOMAIN m
         /\ f.name \notin DOMAIN m => Prefix(type, m, i + 1) = Prefix(type, m, i)
         /\ f.name \in DOMAIN m =>
              Prefix(type, m, i + 1) = With(Prefix(type, m, i), f.name, m[f.name])
<1> DEFINE names(n) == {Fields[type][k].name : k \in 1 .. n}
           p == Prefix(type, m, i)
           q == Prefix(type, m, i + 1)
<1>0. Len(Fields[type]) \in 1 .. 6
  BY Table
<1>1. PICK l \in 1 .. 6 : l = Len(Fields[type])
  BY <1>0
<1>2. f.name \notin names(i)
  <2>1. ASSUME NEW k \in 1 .. i, Fields[type][k].name = f.name PROVE FALSE
    <3>1. k \in 1 .. l /\ i + 1 \in 1 .. l /\ k # i + 1
      BY <1>1
    <3>2. \A a, b \in 1 .. l : Fields[type][a].name = Fields[type][b].name => a = b
      BY <1>1, Table
    <3> QED
      BY <2>1, <3>1, <3>2
  <2> QED
    BY <2>1
<1>3. names(i + 1) = names(i) \cup {f.name}
  <2>1. 1 .. i + 1 = (1 .. i) \cup {i + 1}
    BY <1>1
  <2> QED
    BY <2>1
<1>4. p = [n \in names(i) \cap DOMAIN m |-> m[n]]
  BY DEF Prefix
<1>5. q = [n \in names(i + 1) \cap DOMAIN m |-> m[n]]
  BY DEF Prefix
<1> HIDE DEF names, p, q
<1>6. f.name \notin DOMAIN p /\ DOMAIN p \subseteq DOMAIN m
  BY <1>2, <1>4
<1>7. ASSUME f.name \notin DOMAIN m PROVE q = p
  <2>1. names(i + 1) \cap DOMAIN m = names(i) \cap DOMAIN m
    BY <1>3, <1>7
  <2> QED
    BY <1>4, <1>5, <2>1
<1>8. ASSUME f.name \in DOMAIN m PROVE q = With(p, f.name, m[f.name])
  <2>1. With(p, f.name, m[f.name])
          = [n \in DOMAIN p \cup {f.name} |-> IF n = f.name THEN m[f.name] ELSE p[n]]
    BY DEF With
  <2>2. DOMAIN p \cup {f.name} = names(i + 1) \cap DOMAIN m
    BY <1>3, <1>4, <1>8
  <2>3. ASSUME NEW n \in DOMAIN p \cup {f.name}
        PROVE  (IF n = f.name THEN m[f.name] ELSE p[n]) = m[n]
    BY <1>4
  <2> QED
    BY <1>5, <2>1, <2>2, <2>3
<1> QED
  BY <1>6, <1>7, <1>8 DEF p, q

(* The first 0 fields are none.                                            *)
LEMMA PrefixFirst ==
  ASSUME NEW type, NEW m
  PROVE  DOMAIN Prefix(type, m, 0) = {}
<1>1. 1 .. 0 = {}
  OBVIOUS
<1> QED
  BY <1>1 DEF Prefix

(* All fields are the message.                                             *)
LEMMA PrefixLast ==
  ASSUME NEW depth \in 1 .. 5, NEW type \in Types, NEW m, MadeAt(depth, type, m)
  PROVE  Prefix(type, m, Len(Fields[type])) = m
<1> DEFINE names == {Fields[type][k].name : k \in 1 .. Len(Fields[type])}
<1>1. m = [n \in DOMAIN m |-> m[n]] /\ DOMAIN m \subseteq {f.name : f \in ToSet(Fields[type])}
  BY MadeUnfold DEF Made
<1>2. ToSet(Fields[type]) = {Fields[type][k] : k \in 1 .. Len(Fields[type])}
  BY Table
<1>3. DOMAIN m \subseteq names
  BY <1>1, <1>2
<1>4. Prefix(type, m, Len(Fields[type])) = [n \in names \cap DOMAIN m |-> m[n]]
  BY DEF Prefix
<1> HIDE DEF names
<1>5. names \cap DOMAIN m = DOMAIN m
  BY <1>3
<1> QED
  BY <1>1, <1>4, <1>5

(* What is set last counts.                                                *)
LEMMA WithAgain ==
  ASSUME NEW p, NEW name, NEW y, NEW z
  PROVE  With(With(p, name, y), name, z) = With(p, name, z)
<1> DEFINE q == With(p, name, y)
<1>1. DOMAIN q = DOMAIN p \cup {name}
  BY WithDomain
<1>2. \A n \in DOMAIN p : n # name => q[n] = p[n]
  BY WithOther
<1> HIDE DEF q
<1>3. With(q, name, z) = [n \in DOMAIN q \cup {name} |-> IF n = name THEN z ELSE q[n]]
  BY DEF With
<1>4. With(p, name, z) = [n \in DOMAIN p \cup {name} |-> IF n = name THEN z ELSE p[n]]
  BY DEF With
<1>5. With(q, name, z) = With(p, name, z)
  BY <1>1, <1>2, <1>3, <1>4
<1> QED
  BY <1>5 DEF q

(* A list grows by its next element.                                       *)
LEMMA SubSeqNext ==
  ASSUME NEW S, NEW s \in Seq(S), NEW j \in 0 .. Len(s) - 1
  PROVE  /\ SubSeq(s, 1, j) \in Seq(S)
         /\ Append(SubSeq(s, 1, j), s[j + 1]) = SubSeq(s, 1, j + 1)
         /\ SubSeq(s, 1, 0) = << >>
         /\ SubSeq(s, 1, Len(s)) = s
<1>1. PICK l \in Nat : l = Len(s)
  BY LenProperties
<1>2. \A k \in 1 .. l : s[k] \in S
  BY <1>1, ElementOfSeq
<1>3. ASSUME NEW k \in 0 .. l
      PROVE  /\ SubSeq(s, 1, k) \in Seq(S)
             /\ Len(SubSeq(s, 1, k)) = k
             /\ \A a \in 1 .. k : SubSeq(s, 1, k)[a] = s[a]
  <2>1. \A a \in 1 .. k : s[a] \in S
    BY <1>2
  <2>2. /\ SubSeq(s, 1, k) \in Seq(S)
        /\ Len(SubSeq(s, 1, k)) = IF 1 <= k THEN k - 1 + 1 ELSE 0
        /\ \A a \in 1 .. k - 1 + 1 : SubSeq(s, 1, k)[a] = s[1 + a - 1]
    BY <2>1, SubSeqProperties
  <2>3. (IF 1 <= k THEN k - 1 + 1 ELSE 0) = k
    OBVIOUS
  <2>4. \A a \in 1 .. k : a \in 1 .. k - 1 + 1 /\ 1 + a - 1 = a
    OBVIOUS
  <2> QED
    BY <2>2, <2>3, <2>4
<1> DEFINE a == SubSeq(s, 1, j)
           b == SubSeq(s, 1, j + 1)
<1>4. j \in 0 .. l /\ j + 1 \in 0 .. l /\ j + 1 \in 1 .. l
  BY <1>1
<1>5. a \in Seq(S) /\ Len(a) = j /\ \A k \in 1 .. j : a[k] = s[k]
  BY <1>3, <1>4
<1>6. b \in Seq(S) /\ Len(b) = j + 1 /\ \A k \in 1 .. j + 1 : b[k] = s[k]
  BY <1>3, <1>4
<1> HIDE DEF a, b
<1>7. Append(a, s[j + 1]) = b
  <2> DEFINE c == Append(a, s[j + 1])
  <2>1. s[j + 1] \in S
    BY <1>2, <1>4
  <2>2. /\ c \in Seq(S)
        /\ Len(c) = Len(a) + 1
        /\ \A k \in 1 .. Len(a) : c[k] = a[k]
        /\ c[Len(a) + 1] = s[j + 1]
    BY <1>5, <2>1, AppendProperties
  <2> HIDE DEF c
  <2>3. ASSUME NEW k \in 1 .. j + 1 PROVE c[k] = b[k]
    <3>1. CASE k = j + 1
      BY <1>5, <1>6, <2>2, <3>1
    <3>2. CASE k # j + 1
      <4>1. k \in 1 .. j
        BY <3>2
      <4> QED
        BY <1>5, <1>6, <2>2, <4>1
    <3> QED
      BY <3>1, <3>2
  <2>4. Len(c) = j + 1
    BY <1>5, <2>2
  <2>5. c = b
    BY <1>6, <2>2, <2>3, <2>4, SeqEqual
  <2> QED
    BY <2>5 DEF c
<1>8. SubSeq(s, 1, 0) = << >>
  <2>1. 0 \in 0 .. l
    BY <1>1
  <2>2. SubSeq(s, 1, 0) \in Seq(S) /\ Len(SubSeq(s, 1, 0)) = 0
    BY <1>3, <2>1
  <2> QED
    BY <2>2, EmptySeq
<1>9. SubSeq(s, 1, l) = s
  <2>1. l \in 0 .. l
    BY <1>1
  <2>2. /\ SubSeq(s, 1, l) \in Seq(S)
        /\ Len(SubSeq(s, 1, l)) = l
        /\ \A k \in 1 .. l : SubSeq(s, 1, l)[k] = s[k]
    BY <1>3, <2>1
  <2> QED
    BY <1>1, <2>2, SeqEqual
<1> QED
  BY <1>1, <1>5, <1>7, <1>8, <1>9 DEF a, b

(* The cases of PartOf.                                                    *)
LEMMA PartIs ==
  ASSUME NEW type, NEW m, NEW i, NEW f, f = Fields[type][i + 1], NEW j \in Nat
  PROVE  /\ j = 0 => PartOf(type, m, i, j) = Prefix(type, m, i)
         /\ j # 0 /\ f.label = "repeated" =>
              PartOf(type, m, i, j) = With(Prefix(type, m, i), f.name, SubSeq(m[f.name], 1, j))
         /\ j # 0 /\ f.label # "repeated" =>
              PartOf(type, m, i, j) = With(Prefix(type, m, i), f.name, m[f.name])
BY Zenon DEF PartOf

(* The list of a field is what is there of it in a part of m.              *)
IsListPart(m, f, j, p, z, q) ==
  /\ Get(p, f.name, << >>) = SubSeq(m[f.name], 1, j)
  /\ With(p, f.name, z) = With(q, f.name, z)

(* A part of m has the first j values of the list.                         *)
LEMMA PartListed ==
  ASSUME NEW type \in Types, NEW m, NEW i \in 0 .. Len(Fields[type]) - 1,
         NEW f, f = Fields[type][i + 1], f.label = "repeated",
         NEW S, m[f.name] \in Seq(S), NEW j \in 0 .. Len(m[f.name]) - 1,
         NEW p, p = PartOf(type, m, i, j), NEW z
  PROVE  IsListPart(m, f, j, p, z, Prefix(type, m, i))
<1> DEFINE q == Prefix(type, m, i)
           name == f.name
           s == m[name]
<1>1. name \notin DOMAIN q
  BY PrefixIs
<1>2. s \in Seq(S)
  OBVIOUS
<1>3. CASE j = 0
  <2>1. p = q
    BY <1>3, PartIs
  <2>2. Get(p, name, << >>) = << >>
    BY <1>1, <2>1 DEF Get
  <2>3. j \in 0 .. Len(s) - 1
    OBVIOUS
  <2> HIDE DEF s, q
  <2>4. SubSeq(s, 1, 0) = << >>
    BY <1>2, <2>3, SubSeqNext
  <2> QED
    BY <1>3, <2>1, <2>2, <2>4 DEF s, q, IsListPart
<1>4. CASE j # 0
  <2> DEFINE y == SubSeq(s, 1, j)
  <2>0. j \in Nat
    <3>1. Len(s) \in Nat
      BY <1>2, LenProperties
    <3> QED
      BY <3>1
  <2>1. p = With(q, name, y)
    BY <1>4, <2>0, PartIs
  <2> HIDE DEF y, q, name
  <2>2. DOMAIN p = DOMAIN q \cup {name} /\ p[name] = y
    <3>1. DOMAIN With(q, name, y) = DOMAIN q \cup {name}
      BY WithDomain
    <3>2. With(q, name, y)[name] = y
      BY WithAt
    <3> QED
      BY <2>1, <3>1, <3>2
  <2>3. Get(p, name, << >>) = y
    BY <2>2 DEF Get
  <2>4. With(p, name, z) = With(q, name, z)
    BY <2>1, WithAgain
  <2> QED
    BY <2>3, <2>4 DEF y, q, name, IsListPart
<1> QED
  BY <1>3, <1>4 DEF IsListPart

(* The values of a field, and the field itself. *)
LEMMA ValuesAre ==
  ASSUME NEW depth \in 1 .. 5, NEW type, NEW m, MadeAt(depth, type, m),
         NEW f \in ToSet(Fields[type]), NEW j \in 0 .. Len(Values(m, f)) - 1
  PROVE  /\ f.name \in DOMAIN m
         /\ f.label = "repeated" => /\ Values(m, f) = m[f.name]
                                    /\ m[f.name] \in Seq(ToSet(m[f.name]))
         /\ f.label # "repeated" => /\ j = 0
                                    /\ Values(m, f)[j + 1] = m[f.name]
                                    /\ f.label = "implicit" => m[f.name] # Default(f.kind)
<1>1. f.name \in DOMAIN m
  <2>1. ASSUME f.name \notin DOMAIN m PROVE FALSE
    <3>1. Values(m, f) = << >>
      BY <2>1 DEF Values
    <3>2. Len(Values(m, f)) = 0
      BY <3>1, EmptySeq
    <3> QED
      BY <3>2
  <2> QED
    BY <2>1
<1>2. FieldMade(depth, f, m[f.name])
  BY <1>1, MadeUnfold DEF Made
<1>3. CASE f.label = "repeated"
  <2>1. Values(m, f) = m[f.name]
    BY <1>1, <1>3 DEF Values
  <2>2. m[f.name] \in Seq(ToSet(m[f.name]))
    BY <1>2, <1>3 DEF FieldMade
  <2> QED
    BY <1>1, <1>3, <2>1, <2>2
<1>4. CASE f.label # "repeated"
  <2>1. Values(m, f) = << m[f.name] >>
    BY <1>1, <1>4 DEF Values
  <2>2. Len(Values(m, f)) = 1
    BY <2>1
  <2>3. j = 0
    BY <2>2
  <2>4. Values(m, f)[j + 1] = m[f.name]
    BY <2>1, <2>3
  <2>5. f.label = "implicit" => m[f.name] # Default(f.kind)
    BY <1>2, <1>4 DEF FieldMade
  <2> QED
    BY <1>1, <1>4, <2>3, <2>4, <2>5
<1> QED
  BY <1>3, <1>4

(* At most one case of the oneof is there. *)
LEMMA NoCaseBefore ==
  ASSUME NEW depth \in 1 .. 5, NEW type \in Types, NEW m, MadeAt(depth, type, m),
         NEW i \in 0 .. Len(Fields[type]) - 1, NEW f, f = Fields[type][i + 1],
         f \in ToSet(Fields[type]), f.label = "oneof", f.name \in DOMAIN m
  PROVE  Cases(type) \cap DOMAIN Prefix(type, m, i) = {}
<1> DEFINE q == Prefix(type, m, i)
<1>1. f.name \notin DOMAIN q /\ DOMAIN q \subseteq DOMAIN m
  BY PrefixIs
<1>2. f.name \in Cases(type)
  BY CasesIs
<1>3. \A n, o \in Cases(type) \cap DOMAIN m : n = o
  BY MadeUnfold DEF Made
<1> HIDE DEF q
<1>4. Cases(type) \cap DOMAIN q = {}
  BY <1>1, <1>2, <1>3
<1> QED
  BY <1>4 DEF q

(* A message of the level below has a depth.                               *)
LEMMA DepthBelow ==
  ASSUME NEW depth \in 1 .. 5, NEW type, NEW m, MadeAt(depth - 1, type, m)
  PROVE  depth - 1 \in 1 .. 5
<1>1. depth - 1 = 0 \/ depth - 1 \in 1 .. 5
  OBVIOUS
<1>2. ~MadeAt(0, type, m)
  BY DEF MadeAt
<1> QED
  BY <1>1, <1>2

(* What the value of a case is merged into. *)
LEMMA CaseMade ==
  ASSUME NEW depth \in 1 .. 5, NEW type \in Types, NEW to, MadeAt(depth, type, to),
         NEW f \in ToSet(Fields[type]), f.label = "oneof", f.kind \in Types,
         depth - 1 \in 1 .. 5
  PROVE  MadeAt(depth - 1, f.kind, Get(to, f.name, << >>))
<1>1. CASE f.name \in DOMAIN to
  <2>1. FieldMade(depth, f, to[f.name])
    BY <1>1, MadeUnfold DEF Made
  <2>2. ValueMade(depth, f, to[f.name])
    BY <2>1 DEF FieldMade
  <2>3. f.kind \notin {"varint", "fixed64", "bytes"}
    BY DEF Types
  <2>4. MadeAt(depth - 1, f.kind, to[f.name])
    BY <2>2, <2>3 DEF ValueMade
  <2> QED
    BY <1>1, <2>4 DEF Get
<1>2. CASE f.name \notin DOMAIN to
  <2>1. Get(to, f.name, << >>) = << >>
    BY <1>2 DEF Get
  <2> DEFINE d == depth - 1
  <2>2. d \in 1 .. 5
    OBVIOUS
  <2> HIDE DEF d
  <2>3. MadeAt(d, f.kind, << >>)
    BY <2>2, EmptyMade
  <2> QED
    BY <2>1, <2>3 DEF d
<1> QED
  BY <1>1, <1>2

(* Where the parser is in a message m: it goes on with value j + 1 of the  *)
(* field f of number i + 1.                                                *)
IsAt(depth, type, m, to, i, f, j) ==
  /\ type \in Types /\ MadeAt(depth, type, m) /\ MadeAt(depth, type, to)
  /\ i \in 0 .. Len(Fields[type]) - 1
  /\ f = Fields[type][i + 1]
  /\ j \in 0 .. Len(Values(m, f)) - 1

(* What IsAt says of the field.                                            *)
LEMMA AtField ==
  ASSUME NEW depth \in 1 .. 5, NEW type, NEW m, NEW to, NEW i, NEW f, NEW j,
         IsAt(depth, type, m, to, i, f, j)
  PROVE  /\ i + 1 \in 1 .. Len(Fields[type]) /\ i + 1 \in 1 .. 6
         /\ IsField(f, i + 1)
         /\ f \in ToSet(Fields[type])
         /\ j \in Nat /\ j + 1 \in Nat /\ j + 1 # 0
         /\ ValueMade(depth, f, Values(m, f)[j + 1])
<1>1. Len(Fields[type]) \in 1 .. 6
  BY Table DEF IsAt
<1>2. i + 1 \in 1 .. Len(Fields[type])
  BY <1>1 DEF IsAt
<1>3. i + 1 \in 1 .. 6 /\ IsField(f, i + 1) /\ f \in ToSet(Fields[type])
  BY <1>2, FieldAt DEF IsAt
<1>4. Len(Values(m, f)) \in Nat
      /\ \A k \in 1 .. Len(Values(m, f)) : ValueMade(depth, f, Values(m, f)[k])
  BY <1>3, ValuesMade DEF IsAt
<1>5. j \in Nat /\ j + 1 \in 1 .. Len(Values(m, f))
  BY <1>4 DEF IsAt
<1> QED
  BY <1>2, <1>3, <1>4, <1>5

(* What a sub-message is parsed into is a message.                         *)
LEMMA OldMade ==
  ASSUME NEW depth \in 1 .. 5, NEW type, NEW m, NEW to, NEW i, NEW f, NEW j,
         IsAt(depth, type, m, to, i, f, j), IsMessage(f.kind),
         NEW x, x = MergeAt(depth, type, to, PartOf(type, m, i, j))
  PROVE  MadeAt(depth - 1, f.kind, Old(x, f))
<1>0. type \in Types /\ MadeAt(depth, type, m) /\ MadeAt(depth, type, to)
      /\ i \in 0 .. Len(Fields[type]) - 1 /\ f = Fields[type][i + 1]
      /\ j \in 0 .. Len(Values(m, f)) - 1
  BY DEF IsAt
<1>1. IsField(f, i + 1) /\ f \in ToSet(Fields[type]) /\ j \in Nat
      /\ ValueMade(depth, f, Values(m, f)[j + 1])
  BY AtField
<1>2. f.kind \in Types /\ f.label \in {"repeated", "oneof"}
  <2>1. f.kind \in Types
    BY <1>1, FieldKinds
  <2>2. f.kind \notin {"varint", "fixed64", "bytes"}
    BY <2>1 DEF Types
  <2> QED
    BY <1>1, <2>1, <2>2 DEF IsField
<1>3. depth - 1 \in 1 .. 5
  <2>1. f.kind \notin {"varint", "fixed64", "bytes"}
    BY <1>2 DEF Types
  <2>2. MadeAt(depth - 1, f.kind, Values(m, f)[j + 1])
    BY <1>1, <2>1 DEF ValueMade
  <2> QED
    BY <2>2, DepthBelow
<1>4. CASE f.label = "repeated"
  <2>1. Old(x, f) = << >>
    BY <1>4 DEF Old
  <2> DEFINE d == depth - 1
  <2>2. d \in 1 .. 5
    BY <1>3
  <2> HIDE DEF d
  <2>3. MadeAt(d, f.kind, << >>)
    BY <2>2, EmptyMade
  <2> QED
    BY <2>1, <2>3 DEF d
<1>5. CASE f.label = "oneof"
  <2>1. f.name \in DOMAIN m /\ j = 0
    BY <1>0, <1>1, <1>5, ValuesAre
  <2>2. Cases(type) \cap DOMAIN Prefix(type, m, i) = {}
    BY <1>0, <1>1, <1>5, <2>1, NoCaseBefore
  <2>3. PartOf(type, m, i, j) = Prefix(type, m, i)
    BY <1>0, <1>1, <2>1, PartIs
  <2>4. f.name \in Cases(type)
    BY <1>0, <1>1, <1>5, CasesIs
  <2>5. Get(x, f.name, << >>) = Get(to, f.name, << >>)
    BY <2>2, <2>3, <2>4, CaseBefore
  <2>6. Old(x, f) = Get(x, f.name, << >>)
    BY <1>5 DEF Old
  <2>7. MadeAt(depth - 1, f.kind, Get(to, f.name, << >>))
    BY <1>0, <1>1, <1>2, <1>3, <1>5, CaseMade
  <2> QED
    BY <2>5, <2>6, <2>7
<1> QED
  BY <1>2, <1>4, <1>5

(* Storing value j + 1 in the merge of the parts before is the merge of    *)
(* one part more.                                                          *)
LEMMA StoredNext ==
  ASSUME NEW depth \in 1 .. 5, NEW type, NEW m, NEW to, NEW i, NEW f, NEW j,
         IsAt(depth, type, m, to, i, f, j),
         NEW v, v = Values(m, f)[j + 1],
         NEW x, x = MergeAt(depth, type, to, PartOf(type, m, i, j))
  PROVE  Store(type, x, f, Got(depth, f, x, v)) = MergeAt(depth, type, to, PartOf(type, m, i, j + 1))
<1>0. type \in Types /\ MadeAt(depth, type, m) /\ MadeAt(depth, type, to)
      /\ i \in 0 .. Len(Fields[type]) - 1 /\ f = Fields[type][i + 1]
      /\ j \in 0 .. Len(Values(m, f)) - 1
  BY DEF IsAt
<1>1. IsField(f, i + 1) /\ f \in ToSet(Fields[type]) /\ j \in Nat /\ j + 1 \in Nat /\ j + 1 # 0
      /\ ValueMade(depth, f, v)
  BY AtField
<1> DEFINE q == Prefix(type, m, i)
           p == PartOf(type, m, i, j)
           name == f.name
<1>2. name \in DOMAIN m
  BY <1>0, <1>1, ValuesAre
<1>3. CASE f.label = "repeated"
  <2> DEFINE s == m[name]
             S == ToSet(s) \cup ToSet(Get(to, name, << >>))
             a == SubSeq(s, 1, j)
  <2>1. Values(m, f) = s /\ s \in Seq(ToSet(s))
    BY <1>0, <1>1, <1>3, ValuesAre
  <2>2. Get(to, name, << >>) \in Seq(ToSet(Get(to, name, << >>)))
    <3>1. CASE name \in DOMAIN to
      <4>1. FieldMade(depth, f, to[name])
        BY <1>0, <1>1, <3>1, MadeUnfold DEF Made
      <4>2. to[name] \in Seq(ToSet(to[name]))
        BY <1>3, <4>1 DEF FieldMade
      <4> QED
        BY <3>1, <4>2 DEF Get
    <3>2. CASE name \notin DOMAIN to
      <4>1. Get(to, name, << >>) = << >>
        BY <3>2 DEF Get
      <4> QED
        BY <4>1, EmptySeq
    <3> QED
      BY <3>1, <3>2
  <2>3. s \in Seq(S) /\ Get(to, name, << >>) \in Seq(S)
    <3> DEFINE t == Get(to, name, << >>)
               A == ToSet(s)
               B == ToSet(t)
    <3> HIDE DEF A, B, t, s
    <3>1. s \in Seq(A) /\ t \in Seq(B)
      BY <2>1, <2>2 DEF A, B, t
    <3>2. s \in Seq(A \cup B) /\ t \in Seq(A \cup B)
      BY <3>1
    <3> QED
      BY <3>2 DEF A, B, t
  <2>4. v = s[j + 1] /\ j \in 0 .. Len(s) - 1
    BY <1>0, <2>1
  <2> HIDE DEF S
  <2>5. Get(p, name, << >>) = a /\ With(p, name, Append(a, v)) = With(q, name, Append(a, v))
    <3>1. m[f.name] \in Seq(S) /\ j \in 0 .. Len(m[f.name]) - 1
      BY <2>3, <2>4
    <3> DEFINE z == Append(a, v)
    <3> HIDE DEF z, p
    <3>2. p = PartOf(type, m, i, j)
      BY DEF p
    <3>3. IsListPart(m, f, j, p, z, Prefix(type, m, i))
      BY <1>0, <1>3, <3>1, <3>2, PartListed
    <3> QED
      BY <3>3 DEF IsListPart, z
  <2>7. PartOf(type, m, i, j + 1) = With(q, name, SubSeq(s, 1, j + 1))
    <3> DEFINE k == j + 1
    <3>1. k \in Nat /\ k # 0
      BY <1>1
    <3> HIDE DEF k
    <3>2. PartOf(type, m, i, k) = With(q, name, SubSeq(s, 1, k))
      BY <1>0, <1>3, <3>1, PartIs
    <3> QED
      BY <3>2 DEF k
  <2> HIDE DEF s
  <2>8. a \in Seq(S) /\ Append(a, v) = SubSeq(s, 1, j + 1)
    BY <2>3, <2>4, SubSeqNext
  <2>9. v \in S
    <3>1. Len(s) \in Nat
      BY <2>3, LenProperties
    <3>2. j + 1 \in 1 .. Len(s)
      BY <2>4, <3>1
    <3> QED
      BY <2>3, <2>4, <3>2, ElementOfSeq
  <2>10. Got(depth, f, x, v) = v
    <3>1. CASE IsMessage(f.kind)
      <4>1. f.kind \in Types
        BY <1>1, <3>1, FieldKinds
      <4>2. f.kind \notin {"varint", "fixed64", "bytes"}
        BY <4>1 DEF Types
      <4>3. MadeAt(depth - 1, f.kind, v)
        BY <1>1, <4>2 DEF ValueMade
      <4>4. Old(x, f) = << >>
        BY <1>3 DEF Old
      <4> DEFINE d == depth - 1
      <4>5. d \in 0 .. 5
        OBVIOUS
      <4> HIDE DEF d
      <4>6. MergesToItself(d)
        BY <4>5, MergeIntoEmpty
      <4>7. MergeAt(d, f.kind, << >>, v) = v
        BY <4>1, <4>3, <4>6 DEF MergesToItself, d
      <4>8. Got(depth, f, x, v) = MergeAt(depth - 1, f.kind, Old(x, f), v)
        BY <3>1 DEF Got
      <4> QED
        BY <4>4, <4>7, <4>8 DEF d
    <3>2. CASE ~IsMessage(f.kind)
      BY <3>2 DEF Got
    <3> QED
      BY <3>1, <3>2
  <2>11. Store(type, x, f, v)
           = MergeAt(depth, type, to, With(p, name, Append(Get(p, name, << >>), v)))
    <3>1. Get(p, f.name, << >>) \in Seq(S)
      BY <2>5, <2>8
    <3> HIDE DEF p
    <3>2. x = MergeAt(depth, type, to, p)
      BY DEF p
    <3> DEFINE z == Append(Get(p, f.name, << >>), v)
    <3>3. z = Append(Get(p, f.name, << >>), v)
      OBVIOUS
    <3> HIDE DEF z
    <3>4. StoresAs(depth, type, to, p, f, v, z)
      BY <1>0, <1>1, <1>3, <2>3, <2>9, <3>1, <3>3, StoredListed
    <3> QED
      BY <3>2, <3>4 DEF StoresAs, z
  <2> HIDE DEF a, p, q
  <2> QED
    BY <2>5, <2>7, <2>8, <2>10, <2>11
<1>4. CASE f.label # "repeated"
  <2>1. j = 0 /\ v = m[name] /\ (f.label = "implicit" => v # Default(f.kind))
    BY <1>0, <1>1, <1>4, ValuesAre
  <2>2. p = q
    BY <1>0, <1>1, <2>1, PartIs
  <2>3. PartOf(type, m, i, j + 1) = With(q, name, v)
    <3> DEFINE k == j + 1
    <3>1. k \in Nat /\ k # 0
      BY <1>1
    <3> HIDE DEF k
    <3>2. PartOf(type, m, i, k) = With(q, name, m[name])
      BY <1>0, <1>4, <3>1, PartIs
    <3> QED
      BY <2>1, <3>2 DEF k
  <2> HIDE DEF p
  <2>4. x = MergeAt(depth, type, to, q)
    BY <2>2 DEF p
  <2>5. CASE f.label = "oneof"
    <3>1. Cases(type) \cap DOMAIN q = {}
      BY <1>0, <1>1, <1>2, <2>5, NoCaseBefore
    <3>2. f.name \in Cases(type)
      BY <1>0, <1>1, <2>5, CasesIs
    <3>3. IsMessage(f.kind)
      <4>1. f.kind \notin {"varint", "fixed64", "bytes"}
        BY <1>1, <2>5 DEF IsField, Types
      <4> QED
        BY <1>1, <4>1, FieldKinds
    <3> HIDE DEF q
    <3>4. Get(x, f.name, << >>) = Get(to, f.name, << >>)
      BY <2>4, <3>1, <3>2, CaseBefore
    <3>5. Got(depth, f, x, v) = MergeAt(depth - 1, f.kind, Get(to, f.name, << >>), v)
      BY <2>5, <3>3, <3>4 DEF Got, Old
    <3> DEFINE w == MergeAt(depth - 1, f.kind, Get(to, f.name, << >>), v)
    <3>6. w = MergeAt(depth - 1, f.kind, Get(to, f.name, << >>), v)
      OBVIOUS
    <3> HIDE DEF w
    <3>7. StoresAs(depth, type, to, q, f, w, v)
      BY <1>0, <1>1, <2>5, <3>1, <3>6, StoredCase
    <3> QED
      BY <2>3, <2>4, <3>5, <3>6, <3>7 DEF StoresAs
  <2>6. CASE f.label # "oneof"
    <3>1. f.label \notin {"repeated", "oneof"}
      BY <1>4, <2>6
    <3>2. Got(depth, f, x, v) = v
      <4>1. f.kind \in {"varint", "fixed64", "bytes"}
        BY <1>1, <3>1 DEF IsField
      <4>2. f.kind \notin Types
        BY <4>1 DEF Types
      <4>3. ~IsMessage(f.kind)
        BY <1>1, <4>2, FieldKinds
      <4> QED
        BY <4>3 DEF Got
    <3> HIDE DEF q
    <3>3. StoresAs(depth, type, to, q, f, v, v)
      BY <1>0, <1>1, <2>1, <3>1, StoredPlain
    <3> QED
      BY <2>3, <2>4, <3>2, <3>3 DEF StoresAs
  <2> QED
    BY <2>5, <2>6
<1> QED
  BY <1>3, <1>4

(* The parser's state before what is left, with the message merged so far. *)
Merging(depth, type, m, to, i, j, rest) ==
  Between(rest, MergeAt(depth, type, to, PartOf(type, m, i, j)))

(* The next value of a field is taken.                                     *)
LEMMA NextTaken ==
  ASSUME NEW depth \in 1 .. 5, Taken(depth - 1), NEW type, NEW m, NEW to, NEW i, NEW f, NEW j,
         IsAt(depth, type, m, to, i, f, j),
         NEW part, part = FieldParts(depth, m, f)[j + 1], Fits(part.size), NEW r \in Seq(Byte)
  PROVE  Reaches(depth, type, Merging(depth, type, m, to, i, j, part.bytes \o r),
                 Merging(depth, type, m, to, i, j + 1, r))
<1> DEFINE v == Values(m, f)[j + 1]
           inner == Inner(depth, f, v)
           x == MergeAt(depth, type, to, PartOf(type, m, i, j))
           o == Store(type, x, f, Got(depth, f, x, v))
<1>0. type \in Types /\ MadeAt(depth, type, m) /\ f = Fields[type][i + 1]
      /\ j \in 0 .. Len(Values(m, f)) - 1
  BY DEF IsAt
<1>1. i + 1 \in 1 .. Len(Fields[type]) /\ f \in ToSet(Fields[type]) /\ j \in Nat
      /\ ValueMade(depth, f, v)
  BY AtField
<1>2. part = Written(f, v, inner)
  <2>1. DOMAIN Values(m, f) = 1 .. Len(Values(m, f)) /\ Len(Values(m, f)) \in Nat
    BY <1>0, <1>1, ValuesMade
  <2>2. j + 1 \in DOMAIN Values(m, f)
    BY <1>0, <1>1, <2>1
  <2> DEFINE k == j + 1
  <2>3. k \in DOMAIN Values(m, f) /\ part = FieldParts(depth, m, f)[k]
    BY <2>2
  <2> HIDE DEF k
  <2>4. part = Written(f, Values(m, f)[k], Inner(depth, f, Values(m, f)[k]))
    BY <2>3 DEF FieldParts
  <2> QED
    BY <2>4 DEF k
<1>3. x = MergeAt(depth, type, to, PartOf(type, m, i, j)) /\ v = Values(m, f)[j + 1]
      /\ inner = Inner(depth, f, v)
  OBVIOUS
<1> HIDE DEF x, v, inner
<1>4. IsMessage(f.kind) => MadeAt(depth - 1, f.kind, Old(x, f))
  BY <1>3, OldMade
<1>5. o = MergeAt(depth, type, to, PartOf(type, m, i, j + 1))
  BY <1>3, StoredNext
<1> HIDE DEF o
<1>6. Reaches(depth, type, Between(Written(f, v, inner).bytes \o r, x), Between(r, o))
  <2> DEFINE k == i + 1
  <2>1. k \in 1 .. Len(Fields[type]) /\ f = Fields[type][k]
    BY <1>0, <1>1
  <2>2. Fits(Written(f, v, inner).size)
    BY <1>2
  <2> HIDE DEF k
  <2>3. Reaches(depth, type, Between(Written(f, v, inner).bytes \o r, x),
                Between(r, Store(type, x, f, Got(depth, f, x, v))))
    BY <1>0, <1>1, <1>3, <1>4, <2>1, <2>2, ValueTaken
  <2> QED
    BY <2>3 DEF o
<1> QED
  BY <1>2, <1>3, <1>5, <1>6 DEF Merging

(* All values of a field are taken, by induction on their number.          *)
LEMMA FieldTaken ==
  ASSUME NEW depth \in 1 .. 5, Taken(depth - 1), NEW type \in Types, NEW m, NEW to,
         MadeAt(depth, type, m), MadeAt(depth, type, to),
         NEW i \in 0 .. Len(Fields[type]) - 1, NEW f, f = Fields[type][i + 1],
         NEW parts, parts = FieldParts(depth, m, f), Fits(Joined(parts).size),
         NEW r \in Seq(Byte)
  PROVE  Reaches(depth, type, Merging(depth, type, m, to, i, 0, Joined(parts).bytes \o r),
                 Merging(depth, type, m, to, i, Len(Values(m, f)), r))
<1>1. PICK first : IsJoining(parts, first) /\ Joined(parts) = first[Len(parts)]
  BY JoinedIs
<1>2. i + 1 \in 1 .. Len(Fields[type])
  <2>1. Len(Fields[type]) \in 1 .. 6
    BY Table
  <2> QED
    BY <2>1
<1>3. /\ Len(parts) = Len(Values(m, f))
      /\ Len(parts) \in Nat
      /\ \A j \in 1 .. Len(parts) : IsMeasured(parts[j])
  <2> DEFINE k == i + 1
  <2>1. k \in 1 .. Len(Fields[type]) /\ f = Fields[type][k]
    BY <1>2
  <2>2. WritesMeasured(depth - 1)
    <3> DEFINE d == depth - 1
    <3>1. d \in 0 .. 5
      OBVIOUS
    <3> HIDE DEF d
    <3>2. WritesMeasured(d)
      BY <3>1, WriteMeasured
    <3> QED
      BY <3>2 DEF d
  <2> HIDE DEF k
  <2> QED
    BY <2>1, <2>2, FieldMeasured
<1>4. PICK n \in Nat : n = Len(parts)
  BY <1>3
<1>5. \A j \in 1 .. n : IsMeasured(parts[j])
  BY <1>3, <1>4
<1>6. \A j \in 0 .. n : IsMeasured(first[j])
  BY <1>1, <1>5, JoiningMeasured
<1>7. \A j \in 1 .. n : Fits(parts[j].size)
  <2>1. ASSUME NEW j \in 1 .. n PROVE Fits(parts[j].size)
    <3>1. parts[j].size <= Joined(parts).size /\ IsMeasured(Joined(parts))
      BY <1>3, <1>4, JoinedMeasured
    <3>2. parts[j].size \in Nat /\ Joined(parts).size \in Nat
      BY <1>5, <3>1 DEF IsMeasured
    <3> QED
      BY <3>1, <3>2, FitsBelow
  <2> QED
    BY <2>1
<1> DEFINE at(j, b) == Merging(depth, type, m, to, i, j, b)
           P(j) == \A q \in Seq(Byte) :
                     Reaches(depth, type, at(0, first[j].bytes \o q), at(j, q))
           U == {j \in Nat : j <= n => P(j)}
<1>8. 0 \in U
  <2>1. ASSUME NEW q \in Seq(Byte)
        PROVE  Reaches(depth, type, at(0, first[0].bytes \o q), at(0, q))
    <3>1. first[0].bytes = << >>
      BY <1>1, NothingMeasured DEF IsJoining
    <3>2. << >> \o q = q
      BY ConcatEmptySeq
    <3>3. at(0, q).rest \in Seq(Byte)
      BY DEF Merging, Between
    <3> HIDE DEF at
    <3> QED
      BY <3>1, <3>2, <3>3, ReachesSelf
  <2> QED
    BY <2>1
<1>9. ASSUME NEW j \in Nat, j \in U PROVE j + 1 \in U
  <2> SUFFICES ASSUME j + 1 <= n, NEW q \in Seq(Byte)
               PROVE  Reaches(depth, type, at(0, first[j + 1].bytes \o q), at(j + 1, q))
    OBVIOUS
  <2> DEFINE part == parts[j + 1]
  <2>1. j + 1 \in 1 .. n /\ j \in 0 .. n /\ j <= n
    OBVIOUS
  <2>2. Fits(part.size) /\ IsMeasured(part) /\ IsMeasured(first[j])
    BY <1>5, <1>6, <1>7, <2>1
  <2>3. part.bytes \in Seq(Byte) /\ first[j].bytes \in Seq(Byte)
    BY <2>2 DEF IsMeasured
  <2>4. part.bytes \o q \in Seq(Byte)
    BY <2>3, ConcatProperties
  <2>5. first[j + 1].bytes \o q = first[j].bytes \o (part.bytes \o q)
    <3>1. first[j + 1] = Before(first[j], part)
      BY <1>1 DEF IsJoining
    <3>2. first[j + 1].bytes = first[j].bytes \o part.bytes
      <4> DEFINE p == first[j]
      <4>1. first[j + 1] = Before(p, part)
        BY <3>1
      <4> HIDE DEF p, part
      <4>2. Before(p, part).bytes = p.bytes \o part.bytes
        BY BeforeIs
      <4> QED
        BY <4>1, <4>2 DEF p
    <3> DEFINE a == first[j].bytes
               b == part.bytes
    <3>3. a \in Seq(Byte) /\ b \in Seq(Byte)
      BY <2>3
    <3> HIDE DEF a, b
    <3>4. (a \o b) \o q = a \o (b \o q)
      BY <3>3, Associative
    <3> QED
      BY <3>2, <3>4 DEF a, b
  <2>6. Reaches(depth, type, at(0, first[j].bytes \o (part.bytes \o q)), at(j, part.bytes \o q))
    <3>1. P(j)
      BY <1>9, <2>1
    <3> HIDE DEF at
    <3> QED
      BY <2>4, <3>1
  <2>7. Reaches(depth, type, at(j, part.bytes \o q), at(j + 1, q))
    <3>1. j \in 0 .. Len(Values(m, f)) - 1
      BY <1>3, <1>4, <2>1
    <3>2. IsAt(depth, type, m, to, i, f, j)
      BY <3>1 DEF IsAt
    <3>3. part = FieldParts(depth, m, f)[j + 1]
      OBVIOUS
    <3> HIDE DEF part
    <3>4. Reaches(depth, type, Merging(depth, type, m, to, i, j, part.bytes \o q),
                  Merging(depth, type, m, to, i, j + 1, q))
      BY <2>2, <3>2, <3>3, NextTaken
    <3> QED
      BY <3>4
  <2> DEFINE s == at(0, first[j].bytes \o (part.bytes \o q))
             t == at(j, part.bytes \o q)
             w == at(j + 1, q)
  <2> HIDE DEF s, t, w
  <2>8. Reaches(depth, type, s, w)
    <3>1. Reaches(depth, type, s, t) /\ Reaches(depth, type, t, w)
      BY <2>6, <2>7 DEF s, t, w
    <3> QED
      BY <3>1, ReachesOn
  <2> QED
    BY <2>5, <2>8 DEF s, w
<1> HIDE DEF P
<1>10. P(n)
  <2> HIDE DEF U
  <2>1. Nat \subseteq U
    BY <1>8, <1>9, Induction
  <2>2. n \in U
    BY <2>1
  <2> QED
    BY <2>2 DEF U
<1> QED
  BY <1>1, <1>3, <1>4, <1>10 DEF P

(* With all its values, the field is there.                                *)
LEMMA PartEnd ==
  ASSUME NEW depth \in 1 .. 5, NEW type \in Types, NEW m, MadeAt(depth, type, m),
         NEW i \in 0 .. Len(Fields[type]) - 1, NEW f, f = Fields[type][i + 1],
         f \in ToSet(Fields[type])
  PROVE  PartOf(type, m, i, Len(Values(m, f))) = Prefix(type, m, i + 1)
<1> DEFINE n == Len(Values(m, f))
           q == Prefix(type, m, i)
<1>1. CASE f.name \notin DOMAIN m
  <2>1. Values(m, f) = << >>
    BY <1>1 DEF Values
  <2>2. n = 0
    BY <2>1, EmptySeq
  <2>3. Prefix(type, m, i + 1) = q
    BY <1>1, PrefixIs
  <2>4. PartOf(type, m, i, 0) = q
    BY PartIs
  <2> HIDE DEF n
  <2>5. PartOf(type, m, i, n) = Prefix(type, m, i + 1)
    BY <2>2, <2>3, <2>4
  <2> QED
    BY <2>5 DEF n
<1>2. CASE f.name \in DOMAIN m
  <2>1. FieldMade(depth, f, m[f.name])
    BY <1>2, MadeUnfold DEF Made
  <2>2. Prefix(type, m, i + 1) = With(q, f.name, m[f.name])
    BY <1>2, PrefixIs
  <2>3. CASE f.label = "repeated"
    <3> DEFINE s == m[f.name]
    <3>1. Values(m, f) = s
      BY <1>2, <2>3 DEF Values
    <3>2. s \in Seq(ToSet(s)) /\ s # << >>
      BY <2>1, <2>3 DEF FieldMade
    <3>3. n = Len(s)
      BY <3>1
    <3> HIDE DEF s, n
    <3>4. n \in Nat /\ n # 0
      BY <3>2, <3>3, EmptySeq, LenProperties
    <3>5. SubSeq(s, 1, n) = s
      <4>1. 0 \in 0 .. Len(s) - 1
        BY <3>3, <3>4
      <4> DEFINE S == ToSet(s)
      <4>2. s \in Seq(S)
        BY <3>2
      <4> HIDE DEF S
      <4> QED
        BY <3>3, <4>1, <4>2, SubSeqNext
    <3>6. PartOf(type, m, i, n) = With(q, f.name, SubSeq(m[f.name], 1, n))
      BY <2>3, <3>4, PartIs
    <3>7. PartOf(type, m, i, n) = Prefix(type, m, i + 1)
      BY <2>2, <3>5, <3>6 DEF s
    <3> QED
      BY <3>7 DEF n
  <2>4. CASE f.label # "repeated"
    <3>1. Values(m, f) = << m[f.name] >>
      BY <1>2, <2>4 DEF Values
    <3>2. n = 1
      BY <3>1
    <3> HIDE DEF n
    <3>3. PartOf(type, m, i, n) = With(q, f.name, m[f.name])
      BY <2>4, <3>2, PartIs
    <3>4. PartOf(type, m, i, n) = Prefix(type, m, i + 1)
      BY <2>2, <3>3
    <3> QED
      BY <3>4 DEF n
  <2> QED
    BY <2>3, <2>4
<1> QED
  BY <1>1, <1>2

(* Merging no field changes nothing.                                       *)
LEMMA MergeStart ==
  ASSUME NEW depth \in 1 .. 5, NEW type, NEW m, NEW to, MadeAt(depth, type, to)
  PROVE  MergeAt(depth, type, to, Prefix(type, m, 0)) = to
<1> DEFINE p == Prefix(type, m, 0)
<1>1. DOMAIN p = {}
  BY PrefixFirst
<1> HIDE DEF p
<1>2. Kept(type, to, p) = to
  BY <1>1 DEF Kept
<1>3. MergeAt(depth, type, to, p) = MergeOf(depth, type, to, p)
  BY MergeIs
<1>4. MergeOf(depth, type, to, p)
        = [n \in DOMAIN to \cup DOMAIN p |-> MergeEntry(depth, type, to, p, n)]
  BY <1>2, Zenon DEF MergeOf
<1>5. ASSUME NEW n \in DOMAIN to PROVE MergeEntry(depth, type, to, p, n) = to[n]
  BY <1>1 DEF MergeEntry
<1>6. to = [n \in DOMAIN to |-> to[n]]
  BY MadeUnfold DEF Made
<1>7. DOMAIN to \cup DOMAIN p = DOMAIN to
  BY <1>1
<1>8. MergeAt(depth, type, to, p) = [n \in DOMAIN to |-> to[n]]
  BY <1>3, <1>4, <1>5, <1>7
<1> QED
  BY <1>6, <1>8 DEF p

(* From one depth to the next, by induction on the fields.                 *)
LEMMA TakenStep ==
  ASSUME NEW depth \in 1 .. 5, Taken(depth - 1)
  PROVE  Taken(depth)
<1> SUFFICES ASSUME NEW type \in Types, NEW m, NEW to,
                    MadeAt(depth, type, m), MadeAt(depth, type, to),
                    Fits(WriteAt(depth, type, m).size), NEW r \in Seq(Byte)
             PROVE  Reaches(depth, type, Between(WriteAt(depth, type, m).bytes \o r, to),
                            Between(r, MergeAt(depth, type, to, m)))
  BY DEF Taken
<1> DEFINE parts == Parts(depth, type, m)
           at(i, b) == Between(b, MergeAt(depth, type, to, Prefix(type, m, i)))
<1>1. parts = Parts(depth, type, m) /\ WriteAt(depth, type, m) = Joined(parts)
  BY WriteUnfold
<1> HIDE DEF parts
<1>2. PICK n \in 1 .. 6 : n = Len(Fields[type])
  BY Table
<1>3. /\ Len(parts) = n
      /\ \A i \in 1 .. n : /\ parts[i] = Joined(FieldParts(depth, m, Fields[type][i]))
                           /\ IsMeasured(parts[i])
  <2>1. WritesMeasured(depth - 1)
    <3> DEFINE d == depth - 1
    <3>1. d \in 0 .. 5
      OBVIOUS
    <3> HIDE DEF d
    <3>2. WritesMeasured(d)
      BY <3>1, WriteMeasured
    <3> QED
      BY <3>2 DEF d
  <2> QED
    BY <1>1, <1>2, <2>1, PartsMeasured
<1>4. PICK first : IsJoining(parts, first) /\ Joined(parts) = first[Len(parts)]
  BY JoinedIs
<1>5. \A i \in 0 .. n : IsMeasured(first[i])
  <2>1. n \in Nat /\ \A i \in 1 .. n : IsMeasured(parts[i])
    BY <1>3
  <2> QED
    BY <1>4, <2>1, JoiningMeasured
<1>6. ASSUME NEW i \in 1 .. n PROVE Fits(parts[i].size)
  <2>1. Len(parts) \in Nat /\ \A k \in 1 .. Len(parts) : IsMeasured(parts[k])
    BY <1>3
  <2>2. parts[i].size <= Joined(parts).size /\ IsMeasured(Joined(parts))
    BY <1>3, <2>1, JoinedMeasured
  <2>3. parts[i].size \in Nat /\ Joined(parts).size \in Nat
    BY <1>3, <2>2 DEF IsMeasured
  <2> QED
    BY <1>1, <2>2, <2>3, FitsBelow
<1> DEFINE P(i) == \A q \in Seq(Byte) : Reaches(depth, type, at(0, first[i].bytes \o q), at(i, q))
           U == {i \in Nat : i <= n => P(i)}
<1>7. 0 \in U
  <2>1. ASSUME NEW q \in Seq(Byte)
        PROVE  Reaches(depth, type, at(0, first[0].bytes \o q), at(0, q))
    <3>1. first[0].bytes = << >>
      BY <1>4, NothingMeasured DEF IsJoining
    <3>2. << >> \o q = q
      BY ConcatEmptySeq
    <3>3. at(0, q).rest \in Seq(Byte)
      BY DEF Between
    <3> HIDE DEF at
    <3> QED
      BY <3>1, <3>2, <3>3, ReachesSelf
  <2> QED
    BY <2>1
<1>8. ASSUME NEW i \in Nat, i \in U PROVE i + 1 \in U
  <2> SUFFICES ASSUME i + 1 <= n, NEW q \in Seq(Byte)
               PROVE  Reaches(depth, type, at(0, first[i + 1].bytes \o q), at(i + 1, q))
    OBVIOUS
  <2> DEFINE part == parts[i + 1]
             p == first[i]
             f == Fields[type][i + 1]
             fp == FieldParts(depth, m, f)
  <2>1. i + 1 \in 1 .. n /\ i \in 0 .. n /\ i <= n /\ i \in 0 .. n - 1
    OBVIOUS
  <2>2. Fits(part.size) /\ IsMeasured(part) /\ IsMeasured(p) /\ part = Joined(fp)
    BY <1>3, <1>5, <1>6, <2>1
  <2>3. first[i + 1] = Before(p, part)
    BY <1>4 DEF IsJoining
  <2>4. P(i)
    BY <1>8, <2>1
  <2>5. f \in ToSet(Fields[type]) /\ i \in 0 .. Len(Fields[type]) - 1
    <3> DEFINE k == i + 1
    <3>1. k \in 1 .. Len(Fields[type])
      BY <1>2, <2>1
    <3> HIDE DEF k
    <3>2. Fields[type][k] \in ToSet(Fields[type])
      BY <3>1, FieldAt
    <3> QED
      BY <1>2, <2>1, <3>2 DEF k
  <2>6. f = Fields[type][i + 1] /\ fp = FieldParts(depth, m, f)
    OBVIOUS
  <2> HIDE DEF part, p, fp, f
  <2>7. part.bytes \in Seq(Byte) /\ p.bytes \in Seq(Byte)
    BY <2>2 DEF IsMeasured
  <2>8. part.bytes \o q \in Seq(Byte)
    BY <2>7, ConcatProperties
  <2>9. first[i + 1].bytes \o q = p.bytes \o (part.bytes \o q)
    <3>1. Before(p, part).bytes = p.bytes \o part.bytes
      BY BeforeIs
    <3> DEFINE a == p.bytes
               b == part.bytes
    <3>2. a \in Seq(Byte) /\ b \in Seq(Byte)
      BY <2>7
    <3> HIDE DEF a, b
    <3>3. (a \o b) \o q = a \o (b \o q)
      BY <3>2, Associative
    <3> QED
      BY <2>3, <3>1, <3>3 DEF a, b
  <2>10. Reaches(depth, type, at(0, p.bytes \o (part.bytes \o q)), at(i, part.bytes \o q))
    <3> HIDE DEF at
    <3> QED
      BY <2>4, <2>8 DEF p
  <2>11. Reaches(depth, type, at(i, part.bytes \o q), at(i + 1, q))
    <3>1. Reaches(depth, type, Merging(depth, type, m, to, i, 0, Joined(fp).bytes \o q),
                  Merging(depth, type, m, to, i, Len(Values(m, f)), q))
      BY <2>2, <2>5, <2>6, FieldTaken
    <3>2. PartOf(type, m, i, 0) = Prefix(type, m, i)
      BY <2>6, PartIs
    <3>3. PartOf(type, m, i, Len(Values(m, f))) = Prefix(type, m, i + 1)
      BY <2>5, <2>6, PartEnd
    <3> QED
      BY <2>2, <3>1, <3>2, <3>3 DEF Merging
  <2> DEFINE s == at(0, p.bytes \o (part.bytes \o q))
             t == at(i, part.bytes \o q)
             w == at(i + 1, q)
  <2> HIDE DEF s, t, w
  <2>12. Reaches(depth, type, s, w)
    <3>1. Reaches(depth, type, s, t) /\ Reaches(depth, type, t, w)
      BY <2>10, <2>11 DEF s, t, w
    <3> QED
      BY <3>1, ReachesOn
  <2> QED
    BY <2>9, <2>12 DEF s, w
<1> HIDE DEF P
<1>9. P(n)
  <2> HIDE DEF U
  <2>1. Nat \subseteq U
    BY <1>7, <1>8, Induction
  <2>2. n \in U
    BY <2>1
  <2> QED
    BY <2>2 DEF U
<1>10. MergeAt(depth, type, to, Prefix(type, m, 0)) = to
  BY MergeStart
<1>11. Prefix(type, m, n) = m
  BY <1>2, PrefixLast
<1> QED
  BY <1>1, <1>3, <1>4, <1>9, <1>10, <1>11 DEF P

(* For every type: what was written of a message that was made, parsed     *)
(* into another one, merges the two, and the parser is at the end of those *)
(* bytes.                                                                  *)
LEMMA AllTaken ==
  ASSUME NEW depth \in 0 .. 5
  PROVE  Taken(depth)
<1>0. Taken(0)
  BY DEF Taken, MadeAt
<1>1. ASSUME NEW k \in 1 .. 5, Taken(k - 1) PROVE Taken(k)
  BY <1>1, TakenStep
<1>2. Taken(1)
  BY <1>0, <1>1
<1>3. Taken(2)
  BY <1>2, <1>1
<1>4. Taken(3)
  BY <1>3, <1>1
<1>5. Taken(4)
  BY <1>4, <1>1
<1>6. Taken(5)
  BY <1>5, <1>1
<1>7. depth = 0 \/ depth = 1 \/ depth = 2 \/ depth = 3 \/ depth = 4 \/ depth = 5
  OBVIOUS
<1> QED
  BY <1>0, <1>2, <1>3, <1>4, <1>5, <1>6, <1>7

-----------------------------------------------------------------------------
(* Merges can be made again.                                               *)

(* What is merged from messages that can be made can be made. *)
MergesMade(depth) ==
  \A type \in Types : \A to, m :
    (MadeAt(depth, type, to) /\ MadeAt(depth, type, m)) =>
      MadeAt(depth, type, MergeAt(depth, type, to, m))

(* Two lists, joined, are a list that can be made.                         *)
LEMMA JoinedListMade ==
  ASSUME NEW depth, NEW f, NEW s, NEW t, f.label = "repeated",
         s \in Seq(ToSet(s)), \A j \in DOMAIN s : ValueMade(depth, f, s[j]), FieldMade(depth, f, t)
  PROVE  FieldMade(depth, f, s \o t)
<1>1. t \in Seq(ToSet(t)) /\ t # << >> /\ \A j \in DOMAIN t : ValueMade(depth, f, t[j])
  BY DEF FieldMade
<1> DEFINE S == ToSet(s) \cup ToSet(t)
           u == s \o t
<1>2. s \in Seq(S) /\ t \in Seq(S)
  <2> DEFINE A == ToSet(s)
             B == ToSet(t)
  <2> HIDE DEF A, B
  <2>1. s \in Seq(A) /\ t \in Seq(B)
    BY <1>1 DEF A, B
  <2>2. s \in Seq(A \cup B) /\ t \in Seq(A \cup B)
    BY <2>1
  <2> QED
    BY <2>2 DEF A, B
<1> HIDE DEF S
<1>3. PICK k \in Nat : k = Len(s)
  BY <1>2, LenProperties
<1>4. PICK l \in Nat : l = Len(t)
  BY <1>2, LenProperties
<1>5. /\ u \in Seq(S)
      /\ Len(u) = k + l
      /\ \A j \in 1 .. k + l : u[j] = IF j <= k THEN s[j] ELSE t[j - k]
  <2>1. /\ u \in Seq(S)
        /\ Len(u) = Len(s) + Len(t)
        /\ \A j \in 1 .. Len(s) + Len(t) : u[j] = IF j <= Len(s) THEN s[j] ELSE t[j - Len(s)]
    BY <1>2, ConcatProperties
  <2> QED
    BY <1>3, <1>4, <2>1
<1>6. l # 0
  BY <1>1, <1>2, <1>4, EmptySeq
<1> HIDE DEF u
<1>7. DOMAIN u = 1 .. k + l /\ DOMAIN s = 1 .. k /\ DOMAIN t = 1 .. l
  BY <1>2, <1>3, <1>4, <1>5, LenProperties
<1>8. ASSUME NEW j \in DOMAIN u PROVE ValueMade(depth, f, u[j])
  <2>1. j \in 1 .. k + l
    BY <1>7
  <2>2. CASE j <= k
    <3>1. j \in DOMAIN s /\ u[j] = s[j]
      BY <1>5, <1>7, <2>1, <2>2
    <3> QED
      BY <3>1
  <2>3. CASE ~(j <= k)
    <3>1. j - k \in DOMAIN t /\ u[j] = t[j - k]
      BY <1>5, <1>7, <2>1, <2>3
    <3> DEFINE i == j - k
    <3>2. i \in DOMAIN t /\ u[j] = t[i]
      BY <3>1
    <3> HIDE DEF i
    <3> QED
      BY <1>1, <3>2
  <2> QED
    BY <2>2, <2>3
<1>9. u # << >>
  <2>1. k + l # 0
    BY <1>6
  <2> QED
    BY <1>5, <2>1, EmptySeq
<1>10. u \in Seq(ToSet(u))
  <2>1. \A j \in 1 .. Len(u) : u[j] \in ToSet(u)
    BY <1>5, <1>7 DEF ToSet
  <2> DEFINE T == ToSet(u)
  <2> HIDE DEF T
  <2>2. \A j \in 1 .. Len(u) : u[j] \in T
    BY <2>1 DEF T
  <2>3. u \in Seq(T)
    <3>1. u = [j \in 1 .. Len(u) |-> u[j]] /\ Len(u) \in Nat
      BY <1>5, LenProperties
    <3>2. u \in [1 .. Len(u) -> T]
      BY <2>2, <3>1
    <3> QED
      BY <3>1, <3>2, SeqDef
  <2> QED
    BY <2>3 DEF T
<1>11. FieldMade(depth, f, u)
  BY <1>8, <1>9, <1>10 DEF FieldMade
<1> QED
  BY <1>11 DEF u

(* From one depth to the next.                                             *)
LEMMA MergesMadeStep ==
  ASSUME NEW depth \in 1 .. 5, MergesMade(depth - 1)
  PROVE  MergesMade(depth)
<1> SUFFICES ASSUME NEW type \in Types, NEW to, NEW m,
                    MadeAt(depth, type, to), MadeAt(depth, type, m)
             PROVE  MadeAt(depth, type, MergeAt(depth, type, to, m))
  BY DEF MergesMade
<1> DEFINE kept == Kept(type, to, m)
           x == MergeAt(depth, type, to, m)
           cases == Cases(type)
           names == {f.name : f \in ToSet(Fields[type])}
<1>1. /\ DOMAIN to \subseteq names
      /\ \A f \in ToSet(Fields[type]) : f.name \in DOMAIN to => FieldMade(depth, f, to[f.name])
      /\ \A n, o \in cases \cap DOMAIN to : n = o
  BY MadeUnfold DEF Made
<1>2. /\ DOMAIN m \subseteq names
      /\ \A f \in ToSet(Fields[type]) : f.name \in DOMAIN m => FieldMade(depth, f, m[f.name])
      /\ \A n, o \in cases \cap DOMAIN m : n = o
  BY MadeUnfold DEF Made
<1>3. x = [n \in DOMAIN kept \cup DOMAIN m |-> MergeEntry(depth, type, kept, m, n)]
  <2>1. x = MergeOf(depth, type, to, m)
    BY MergeIs
  <2> QED
    BY <2>1, Zenon DEF MergeOf
<1>4. /\ DOMAIN kept \subseteq DOMAIN to
      /\ \A n \in DOMAIN kept : kept[n] = to[n]
      /\ cases \cap DOMAIN m = {} => kept = to
      /\ cases \cap DOMAIN m # {} => cases \cap DOMAIN kept \subseteq DOMAIN m
  BY DEF Kept, Without
<1> HIDE DEF kept, x, cases, names
<1>5. x = [n \in DOMAIN x |-> x[n]] /\ DOMAIN x = DOMAIN kept \cup DOMAIN m
  BY <1>3
<1>6. DOMAIN x \subseteq names
  BY <1>1, <1>2, <1>4, <1>5
<1>7. \A n, o \in cases \cap DOMAIN x : n = o
  <2>1. CASE cases \cap DOMAIN m = {}
    <3>1. cases \cap DOMAIN x = cases \cap DOMAIN to
      BY <1>4, <1>5, <2>1
    <3> QED
      BY <1>1, <3>1
  <2>2. CASE cases \cap DOMAIN m # {}
    <3>1. cases \cap DOMAIN x = cases \cap DOMAIN m
      BY <1>4, <1>5, <2>2
    <3> QED
      BY <1>2, <3>1
  <2> QED
    BY <2>1, <2>2
<1>8. ASSUME NEW f \in ToSet(Fields[type]), f.name \in DOMAIN x
      PROVE  FieldMade(depth, f, x[f.name])
  <2> DEFINE n == f.name
             e == MergeEntry(depth, type, kept, m, n)
             k == Get(kept, n, << >>)
  <2>1. x[n] = e
    BY <1>3, <1>8
  <2>2. Named(type, n) = f
    BY NamedIs
  <2>3. n \in DOMAIN kept => FieldMade(depth, f, kept[n])
    BY <1>1, <1>4
  <2>4. n \in DOMAIN m => FieldMade(depth, f, m[n])
    BY <1>2
  <2>5. (n \in DOMAIN kept /\ k = kept[n]) \/ k = << >>
    BY DEF Get
  <2>6. CASE n \notin DOMAIN m
    <3>1. e = kept[n] /\ n \in DOMAIN kept
      BY <1>5, <1>8, <2>6 DEF MergeEntry
    <3> QED
      BY <2>1, <2>3, <3>1
  <2>7. CASE n \in DOMAIN m /\ n \in Cases(type)
    <3>1. f.label = "oneof"
      BY <2>7, CasesIs
    <3>2. PICK i \in 1 .. Len(Fields[type]) : f = Fields[type][i]
      <4>1. ToSet(Fields[type]) = {Fields[type][i] : i \in 1 .. Len(Fields[type])}
        BY Table
      <4> QED
        BY <4>1
    <3>3. f.kind \in Types /\ f.kind \notin {"varint", "fixed64", "bytes"} /\ IsMessage(f.kind)
      <4>1. IsField(f, i)
        BY <3>2, FieldAt
      <4>2. f.kind \in Types
        BY <3>1, <4>1 DEF IsField
      <4>3. IsMessage(f.kind)
        BY <4>2, FieldsDomain DEF IsMessage
      <4> QED
        BY <4>2, <4>3 DEF Types
    <3>4. MadeAt(depth - 1, f.kind, m[n])
      <4>1. ValueMade(depth, f, m[n])
        BY <2>4, <2>7, <3>1 DEF FieldMade
      <4> QED
        BY <3>3, <4>1 DEF ValueMade
    <3>5. MadeAt(depth - 1, f.kind, k)
      <4>1. CASE n \in DOMAIN kept /\ k = kept[n]
        <5>1. ValueMade(depth, f, kept[n])
          BY <2>3, <3>1, <4>1 DEF FieldMade
        <5> QED
          BY <3>3, <4>1, <5>1 DEF ValueMade
      <4>2. CASE k = << >>
        <5> DEFINE d == depth - 1
        <5>1. d \in 1 .. 5
          BY <3>4, DepthBelow
        <5> HIDE DEF d
        <5>2. MadeAt(d, f.kind, << >>)
          BY <5>1, EmptyMade
        <5> QED
          BY <4>2, <5>2 DEF d
      <4> QED
        BY <2>5, <4>1, <4>2
    <3>6. MadeAt(depth - 1, f.kind, MergeAt(depth - 1, f.kind, k, m[n]))
      BY <3>3, <3>4, <3>5 DEF MergesMade
    <3>7. e = MergeAt(depth - 1, f.kind, k, m[n])
      BY <2>2, <2>7 DEF MergeEntry
    <3>8. ValueMade(depth, f, e)
      BY <3>3, <3>6, <3>7 DEF ValueMade
    <3> HIDE DEF e
    <3> QED
      BY <2>1, <3>1, <3>8 DEF FieldMade
  <2>8. CASE n \in DOMAIN m /\ n \notin Cases(type) /\ f.label = "repeated"
    <3>1. e = k \o m[n]
      BY <2>2, <2>8 DEF MergeEntry
    <3>2. k \in Seq(ToSet(k)) /\ \A j \in DOMAIN k : ValueMade(depth, f, k[j])
      <4>1. CASE n \in DOMAIN kept /\ k = kept[n]
        BY <2>3, <2>8, <4>1 DEF FieldMade
      <4>2. CASE k = << >>
        <5> HIDE DEF k
        <5>1. k \in Seq(ToSet(k)) /\ DOMAIN k = {}
          BY <4>2, EmptySeq
        <5> QED
          BY <5>1
      <4> QED
        BY <2>5, <4>1, <4>2
    <3>3. FieldMade(depth, f, m[n])
      BY <2>4, <2>8
    <3> DEFINE t == m[n]
    <3> HIDE DEF k, t
    <3>4. FieldMade(depth, f, k \o t)
      BY <2>8, <3>2, <3>3, JoinedListMade DEF t
    <3> QED
      BY <2>1, <3>1, <3>4 DEF t
  <2>9. CASE n \in DOMAIN m /\ n \notin Cases(type) /\ f.label # "repeated"
    <3>1. e = m[n]
      BY <2>2, <2>9 DEF MergeEntry
    <3> QED
      BY <2>1, <2>4, <2>9, <3>1
  <2> QED
    BY <2>6, <2>7, <2>8, <2>9
<1>9. Made(depth, type, x)
  BY <1>5, <1>6, <1>7, <1>8 DEF Made, cases, names
<1>10. MadeAt(depth, type, x)
  BY <1>9, MadeUnfold
<1> QED
  BY <1>10 DEF x

(* The merge of two messages that can be made can be made.                 *)
LEMMA AllMergesMade ==
  ASSUME NEW depth \in 0 .. 5
  PROVE  MergesMade(depth)
<1>0. MergesMade(0)
  BY DEF MergesMade, MadeAt
<1>1. ASSUME NEW k \in 1 .. 5, MergesMade(k - 1) PROVE MergesMade(k)
  BY <1>1, MergesMadeStep
<1>2. MergesMade(1)
  BY <1>0, <1>1
<1>3. MergesMade(2)
  BY <1>2, <1>1
<1>4. MergesMade(3)
  BY <1>3, <1>1
<1>5. MergesMade(4)
  BY <1>4, <1>1
<1>6. MergesMade(5)
  BY <1>5, <1>1
<1>7. depth = 0 \/ depth = 1 \/ depth = 2 \/ depth = 3 \/ depth = 4 \/ depth = 5
  OBVIOUS
<1> QED
  BY <1>0, <1>2, <1>3, <1>4, <1>5, <1>6, <1>7

-----------------------------------------------------------------------------
(* Messages one after the other on the wire.                               *)

(* Depth 5 is that of a Message.                                           *)
LEMMA AtTop ==
  ASSUME NEW a, NEW b
  PROVE  /\ MadeAt(5, "Message", a) <=> IsMade("Message", a, IsBody)
         /\ WriteAt(5, "Message", a) = Serialize(a)
         /\ MergeAt(5, "Message", a, b) = Merge(a, b)
         /\ ParseAt(5, "Message", b, << >>) = ParseFromArray(b)
<1>1. 5 # 1 /\ 5 # 2 /\ 5 # 3 /\ 5 # 4
  OBVIOUS
<1>2. MadeAt(5, "Message", a) <=> IsMade("Message", a, IsBody)
  BY <1>1, Zenon DEF MadeAt
<1>3. WriteAt(5, "Message", a) = Serialize(a)
  BY <1>1, Zenon DEF WriteAt, Serialize
<1>4. MergeAt(5, "Message", a, b) = Merge(a, b)
  BY <1>1, Zenon DEF MergeAt, Merge
<1>5. ParseAt(5, "Message", b, << >>) = ParseFromArray(b)
  BY <1>1, Zenon DEF ParseAt, ParseFromArray
<1> QED
  BY <1>2, <1>3, <1>4, <1>5

(* An int that is not negative has 32 bits.                                *)
LEMMA IntFits ==
  ASSUME NEW n, IsInt(n)
  PROVE  Fits(n)
<1> DEFINE d == 128 * 128 * 128 * 128
           k == n \div d
<1>1. n \in Nat /\ k < 8
  BY DEF IsInt
<1>2. k \in Int
  BY <1>1
<1> HIDE DEF k
<1>3. k < 16
  BY <1>1, <1>2
<1> QED
  BY <1>1, <1>3 DEF Fits, k

(* A message that is sent is not empty. *)
LEMMA SentNotEmpty ==
  ASSUME NEW m, IsSent(m)
  PROVE  /\ MadeAt(5, "Message", m) /\ Fits(Serialize(m).size)
         /\ Serialize(m).bytes \in Seq(Byte) /\ Len(Serialize(m).bytes) \in Nat
         /\ Len(Serialize(m).bytes) >= 1
<1> DEFINE w == Serialize(m)
           parts == Parts(5, "Message", m)
<1>0. 5 \in 1 .. 5 /\ "Message" \in Types /\ 5 - 1 \in 0 .. 5
  BY DEF Types
<1>1. MadeAt(5, "Message", m) /\ Fits(w.size)
  BY AtTop, IntFits DEF IsSent
<1>2. w = Joined(parts)
  <2>1. WriteAt(5, "Message", m) = w
    BY AtTop
  <2>2. WriteAt(5, "Message", m) = Joined(parts)
    BY <1>0, WriteUnfold
  <2> QED
    BY <2>1, <2>2
<1>3. WritesMeasured(5) /\ WritesMeasured(5 - 1)
  BY <1>0, WriteMeasured
<1>4. IsMeasured(w)
  <2>1. IsMeasured(WriteAt(5, "Message", m))
    BY <1>0, <1>1, <1>3 DEF WritesMeasured
  <2> QED
    BY <2>1, AtTop
<1>5. PICK n \in Cases("Message") : n \in DOMAIN m
  BY DEF IsSent
<1>6. PICK f \in ToSet(Fields["Message"]) : f.label = "oneof" /\ f.name = n
  BY DEF Cases
<1>7. PICK i \in 1 .. Len(Fields["Message"]) : f = Fields["Message"][i]
  <2>1. ToSet(Fields["Message"]) = {Fields["Message"][i] : i \in 1 .. Len(Fields["Message"])}
    BY <1>0, Table
  <2> QED
    BY <2>1
<1> DEFINE fp == FieldParts(5, m, f)
<1>8. /\ Len(parts) = Len(Fields["Message"])
      /\ \A k \in 1 .. Len(parts) : /\ parts[k] = Joined(FieldParts(5, m, Fields["Message"][k]))
                                    /\ IsMeasured(parts[k])
  BY <1>0, <1>1, <1>3, PartsMeasured
<1>9. /\ Len(fp) = Len(Values(m, f))
      /\ Len(fp) \in Nat
      /\ \A k \in 1 .. Len(fp) : IsMeasured(fp[k]) /\ fp[k].size >= 1
  BY <1>0, <1>1, <1>3, <1>7, FieldMeasured
<1>10. Len(fp) = 1
  <2>1. Values(m, f) = << m[f.name] >>
    BY <1>5, <1>6 DEF Values
  <2> HIDE DEF fp
  <2> QED
    BY <1>9, <2>1
<1> HIDE DEF fp, parts, w
<1>11. Joined(fp).size >= 1 /\ Joined(fp).size \in Nat
  <2>1. 1 \in 1 .. Len(fp)
    BY <1>10
  <2>2. fp[1].size <= Joined(fp).size /\ IsMeasured(Joined(fp))
    BY <1>9, <2>1, JoinedMeasured
  <2>3. fp[1].size >= 1 /\ fp[1].size \in Nat /\ Joined(fp).size \in Nat
    BY <1>9, <2>1, <2>2 DEF IsMeasured
  <2> QED
    BY <2>2, <2>3
<1>12. w.size >= 1 /\ w.size \in Nat
  <2>0. i \in 1 .. Len(parts)
    BY <1>8
  <2>1. parts[i] = Joined(fp)
    BY <1>7, <1>8, <2>0 DEF fp
  <2>2. Len(parts) \in Nat
    <3>1. Len(Fields["Message"]) \in 1 .. 6
      BY <1>0, Table
    <3> QED
      BY <1>8, <3>1
  <2>3. parts[i].size <= Joined(parts).size
    BY <1>8, <2>0, <2>2, JoinedMeasured
  <2>4. w.size \in Nat
    BY <1>4 DEF IsMeasured
  <2> QED
    BY <1>2, <1>11, <2>1, <2>3, <2>4
<1>13. w.bytes \in Seq(Byte) /\ Len(w.bytes) = w.size
  BY <1>1, <1>4 DEF IsMeasured
<1>14. Len(w.bytes) \in Nat /\ Len(w.bytes) >= 1
  BY <1>12, <1>13
<1> QED
  BY <1>1, <1>13, <1>14 DEF w

(* Where messages start. *)
IsStarting(s, before) ==
  /\ before[0] = 0
  /\ \A n \in Nat : before[n + 1] = before[n] + Len(Serialize(s[n + 1]).bytes)

(* Start is a recursive function; so is MergedTo.                          *)
LEMMA StartIs ==
  \E before : IsStarting(stream, before) /\ \A k : Start(k) = before[k - 1]
<1> DEFINE c == [what |-> "start", stream |-> stream]
           F(h) == [n \in Nat |-> IF n = 0 THEN 0
                                  ELSE h[n - 1] + Len(Serialize(stream[n]).bytes)]
           before == CHOOSE h : h = F(h)
<1>1. PICK g : Endless(c, 0, g)
  BY ChainExists
<1>2. g = [k \in Nat |-> IF k = 0 THEN 0 ELSE Following(c, k - 1, g[k - 1])]
  BY <1>1, ChainEquation
<1>3. ASSUME NEW k \in Nat, k # 0
      PROVE  Following(c, k - 1, g[k - 1]) = g[k - 1] + Len(Serialize(stream[k]).bytes)
  <2>1. c.what = "start" /\ c.stream = stream
    OBVIOUS
  <2>2. "start" # "parts" /\ "start" # "varint" /\ "start" # "read" /\ "start" # "parse"
    OBVIOUS
  <2> HIDE DEF c
  <2>3. Following(c, k - 1, g[k - 1]) = g[k - 1] + Len(Serialize(stream[(k - 1) + 1]).bytes)
    BY <2>1, <2>2, Zenon DEF Following
  <2>4. (k - 1) + 1 = k
    OBVIOUS
  <2> QED
    BY <2>3, <2>4
<1>4. g = F(g)
  BY <1>2, <1>3
<1>5. \A k : Start(k) = before[k - 1]
  BY Zenon DEF Start
<1>6. before = F(before)
  <2> HIDE DEF F
  <2> QED
    BY <1>4, Zenon
<1> HIDE DEF before
<1>7. before[0] = 0
  BY <1>6
<1>8. ASSUME NEW k \in Nat
      PROVE  before[k + 1] = before[k] + Len(Serialize(stream[k + 1]).bytes)
  <2>1. k + 1 \in Nat /\ k + 1 # 0 /\ (k + 1) - 1 = k
    OBVIOUS
  <2>2. before[k + 1] = IF k + 1 = 0 THEN 0
                        ELSE before[(k + 1) - 1] + Len(Serialize(stream[k + 1]).bytes)
    BY <1>6, <2>1
  <2> QED
    BY <2>1, <2>2
<1> QED
  BY <1>5, <1>7, <1>8 DEF IsStarting

(* Messages merged one after the other. *)
IsMerging(s, i, merged) ==
  /\ merged[0] = << >>
  /\ \A n \in Nat : merged[n + 1] = Merge(merged[n], s[i + n])

LEMMA MergedIs ==
  ASSUME NEW i \in Nat
  PROVE  \E merged : IsMerging(stream, i, merged) /\ \A j : MergedTo(i, j) = merged[j - i + 1]
<1> DEFINE c == [what |-> "merge", stream |-> stream, i |-> i]
           F(h) == [n \in Nat |-> IF n = 0 THEN << >> ELSE Merge(h[n - 1], stream[i + n - 1])]
           merged == CHOOSE h : h = F(h)
<1>1. PICK g : Endless(c, << >>, g)
  BY ChainExists
<1>2. g = [k \in Nat |-> IF k = 0 THEN << >> ELSE Following(c, k - 1, g[k - 1])]
  BY <1>1, ChainEquation
<1>3. ASSUME NEW k \in Nat, k # 0
      PROVE  Following(c, k - 1, g[k - 1]) = Merge(g[k - 1], stream[i + k - 1])
  <2>1. c.what = "merge" /\ c.stream = stream /\ c.i = i
    OBVIOUS
  <2>2. "merge" # "parts" /\ "merge" # "varint" /\ "merge" # "read" /\ "merge" # "parse"
        /\ "merge" # "start"
    OBVIOUS
  <2> HIDE DEF c
  <2>3. Following(c, k - 1, g[k - 1]) = Merge(g[k - 1], stream[i + (k - 1)])
    BY <2>1, <2>2, Zenon DEF Following
  <2>4. i + (k - 1) = i + k - 1
    OBVIOUS
  <2> QED
    BY <2>3, <2>4
<1>4. g = F(g)
  BY <1>2, <1>3
<1>5. \A j : MergedTo(i, j) = merged[j - i + 1]
  BY Zenon DEF MergedTo
<1>6. merged = F(merged)
  <2> HIDE DEF F
  <2> QED
    BY <1>4, Zenon
<1> HIDE DEF merged
<1>7. merged[0] = << >>
  BY <1>6
<1>8. ASSUME NEW k \in Nat PROVE merged[k + 1] = Merge(merged[k], stream[i + k])
  <2>1. k + 1 \in Nat /\ k + 1 # 0 /\ (k + 1) - 1 = k /\ i + (k + 1) - 1 = i + k
    OBVIOUS
  <2>2. merged[k + 1] = IF k + 1 = 0 THEN << >>
                        ELSE Merge(merged[(k + 1) - 1], stream[i + (k + 1) - 1])
    BY <1>6, <2>1
  <2> QED
    BY <2>1, <2>2
<1> QED
  BY <1>5, <1>7, <1>8 DEF IsMerging

(* The middle of three sequences.                                          *)
LEMMA Middle ==
  ASSUME NEW x \in Seq(Byte), NEW y \in Seq(Byte), NEW z \in Seq(Byte)
  PROVE  SubSeq((x \o y) \o z, Len(x) + 1, Len(x) + Len(y)) = y
<1> DEFINE b == (x \o y) \o z
           a == x \o y
<1>1. PICK n \in Nat : n = Len(x)
  BY LenProperties
<1>2. PICK l \in Nat : l = Len(y)
  BY LenProperties
<1>3. PICK k \in Nat : k = Len(z)
  BY LenProperties
<1>4. /\ a \in Seq(Byte) /\ Len(a) = n + l
      /\ \A i \in 1 .. n + l : a[i] = IF i <= n THEN x[i] ELSE y[i - n]
  <2>1. /\ a \in Seq(Byte) /\ Len(a) = Len(x) + Len(y)
        /\ \A i \in 1 .. Len(x) + Len(y) : a[i] = IF i <= Len(x) THEN x[i] ELSE y[i - Len(x)]
    BY ConcatProperties
  <2> HIDE DEF a
  <2> QED
    BY <1>1, <1>2, <2>1
<1> HIDE DEF a
<1>5. \A i \in 1 .. n + l : b[i] = a[i] /\ b[i] \in Byte
  <2>1. /\ b \in Seq(Byte) /\ Len(b) = Len(a) + Len(z)
        /\ \A i \in 1 .. Len(a) + Len(z) : b[i] = IF i <= Len(a) THEN a[i] ELSE z[i - Len(a)]
    BY <1>4, ConcatProperties DEF a
  <2> HIDE DEF b
  <2>2. \A i \in 1 .. (n + l) + k : b[i] = IF i <= n + l THEN a[i] ELSE z[i - (n + l)]
    BY <1>3, <1>4, <2>1
  <2>3. \A i \in 1 .. Len(a) : a[i] \in Byte
    BY <1>4, ElementOfSeq
  <2>4. \A i \in 1 .. n + l : a[i] \in Byte
    BY <1>4, <2>3
  <2>5. \A i \in 1 .. n + l : i \in 1 .. (n + l) + k /\ i <= n + l
    BY <1>1, <1>2, <1>3
  <2> QED
    BY <2>2, <2>4, <2>5
<1> HIDE DEF b
<1> DEFINE s == SubSeq(b, n + 1, n + l)
<1>6. s = y
  <2>1. \A i \in n + 1 .. n + l : b[i] \in Byte
    BY <1>5
  <2>2. /\ s \in Seq(Byte)
        /\ Len(s) = IF n + 1 <= n + l THEN (n + l) - (n + 1) + 1 ELSE 0
        /\ \A i \in 1 .. (n + l) - (n + 1) + 1 : s[i] = b[(n + 1) + i - 1]
    BY <2>1, SubSeqProperties
  <2> HIDE DEF s
  <2>3. (IF n + 1 <= n + l THEN (n + l) - (n + 1) + 1 ELSE 0) = l
    OBVIOUS
  <2>4. ASSUME NEW i \in 1 .. l PROVE s[i] = y[i]
    <3>1. /\ i \in 1 .. (n + l) - (n + 1) + 1 /\ (n + 1) + i - 1 = n + i
          /\ n + i \in 1 .. n + l /\ ~(n + i <= n) /\ (n + i) - n = i
      OBVIOUS
    <3>2. s[i] = b[n + i]
      BY <2>2, <3>1
    <3>3. b[n + i] = a[n + i]
      BY <1>5, <3>1
    <3>4. a[n + i] = y[i]
      BY <1>4, <3>1
    <3> QED
      BY <3>2, <3>3, <3>4
  <2> QED
    BY <1>2, <2>2, <2>3, <2>4, SeqEqual
<1> QED
  BY <1>1, <1>2, <1>6 DEF b, a

(* The messages that were sent, and their bytes. *)
SentInv ==
  /\ stream \in Seq(ToSet(stream))
  /\ \A k \in DOMAIN stream : IsSent(stream[k])
  /\ wire = Joined([k \in DOMAIN stream |-> Serialize(stream[k])]).bytes

(* first[k] is what was written up to message k.                           *)
IsSerializing(n, first) ==
  \A k \in 1 .. n : first[k].bytes = first[k - 1].bytes \o Serialize(stream[k]).bytes

(* The wire is the messages, each from its start.                          *)
LEMMA WireIs ==
  ASSUME SentInv
  PROVE  \E n \in Nat : \E first, before :
           /\ DOMAIN stream = 1 .. n
           /\ IsSerializing(n, first)
           /\ wire = first[n].bytes
           /\ \A k \in 0 .. n : first[k].bytes \in Seq(Byte) /\ before[k] = Len(first[k].bytes)
           /\ \A k : Start(k) = before[k - 1]
<1>1. PICK n \in Nat : DOMAIN stream = 1 .. n
  BY LenProperties DEF SentInv
<1> DEFINE ser == [k \in DOMAIN stream |-> Serialize(stream[k])]
<1>2. ser = [k \in 1 .. n |-> ser[k]] /\ \A k \in 1 .. n : ser[k] = Serialize(stream[k])
  BY <1>1
<1>3. wire = Joined(ser).bytes
  BY DEF SentInv
<1> HIDE DEF ser
<1>4. Len(ser) = n
  BY <1>2, LenOf
<1>5. PICK first : IsJoining(ser, first) /\ Joined(ser) = first[Len(ser)]
  BY JoinedIs
<1>6. PICK before : IsStarting(stream, before) /\ \A k : Start(k) = before[k - 1]
  BY StartIs
<1>7. ASSUME NEW k \in Nat, k + 1 <= n
      PROVE  /\ first[k + 1].bytes = first[k].bytes \o Serialize(stream[k + 1]).bytes
             /\ Serialize(stream[k + 1]).bytes \in Seq(Byte)
             /\ Len(Serialize(stream[k + 1]).bytes) \in Nat
  <2> DEFINE p == first[k]
             q == ser[k + 1]
  <2>1. first[k + 1] = Before(p, q)
    BY <1>5 DEF IsJoining
  <2>2. k + 1 \in 1 .. n
    BY <1>7
  <2>3. q = Serialize(stream[k + 1])
    BY <1>2, <2>2
  <2> HIDE DEF p, q
  <2>4. Before(p, q).bytes = p.bytes \o q.bytes
    BY BeforeIs
  <2> DEFINE m == stream[k + 1]
  <2>5. IsSent(m)
    BY <1>1, <2>2 DEF SentInv
  <2> HIDE DEF m
  <2>6. Serialize(m).bytes \in Seq(Byte) /\ Len(Serialize(m).bytes) \in Nat
    BY <2>5, SentNotEmpty
  <2> QED
    BY <2>1, <2>3, <2>4, <2>6 DEF p, m
<1> DEFINE P(k) == first[k].bytes \in Seq(Byte) /\ before[k] = Len(first[k].bytes)
           U == {k \in Nat : k <= n => P(k)}
<1>8. 0 \in U
  <2>1. first[0] = Nothing
    BY <1>5 DEF IsJoining
  <2>2. first[0].bytes = << >> /\ before[0] = 0
    BY <1>6, <2>1, NothingMeasured DEF IsStarting
  <2> QED
    BY <2>2, EmptySeq
<1>9. ASSUME NEW k \in Nat, k \in U PROVE k + 1 \in U
  <2> SUFFICES ASSUME k + 1 <= n PROVE P(k + 1)
    OBVIOUS
  <2> DEFINE a == first[k].bytes
             b == Serialize(stream[k + 1]).bytes
  <2>1. a \in Seq(Byte) /\ before[k] = Len(a)
    BY <1>9
  <2>2. first[k + 1].bytes = a \o b /\ b \in Seq(Byte)
    BY <1>7
  <2>3. before[k + 1] = before[k] + Len(b)
    BY <1>6 DEF IsStarting
  <2> HIDE DEF a, b
  <2>4. a \o b \in Seq(Byte) /\ Len(a \o b) = Len(a) + Len(b)
    BY <2>1, <2>2, ConcatProperties
  <2> QED
    BY <2>1, <2>2, <2>3, <2>4
<1> HIDE DEF P
<1>10. \A k \in 0 .. n : P(k)
  <2>1. Nat \subseteq U
    <3> HIDE DEF U
    <3> QED
      BY <1>8, <1>9, Induction
  <2> QED
    BY <2>1
<1>11. IsSerializing(n, first)
  <2>1. ASSUME NEW k \in 1 .. n
        PROVE  first[k].bytes = first[k - 1].bytes \o Serialize(stream[k]).bytes
    <3> DEFINE l == k - 1
    <3>1. l \in Nat /\ l + 1 <= n /\ l + 1 = k
      OBVIOUS
    <3> HIDE DEF l
    <3>2. first[l + 1].bytes = first[l].bytes \o Serialize(stream[l + 1]).bytes
      BY <1>7, <3>1
    <3> QED
      BY <3>1, <3>2 DEF l
  <2> QED
    BY <2>1 DEF IsSerializing
<1>12. wire = first[n].bytes
  BY <1>3, <1>4, <1>5
<1> QED
  BY <1>1, <1>6, <1>10, <1>11, <1>12 DEF P

(* Bytes b, and n messages that were merged, are what follows a of the wire. *)
Follows(first, merged, i, n, b) ==
  /\ b \in Seq(Byte) /\ n <= Len(b)
  /\ first[i - 1 + n].bytes = first[i - 1].bytes \o b
  /\ MadeAt(5, "Message", merged[n])
  /\ \A r \in Seq(Byte) :
       Reaches(5, "Message", Between(b \o r, << >>), Between(r, merged[n]))

(* One message more.                                                       *)
LEMMA FollowsNext ==
  ASSUME SentInv, NEW size \in Nat, DOMAIN stream = 1 .. size, NEW first,
         IsSerializing(size, first), NEW i \in 1 .. size, first[i - 1].bytes \in Seq(Byte),
         NEW merged, IsMerging(stream, i, merged),
         NEW n \in Nat, i + n <= size, NEW b, Follows(first, merged, i, n, b)
  PROVE  \E d : Follows(first, merged, i, n + 1, d)
<1> DEFINE m == stream[i + n]
           s == Serialize(m).bytes
           a == first[i - 1].bytes
           d == b \o s
<1>0. i + n \in 1 .. size /\ i - 1 + (n + 1) = i + n /\ (i + n) - 1 = i - 1 + n
  OBVIOUS
<1>1. IsSent(m)
  BY <1>0 DEF SentInv
<1>2. merged[n + 1] = Merge(merged[n], m)
  BY DEF IsMerging
<1>3. first[i - 1 + (n + 1)].bytes = first[i - 1 + n].bytes \o s
  <2> DEFINE k == i + n
  <2>1. first[k].bytes = first[k - 1].bytes \o Serialize(stream[k]).bytes
    BY <1>0 DEF IsSerializing
  <2> QED
    BY <1>0, <2>1
<1> HIDE DEF m
<1>4. MadeAt(5, "Message", m) /\ Fits(Serialize(m).size)
      /\ s \in Seq(Byte) /\ Len(s) \in Nat /\ Len(s) >= 1
  BY <1>1, SentNotEmpty
<1>5. b \in Seq(Byte) /\ n <= Len(b) /\ MadeAt(5, "Message", merged[n])
      /\ first[i - 1 + n].bytes = a \o b
  BY DEF Follows
<1> DEFINE o == merged[n]
           q == merged[n + 1]
<1>6. "Message" \in Types /\ 5 \in 0 .. 5
  BY DEF Types
<1>7. Taken(5) /\ MergesMade(5)
  BY <1>6, AllTaken, AllMergesMade
<1>8. MergeAt(5, "Message", o, m) = q /\ WriteAt(5, "Message", m) = Serialize(m)
  BY <1>2, AtTop
<1> HIDE DEF o, q
<1>9. MadeAt(5, "Message", q)
  <2>1. MadeAt(5, "Message", o)
    BY <1>5 DEF o
  <2> QED
    BY <1>4, <1>6, <1>7, <1>8, <2>1 DEF MergesMade
<1>10. ASSUME NEW r \in Seq(Byte)
       PROVE  Reaches(5, "Message", Between(s \o r, o), Between(r, q))
  <2>1. MadeAt(5, "Message", o)
    BY <1>5 DEF o
  <2>2. Fits(WriteAt(5, "Message", m).size)
    BY <1>4, <1>8
  <2>3. Reaches(5, "Message", Between(WriteAt(5, "Message", m).bytes \o r, o),
                Between(r, MergeAt(5, "Message", o, m)))
    BY <1>4, <1>6, <1>7, <2>1, <2>2 DEF Taken
  <2> QED
    BY <1>8, <2>3
<1>11. \A r \in Seq(Byte) : Reaches(5, "Message", Between(b \o r, << >>), Between(r, o))
  BY DEF Follows, o
<1> HIDE DEF s, a
<1>12. d \in Seq(Byte) /\ Len(d) = Len(b) + Len(s)
  BY <1>4, <1>5, ConcatProperties
<1>13. n + 1 <= Len(d)
  <2>1. Len(b) \in Nat
    BY <1>5, LenProperties
  <2> HIDE DEF d
  <2> QED
    BY <1>4, <1>5, <1>12, <2>1
<1>14. first[i - 1 + (n + 1)].bytes = a \o d
  <2>1. a \in Seq(Byte)
    BY DEF a
  <2>2. (a \o b) \o s = a \o (b \o s)
    BY <1>4, <1>5, <2>1, Associative
  <2> QED
    BY <1>3, <1>5, <2>2
<1>15. ASSUME NEW r \in Seq(Byte)
       PROVE  Reaches(5, "Message", Between(d \o r, << >>), Between(r, q))
  <2> DEFINE e == s \o r
  <2>1. e \in Seq(Byte)
    BY <1>4, ConcatProperties
  <2>2. d \o r = b \o e
    BY <1>4, <1>5, Associative
  <2> HIDE DEF e, d
  <2> DEFINE u1 == Between(b \o e, << >>)
             u2 == Between(e, o)
             u3 == Between(r, q)
  <2>3. Reaches(5, "Message", u1, u2)
    BY <1>11, <2>1
  <2>4. Reaches(5, "Message", u2, u3)
    BY <1>10 DEF e
  <2> HIDE DEF u1, u2, u3
  <2>5. Reaches(5, "Message", u1, u3)
    BY <2>3, <2>4, ReachesOn
  <2> QED
    BY <2>2, <2>5 DEF u1, u3
<1> HIDE DEF d
<1>16. Follows(first, merged, i, n + 1, d)
  BY <1>9, <1>12, <1>13, <1>14, <1>15 DEF Follows, q, a
<1> QED
  BY <1>16

(* Whole messages of the wire are parsed into the messages merged.         *)
ReadsTogether(i, j) ==
  /\ Start(i) \in Nat /\ Start(j + 1) \in Nat /\ Start(i) < Start(j + 1)
  /\ ParseFromArray(SubSeq(wire, Start(i) + 1, Start(j + 1)))
       = [ok |-> TRUE, msg |-> MergedTo(i, j)]

(* By induction on the number of messages.                                 *)
LEMMA Together ==
  ASSUME SentInv, NEW i \in DOMAIN stream, NEW j \in DOMAIN stream, i <= j
  PROVE  ReadsTogether(i, j)
<1>1. PICK size \in Nat : \E first, before :
           /\ DOMAIN stream = 1 .. size
           /\ IsSerializing(size, first)
           /\ wire = first[size].bytes
           /\ \A k \in 0 .. size : first[k].bytes \in Seq(Byte) /\ before[k] = Len(first[k].bytes)
           /\ \A k : Start(k) = before[k - 1]
  BY WireIs
<1>2. PICK first, before :
           /\ DOMAIN stream = 1 .. size
           /\ IsSerializing(size, first)
           /\ wire = first[size].bytes
           /\ \A k \in 0 .. size : first[k].bytes \in Seq(Byte) /\ before[k] = Len(first[k].bytes)
           /\ \A k : Start(k) = before[k - 1]
  BY <1>1
<1>3. i \in 1 .. size /\ j \in 1 .. size /\ i \in Nat /\ i - 1 \in 0 .. size /\ j \in 0 .. size
  BY <1>2
<1>4. PICK merged : IsMerging(stream, i, merged) /\ \A k : MergedTo(i, k) = merged[k - i + 1]
  BY <1>3, MergedIs
<1>5. first[i - 1].bytes \in Seq(Byte)
  BY <1>2, <1>3
<1> DEFINE U == {n \in Nat : i - 1 + n <= size => \E b : Follows(first, merged, i, n, b)}
<1>6. 0 \in U
  <2> DEFINE a == first[i - 1].bytes
  <2>1. a \in Seq(Byte)
    BY <1>5
  <2> HIDE DEF a
  <2>2. a \o << >> = a
    BY <2>1, ConcatEmptySeq
  <2>3. first[i - 1 + 0].bytes = first[i - 1].bytes \o << >>
    <3>1. i - 1 + 0 = i - 1
      BY <1>3
    <3> QED
      BY <2>2, <3>1 DEF a
  <2>4. merged[0] = << >>
    BY <1>4 DEF IsMerging
  <2>5. MadeAt(5, "Message", << >>)
    <3>1. 5 \in 1 .. 5
      OBVIOUS
    <3> QED
      BY <3>1, EmptyMade
  <2>6. ASSUME NEW r \in Seq(Byte)
        PROVE  Reaches(5, "Message", Between(<< >> \o r, << >>), Between(r, << >>))
    <3>1. << >> \o r = r
      BY ConcatEmptySeq
    <3> DEFINE s == Between(r, << >>)
    <3>2. s.rest \in Seq(Byte)
      BY DEF Between
    <3> HIDE DEF s
    <3>3. Reaches(5, "Message", s, s)
      BY <3>2, ReachesSelf
    <3> QED
      BY <3>1, <3>3 DEF s
  <2>7. << >> \in Seq(Byte) /\ 0 <= Len(<< >>)
    BY EmptySeq
  <2> DEFINE e == << >>
  <2>8. e \in Seq(Byte) /\ 0 <= Len(e) /\ first[i - 1 + 0].bytes = first[i - 1].bytes \o e
        /\ \A r \in Seq(Byte) : Reaches(5, "Message", Between(e \o r, << >>), Between(r, merged[0]))
    BY <2>3, <2>4, <2>6, <2>7
  <2> HIDE DEF e
  <2>9. Follows(first, merged, i, 0, e)
    BY <2>4, <2>5, <2>8 DEF Follows
  <2> QED
    BY <2>9
<1>7. ASSUME NEW n \in Nat, n \in U PROVE n + 1 \in U
  <2> SUFFICES ASSUME i - 1 + (n + 1) <= size PROVE \E b : Follows(first, merged, i, n + 1, b)
    OBVIOUS
  <2>1. i + n <= size /\ i - 1 + n <= size
    BY <1>3
  <2>2. PICK b : Follows(first, merged, i, n, b)
    BY <1>7, <2>1
  <2> QED
    BY <1>2, <1>3, <1>4, <1>5, <2>1, <2>2, FollowsNext
<1> DEFINE n == j - i + 1
<1>8. n \in Nat /\ n >= 1 /\ i - 1 + n = j
  BY <1>3
<1>9. PICK b : Follows(first, merged, i, n, b)
  <2>1. Nat \subseteq U
    <3> HIDE DEF U
    <3> QED
      BY <1>6, <1>7, Induction
  <2>2. n \in U
    BY <1>8, <2>1
  <2>3. i - 1 + n <= size
    BY <1>3, <1>8
  <2> HIDE DEF n
  <2> QED
    BY <2>2, <2>3
<1>10. \A k : MergedTo(i, k) = merged[k - i + 1]
  BY <1>4
<1>11. MergedTo(i, j) = merged[n]
  BY <1>10
<1> HIDE DEF n
<1> DEFINE a == first[i - 1].bytes
<1>12. b \in Seq(Byte) /\ n <= Len(b) /\ first[j].bytes = a \o b
  BY <1>8, <1>9 DEF Follows
<1>13. a \in Seq(Byte) /\ Len(a) \in Nat /\ Len(b) \in Nat /\ Len(a \o b) = Len(a) + Len(b)
  <2>1. a \in Seq(Byte)
    BY <1>5
  <2> HIDE DEF a
  <2> QED
    BY <1>12, <2>1, LenProperties, ConcatProperties
<1>14. Start(i) = Len(a) /\ Start(j + 1) = Len(a) + Len(b)
  <2>1. Start(i) = before[i - 1] /\ Start(j + 1) = before[j]
    <3>1. (j + 1) - 1 = j
      BY <1>3
    <3>2. \A k : Start(k) = before[k - 1]
      BY <1>2
    <3> QED
      BY <3>1, <3>2
  <2>2. before[i - 1] = Len(a)
    BY <1>2, <1>3
  <2>3. before[j] = Len(first[j].bytes)
    BY <1>2, <1>3
  <2> QED
    BY <1>12, <1>13, <2>1, <2>2, <2>3
<1> DEFINE W == {k \in Nat : j + k <= size => \E t \in Seq(Byte) : first[j + k].bytes = first[j].bytes \o t}
<1>15. 0 \in W
  <2> DEFINE c == first[j].bytes
  <2>1. c \in Seq(Byte) /\ j + 0 = j
    BY <1>2, <1>3
  <2> HIDE DEF c
  <2>2. c \o << >> = c /\ << >> \in Seq(Byte)
    BY <2>1, ConcatEmptySeq
  <2> QED
    BY <2>1, <2>2 DEF c
<1>16. ASSUME NEW k \in Nat, k \in W PROVE k + 1 \in W
  <2> SUFFICES ASSUME j + (k + 1) <= size
               PROVE  \E t \in Seq(Byte) : first[j + (k + 1)].bytes = first[j].bytes \o t
    OBVIOUS
  <2> DEFINE l == j + (k + 1)
             c == first[j].bytes
             s == Serialize(stream[l]).bytes
  <2>1. l \in 1 .. size /\ l - 1 = j + k /\ j + k <= size
    BY <1>3
  <2>2. PICK t \in Seq(Byte) : first[j + k].bytes = c \o t
    BY <1>16, <2>1
  <2>3. first[l].bytes = first[l - 1].bytes \o s
    BY <1>2, <2>1 DEF IsSerializing
  <2>4. s \in Seq(Byte)
    <3> DEFINE m == stream[l]
    <3>1. IsSent(m)
      BY <1>2, <2>1 DEF SentInv
    <3> HIDE DEF m
    <3>2. Serialize(m).bytes \in Seq(Byte)
      BY <3>1, SentNotEmpty
    <3> QED
      BY <3>2 DEF m
  <2>5. c \in Seq(Byte)
    BY <1>2, <1>3
  <2> HIDE DEF c, s
  <2>6. (c \o t) \o s = c \o (t \o s) /\ t \o s \in Seq(Byte)
    BY <2>4, <2>5, Associative, ConcatProperties
  <2>7. first[l].bytes = c \o (t \o s)
    BY <2>1, <2>2, <2>3, <2>6
  <2> QED
    BY <2>6, <2>7 DEF c
<1>17. PICK t \in Seq(Byte) : wire = first[j].bytes \o t
  <2> DEFINE k == size - j
  <2>1. k \in Nat /\ j + k = size
    BY <1>3
  <2>2. Nat \subseteq W
    <3> HIDE DEF W
    <3> QED
      BY <1>15, <1>16, Induction
  <2>3. k \in W
    BY <2>1, <2>2
  <2> HIDE DEF k
  <2>4. \E t \in Seq(Byte) : first[j + k].bytes = first[j].bytes \o t
    BY <2>1, <2>3
  <2> QED
    BY <1>2, <2>1, <2>4
<1>18. SubSeq(wire, Start(i) + 1, Start(j + 1)) = b
  <2> HIDE DEF a
  <2>1. SubSeq((a \o b) \o t, Len(a) + 1, Len(a) + Len(b)) = b
    BY <1>12, <1>13, Middle
  <2> QED
    BY <1>12, <1>14, <1>17, <2>1
<1>19. ParseFromArray(b) = [ok |-> TRUE, msg |-> merged[n]]
  <2> DEFINE o == merged[n]
  <2>1. \A r \in Seq(Byte) : Reaches(5, "Message", Between(b \o r, << >>), Between(r, o))
    BY <1>9 DEF Follows
  <2> HIDE DEF o
  <2>2. b \o << >> = b /\ << >> \in Seq(Byte)
    BY <1>12, ConcatEmptySeq
  <2>3. Reaches(5, "Message", Between(b, << >>), Between(<< >>, o))
    BY <2>1, <2>2
  <2>4. 5 \in 1 .. 5
    OBVIOUS
  <2>5. ParseAt(5, "Message", b, << >>) = [ok |-> TRUE, msg |-> o]
    BY <2>3, <2>4, ReachesEnd
  <2> QED
    BY <2>5, AtTop DEF o
<1> HIDE DEF a
<1>20. Start(i) \in Nat /\ Start(j + 1) \in Nat /\ Start(i) < Start(j + 1)
  BY <1>8, <1>12, <1>13, <1>14
<1> QED
  BY <1>11, <1>18, <1>19, <1>20 DEF ReadsTogether

(* A message alone is merged into an empty one. *)
LEMMA MergedAlone ==
  ASSUME SentInv, NEW k \in DOMAIN stream
  PROVE  MergedTo(k, k) = stream[k]
<1>1. k \in Nat
  BY LenProperties DEF SentInv
<1>2. PICK merged : IsMerging(stream, k, merged) /\ \A j : MergedTo(k, j) = merged[j - k + 1]
  BY <1>1, MergedIs
<1>3. k - k + 1 = 0 + 1 /\ k + 0 = k
  BY <1>1
<1> DEFINE m == stream[k]
<1>4. MergedTo(k, k) = merged[0 + 1]
  BY <1>2, <1>3
<1>5. merged[0 + 1] = Merge(<< >>, m)
  <2>1. merged[0 + 1] = Merge(merged[0], stream[k + 0]) /\ merged[0] = << >>
    BY <1>2 DEF IsMerging
  <2> QED
    BY <1>3, <2>1
<1>6. IsSent(m)
  BY DEF SentInv
<1> HIDE DEF m
<1>7. MadeAt(5, "Message", m) /\ "Message" \in Types /\ 5 \in 0 .. 5
  BY <1>6, SentNotEmpty DEF Types
<1>8. MergesToItself(5)
  BY <1>7, MergeIntoEmpty
<1>9. MergeAt(5, "Message", << >>, m) = m
  BY <1>7, <1>8 DEF MergesToItself
<1>10. Merge(<< >>, m) = m
  BY <1>9, AtTop
<1> QED
  BY <1>4, <1>5, <1>10 DEF m

-----------------------------------------------------------------------------
(* The Setup of every section can be sent.                                 *)

(* A field that was not there is added to a message. *)
LEMMA WithMade ==
  ASSUME NEW depth \in 1 .. 5, NEW type \in Types, NEW m, MadeAt(depth, type, m),
         NEW f \in ToSet(Fields[type]), NEW v, FieldMade(depth, f, v),
         f.label = "oneof" => Cases(type) \cap DOMAIN m = {},
         NEW q, q = With(m, f.name, v)
  PROVE  MadeAt(depth, type, q)
<1>1. /\ m = [n \in DOMAIN m |-> m[n]]
      /\ DOMAIN m \subseteq {g.name : g \in ToSet(Fields[type])}
      /\ \A g \in ToSet(Fields[type]) : g.name \in DOMAIN m => FieldMade(depth, g, m[g.name])
      /\ \A n, o \in Cases(type) \cap DOMAIN m : n = o
  BY MadeUnfold DEF Made
<1>2. /\ q = [n \in DOMAIN q |-> q[n]]
      /\ DOMAIN q = DOMAIN m \cup {f.name}
      /\ q[f.name] = v
      /\ \A n \in DOMAIN m : n # f.name => q[n] = m[n]
  BY DEF With
<1>3. DOMAIN q \subseteq {g.name : g \in ToSet(Fields[type])}
  BY <1>1, <1>2
<1>4. ASSUME NEW g \in ToSet(Fields[type]), g.name \in DOMAIN q
      PROVE  FieldMade(depth, g, q[g.name])
  <2>1. CASE g.name = f.name
    <3>1. Named(type, g.name) = g /\ Named(type, f.name) = f
      BY NamedIs
    <3>2. g = f
      BY <2>1, <3>1
    <3> QED
      BY <1>2, <3>2
  <2>2. CASE g.name # f.name
    BY <1>1, <1>2, <1>4, <2>2
  <2> QED
    BY <2>1, <2>2
<1>5. \A n, o \in Cases(type) \cap DOMAIN q : n = o
  <2>1. CASE f.label = "oneof"
    BY <1>2, <2>1
  <2>2. CASE f.label # "oneof"
    <3>1. f.name \notin Cases(type)
      BY <2>2, CasesIs
    <3> QED
      BY <1>1, <1>2, <3>1
  <2> QED
    BY <2>1, <2>2
<1>6. Made(depth, type, q)
  BY <1>2, <1>3, <1>4, <1>5, Zenon DEF Made
<1> QED
  BY <1>6, MadeUnfold

(* A field without presence, or a list, is set. *)
LEMMA SetMade ==
  ASSUME NEW depth \in 1 .. 5, NEW type \in Types, NEW m, MadeAt(depth, type, m),
         NEW f \in ToSet(Fields[type]), f.label # "oneof", f.name \notin DOMAIN m,
         NEW default, NEW v, v # default => FieldMade(depth, f, v),
         NEW q, q = Set(m, f.name, v, default)
  PROVE  MadeAt(depth, type, q)
<1>1. CASE v = default
  <2>1. q = Without(m, {f.name})
    BY <1>1 DEF Set
  <2>2. m = [n \in DOMAIN m |-> m[n]]
    BY MadeUnfold DEF Made
  <2>3. DOMAIN m \ {f.name} = DOMAIN m
    OBVIOUS
  <2>4. q = m
    BY <2>1, <2>2, <2>3 DEF Without
  <2> QED
    BY <2>4
<1>2. CASE v # default
  <2>1. q = With(m, f.name, v) /\ FieldMade(depth, f, v)
    BY <1>2 DEF Set
  <2> QED
    BY <2>1, WithMade
<1> QED
  BY <1>1, <1>2

(* A field without presence of a type. *)
ImplicitField(type, f, name, kind) ==
  /\ type \in Types /\ f \in ToSet(Fields[type])
  /\ f.name = name /\ f.kind = kind /\ f.label = "implicit"

(* Those that readPipesSection() sets.                                     *)
LEMMA ImplicitFields ==
  /\ \E f : ImplicitField("ValueString", f, "value", "bytes")
  /\ \E f : ImplicitField("ValueBool", f, "value", "varint")
  /\ \E f : ImplicitField("ValueUint32", f, "value", "varint")
  /\ \E f : ImplicitField("ValueDouble", f, "value", "fixed64")
  /\ \E f : ImplicitField("Property", f, "type", "varint")
  /\ \E f : ImplicitField("Property", f, "name", "bytes")
  /\ \E f : ImplicitField("Component", f, "componentType", "varint")
<1>1. \E f : ImplicitField("ValueString", f, "value", "bytes")
  <2>1. "ValueString" \in Types /\ Fields["ValueString"] = ValueStringFields
    BY DEF Types, Fields
  <2> DEFINE f == ValueStringFields[1]
  <2>2. 1 \in DOMAIN ValueStringFields /\ f.name = "value" /\ f.kind = "bytes" /\ f.label = "implicit"
    BY DEF ValueStringFields, Field
  <2> QED
    BY <2>1, <2>2 DEF ImplicitField, ToSet
<1>2. \E f : ImplicitField("ValueBool", f, "value", "varint")
  <2>1. "ValueBool" \in Types /\ Fields["ValueBool"] = ValueBoolFields
    BY DEF Types, Fields
  <2> DEFINE f == ValueBoolFields[1]
  <2>2. 1 \in DOMAIN ValueBoolFields /\ f.name = "value" /\ f.kind = "varint" /\ f.label = "implicit"
    BY DEF ValueBoolFields, Field
  <2> QED
    BY <2>1, <2>2 DEF ImplicitField, ToSet
<1>3. \E f : ImplicitField("ValueUint32", f, "value", "varint")
  <2>1. "ValueUint32" \in Types /\ Fields["ValueUint32"] = ValueUint32Fields
    BY DEF Types, Fields
  <2> DEFINE f == ValueUint32Fields[1]
  <2>2. 1 \in DOMAIN ValueUint32Fields /\ f.name = "value" /\ f.kind = "varint" /\ f.label = "implicit"
    BY DEF ValueUint32Fields, Field
  <2> QED
    BY <2>1, <2>2 DEF ImplicitField, ToSet
<1>4. \E f : ImplicitField("ValueDouble", f, "value", "fixed64")
  <2>1. "ValueDouble" \in Types /\ Fields["ValueDouble"] = ValueDoubleFields
    BY DEF Types, Fields
  <2> DEFINE f == ValueDoubleFields[1]
  <2>2. 1 \in DOMAIN ValueDoubleFields /\ f.name = "value" /\ f.kind = "fixed64" /\ f.label = "implicit"
    BY DEF ValueDoubleFields, Field
  <2> QED
    BY <2>1, <2>2 DEF ImplicitField, ToSet
<1>5. "Property" \in Types /\ Fields["Property"] = PropertyFields /\ 1 \in DOMAIN PropertyFields /\ 2 \in DOMAIN PropertyFields
  BY DEF Types, Fields, PropertyFields
<1>6. \E f : ImplicitField("Property", f, "type", "varint")
  <2> DEFINE f == PropertyFields[1]
  <2>2. f.name = "type" /\ f.kind = "varint" /\ f.label = "implicit"
    BY DEF PropertyFields, Field
  <2> QED
    BY <1>5, <2>2 DEF ImplicitField, ToSet
<1>7. \E f : ImplicitField("Property", f, "name", "bytes")
  <2> DEFINE f == PropertyFields[2]
  <2>2. f.name = "name" /\ f.kind = "bytes" /\ f.label = "implicit"
    BY DEF PropertyFields, Field
  <2> QED
    BY <1>5, <2>2 DEF ImplicitField, ToSet
<1>8. \E f : ImplicitField("Component", f, "componentType", "varint")
  <2>1. "Component" \in Types /\ Fields["Component"] = ComponentFields
    BY DEF Types, Fields
  <2> DEFINE f == ComponentFields[1]
  <2>2. 1 \in DOMAIN ComponentFields /\ f.name = "componentType" /\ f.kind = "varint" /\ f.label = "implicit"
    BY DEF ComponentFields, Field
  <2> QED
    BY <2>1, <2>2 DEF ImplicitField, ToSet
<1> QED
  BY <1>1, <1>2, <1>3, <1>4, <1>6, <1>7, <1>8

(* Fields with a message, or a list of them. *)
MessageField(type, f, name, kind, label) ==
  /\ type \in Types /\ f \in ToSet(Fields[type])
  /\ f.name = name /\ f.kind = kind /\ f.label = label /\ IsMessage(kind)

(* Those that readPipesSection() and sendSetupMessage() fill.              *)
LEMMA MessageFieldsAre ==
  /\ \E f : MessageField("Property", f, "value_string", "ValueString", "oneof")
  /\ \E f : MessageField("Property", f, "value_bool", "ValueBool", "oneof")
  /\ \E f : MessageField("Property", f, "value_uint32", "ValueUint32", "oneof")
  /\ \E f : MessageField("Property", f, "value_double", "ValueDouble", "oneof")
  /\ \E f : MessageField("Component", f, "property", "Property", "repeated")
  /\ \E f : MessageField("Setup", f, "component", "Component", "repeated")
  /\ \E f : MessageField("Message", f, "setup", "Setup", "oneof")
<1>0. \A kind \in Types : IsMessage(kind)
  BY FieldsDomain DEF IsMessage
<1>1. /\ "Property" \in Types /\ Fields["Property"] = PropertyFields
      /\ 3 \in DOMAIN PropertyFields /\ 4 \in DOMAIN PropertyFields
      /\ 5 \in DOMAIN PropertyFields /\ 6 \in DOMAIN PropertyFields
  BY DEF Types, Fields, PropertyFields
<1>2. \E f : MessageField("Property", f, "value_string", "ValueString", "oneof")
  <2> DEFINE f == PropertyFields[3]
  <2>1. f.name = "value_string" /\ f.kind = "ValueString" /\ f.label = "oneof"
    BY DEF PropertyFields, Field
  <2>2. "ValueString" \in Types
    BY DEF Types
  <2> QED
    BY <1>0, <1>1, <2>1, <2>2 DEF MessageField, ToSet
<1>3. \E f : MessageField("Property", f, "value_bool", "ValueBool", "oneof")
  <2> DEFINE f == PropertyFields[4]
  <2>1. f.name = "value_bool" /\ f.kind = "ValueBool" /\ f.label = "oneof"
    BY DEF PropertyFields, Field
  <2>2. "ValueBool" \in Types
    BY DEF Types
  <2> QED
    BY <1>0, <1>1, <2>1, <2>2 DEF MessageField, ToSet
<1>4. \E f : MessageField("Property", f, "value_uint32", "ValueUint32", "oneof")
  <2> DEFINE f == PropertyFields[5]
  <2>1. f.name = "value_uint32" /\ f.kind = "ValueUint32" /\ f.label = "oneof"
    BY DEF PropertyFields, Field
  <2>2. "ValueUint32" \in Types
    BY DEF Types
  <2> QED
    BY <1>0, <1>1, <2>1, <2>2 DEF MessageField, ToSet
<1>5. \E f : MessageField("Property", f, "value_double", "ValueDouble", "oneof")
  <2> DEFINE f == PropertyFields[6]
  <2>1. f.name = "value_double" /\ f.kind = "ValueDouble" /\ f.label = "oneof"
    BY DEF PropertyFields, Field
  <2>2. "ValueDouble" \in Types
    BY DEF Types
  <2> QED
    BY <1>0, <1>1, <2>1, <2>2 DEF MessageField, ToSet
<1>6. \E f : MessageField("Component", f, "property", "Property", "repeated")
  <2>1. "Component" \in Types /\ Fields["Component"] = ComponentFields
    BY DEF Types, Fields
  <2> DEFINE f == ComponentFields[2]
  <2>2. /\ 2 \in DOMAIN ComponentFields
        /\ f.name = "property" /\ f.kind = "Property" /\ f.label = "repeated"
    BY DEF ComponentFields, Field
  <2> QED
    BY <1>0, <1>1, <2>1, <2>2 DEF MessageField, ToSet
<1>7. \E f : MessageField("Setup", f, "component", "Component", "repeated")
  <2>1. "Setup" \in Types /\ "Component" \in Types /\ Fields["Setup"] = SetupFields
    BY DEF Types, Fields
  <2> DEFINE f == SetupFields[3]
  <2>2. /\ 3 \in DOMAIN SetupFields
        /\ f.name = "component" /\ f.kind = "Component" /\ f.label = "repeated"
    BY DEF SetupFields, Field
  <2> QED
    BY <1>0, <2>1, <2>2 DEF MessageField, ToSet
<1>8. \E f : MessageField("Message", f, "setup", "Setup", "oneof")
  <2>1. "Message" \in Types /\ "Setup" \in Types /\ Fields["Message"] = MessageFields
    BY DEF Types, Fields
  <2> DEFINE f == MessageFields[3]
  <2>2. /\ 3 \in DOMAIN MessageFields
        /\ f.name = "setup" /\ f.kind = "Setup" /\ f.label = "oneof"
    BY DEF MessageFields, Field
  <2> QED
    BY <1>0, <2>1, <2>2 DEF MessageField, ToSet
<1> QED
  BY <1>2, <1>3, <1>4, <1>5, <1>6, <1>7, <1>8

(* A value without fields. *)
IsPlain(kind, v) ==
  \/ kind = "varint" /\ Fits(v)
  \/ kind = "fixed64" /\ IsBytes(v) /\ Len(v) = 8
  \/ kind = "bytes" /\ IsBytes(v)

(* A value is set in a field without presence.                             *)
LEMMA PlainSet ==
  ASSUME NEW depth \in 1 .. 5, NEW type, NEW f, NEW name, NEW kind,
         ImplicitField(type, f, name, kind), NEW m, MadeAt(depth, type, m), name \notin DOMAIN m,
         NEW v, IsPlain(kind, v), NEW q, q = Set(m, name, v, Default(kind))
  PROVE  MadeAt(depth, type, q)
<1> DEFINE default == Default(kind)
<1>1. /\ type \in Types /\ f \in ToSet(Fields[type])
      /\ f.name = name /\ f.kind = kind /\ f.label = "implicit"
  BY DEF ImplicitField
<1>2. "implicit" # "oneof" /\ "implicit" # "repeated"
  OBVIOUS
<1>3. ValueMade(depth, f, v)
  BY <1>1, Zenon DEF ValueMade, IsPlain
<1>4. v # default => FieldMade(depth, f, v)
  BY <1>1, <1>2, <1>3, Zenon DEF FieldMade
<1> HIDE DEF default
<1>5. q = Set(m, f.name, v, default)
  BY <1>1 DEF default
<1> QED
  BY <1>1, <1>2, <1>4, <1>5, SetMade

(* The defaults of numbers and of strings.                                 *)
LEMMA DefaultIs == Default("varint") = 0 /\ Default("bytes") = << >>
<1>1. "varint" # "fixed64" /\ "bytes" # "varint" /\ "bytes" # "fixed64"
  OBVIOUS
<1> QED
  BY <1>1, Zenon DEF Default

(* What is set in an empty message. *)
LEMMA ValueSet ==
  ASSUME NEW type, NEW f, NEW kind, ImplicitField(type, f, "value", kind), NEW v,
         IsPlain(kind, v), NEW q, q = Set(<< >>, "value", v, Default(kind))
  PROVE  MadeAt(1, type, q)
<1> DEFINE e == << >>
           d == 1
<1>1. DOMAIN e = {} /\ d \in 1 .. 5
  OBVIOUS
<1>2. MadeAt(d, type, e)
  BY <1>1, EmptyMade
<1>3. q = Set(e, "value", v, Default(kind))
  OBVIOUS
<1> HIDE DEF e, d
<1>4. MadeAt(d, type, q)
  BY <1>1, <1>2, <1>3, PlainSet
<1> QED
  BY <1>4 DEF d

(* A value message is set in an empty property.                            *)
LEMMA CaseSet ==
  ASSUME NEW f, NEW name, NEW kind, MessageField("Property", f, name, kind, "oneof"),
         NEW v, MadeAt(1, kind, v), NEW q, q = With(<< >>, name, v)
  PROVE  MadeAt(2, "Property", q) /\ DOMAIN q = {name}
<1> DEFINE e == << >>
           d == 2
<1>1. DOMAIN e = {} /\ d \in 1 .. 5 /\ d - 1 = 1 /\ "oneof" # "repeated" /\ "oneof" # "implicit"
  OBVIOUS
<1>2. MadeAt(d, "Property", e)
  BY <1>1, EmptyMade
<1>3. q = With(e, name, v)
  OBVIOUS
<1>4. /\ "Property" \in Types /\ f \in ToSet(Fields["Property"])
      /\ f.name = name /\ f.kind = kind /\ f.label = "oneof" /\ IsMessage(kind)
  BY DEF MessageField
<1> HIDE DEF e, d
<1>5. ValueMade(d, f, v)
  BY <1>1, <1>4 DEF ValueMade
<1>6. FieldMade(d, f, v)
  BY <1>1, <1>4, <1>5, Zenon DEF FieldMade
<1>7. MadeAt(d, "Property", q)
  BY <1>1, <1>2, <1>3, <1>4, <1>6, WithMade
<1>8. DOMAIN q = {name}
  BY <1>1, <1>3 DEF With
<1> QED
  BY <1>7, <1>8 DEF d

(* The value that is read of a setting. *)
LEMMA ValueOfMade ==
  ASSUME NEW p, IsTyped(p)
  PROVE  /\ MadeAt(2, "Property", ReadValueOf(p))
         /\ "name" \notin DOMAIN ReadValueOf(p) /\ "type" \notin DOMAIN ReadValueOf(p)
<1> DEFINE q == ReadValueOf(p)
<1>0. /\ p.type \in Nat /\ (p.type = 0 => IsBytes(p.value))
      /\ (p.type \in {1, 2} => Fits(p.value))
      /\ (p.type = 3 => IsBytes(p.value) /\ Len(p.value) = 8)
  BY DEF IsTyped, IsInt
<1>d. /\ ValueDefault("value_string") = << >>
      /\ ValueDefault("value_bool") = 0 /\ ValueDefault("value_uint32") = 0
      /\ ValueDefault("value_double") = Default("fixed64")
  BY DEF ValueDefault
<1>r. ASSUME p.type \in 0 .. 3
      PROVE  q = With(<< >>, ValueCase[p.type + 1],
                      Set(<< >>, "value", p.value, ValueDefault(ValueCase[p.type + 1])))
  BY <1>r, Zenon DEF ReadValueOf
<1>1. CASE p.type = 0
  <2> DEFINE v == Set(<< >>, "value", p.value, << >>)
  <2>1. PICK f : ImplicitField("ValueString", f, "value", "bytes")
    BY ImplicitFields
  <2>2. IsPlain("bytes", p.value)
    BY <1>0, <1>1 DEF IsPlain
  <2>3. MadeAt(1, "ValueString", v)
    <3>1. v = Set(<< >>, "value", p.value, Default("bytes"))
      BY DefaultIs
    <3> HIDE DEF v
    <3> QED
      BY <2>1, <2>2, <3>1, ValueSet
  <2>4. ValueCase[p.type + 1] = "value_string"
    BY <1>1 DEF ValueCase
  <2>5. q = With(<< >>, "value_string", v)
    <3>1. p.type \in 0 .. 3
      BY <1>1
    <3> HIDE DEF q
    <3> QED
      BY <1>d, <1>r, <2>4, <3>1
  <2>6. PICK g : MessageField("Property", g, "value_string", "ValueString", "oneof")
    BY MessageFieldsAre
  <2> HIDE DEF v, q
  <2>7. MadeAt(2, "Property", q) /\ DOMAIN q = {"value_string"}
    BY <2>3, <2>5, <2>6, CaseSet
  <2> QED
    BY <2>7 DEF q
<1>2. CASE p.type = 1
  <2> DEFINE v == Set(<< >>, "value", p.value, 0)
  <2>1. PICK f : ImplicitField("ValueBool", f, "value", "varint")
    BY ImplicitFields
  <2>2. IsPlain("varint", p.value)
    BY <1>0, <1>2 DEF IsPlain
  <2>3. MadeAt(1, "ValueBool", v)
    <3>1. v = Set(<< >>, "value", p.value, Default("varint"))
      BY DefaultIs
    <3> HIDE DEF v
    <3> QED
      BY <2>1, <2>2, <3>1, ValueSet
  <2>4. ValueCase[p.type + 1] = "value_bool"
    BY <1>2 DEF ValueCase
  <2>5. q = With(<< >>, "value_bool", v)
    <3>1. p.type \in 0 .. 3
      BY <1>2
    <3> HIDE DEF q
    <3> QED
      BY <1>d, <1>r, <2>4, <3>1
  <2>6. PICK g : MessageField("Property", g, "value_bool", "ValueBool", "oneof")
    BY MessageFieldsAre
  <2> HIDE DEF v, q
  <2>7. MadeAt(2, "Property", q) /\ DOMAIN q = {"value_bool"}
    BY <2>3, <2>5, <2>6, CaseSet
  <2> QED
    BY <2>7 DEF q
<1>3. CASE p.type = 2
  <2> DEFINE v == Set(<< >>, "value", p.value, 0)
  <2>1. PICK f : ImplicitField("ValueUint32", f, "value", "varint")
    BY ImplicitFields
  <2>2. IsPlain("varint", p.value)
    BY <1>0, <1>3 DEF IsPlain
  <2>3. MadeAt(1, "ValueUint32", v)
    <3>1. v = Set(<< >>, "value", p.value, Default("varint"))
      BY DefaultIs
    <3> HIDE DEF v
    <3> QED
      BY <2>1, <2>2, <3>1, ValueSet
  <2>4. ValueCase[p.type + 1] = "value_uint32"
    BY <1>3 DEF ValueCase
  <2>5. q = With(<< >>, "value_uint32", v)
    <3>1. p.type \in 0 .. 3
      BY <1>3
    <3> HIDE DEF q
    <3> QED
      BY <1>d, <1>r, <2>4, <3>1
  <2>6. PICK g : MessageField("Property", g, "value_uint32", "ValueUint32", "oneof")
    BY MessageFieldsAre
  <2> HIDE DEF v, q
  <2>7. MadeAt(2, "Property", q) /\ DOMAIN q = {"value_uint32"}
    BY <2>3, <2>5, <2>6, CaseSet
  <2> QED
    BY <2>7 DEF q
<1>4. CASE p.type = 3
  <2> DEFINE v == Set(<< >>, "value", p.value, Default("fixed64"))
  <2>1. PICK f : ImplicitField("ValueDouble", f, "value", "fixed64")
    BY ImplicitFields
  <2>2. IsPlain("fixed64", p.value)
    BY <1>0, <1>4 DEF IsPlain
  <2>3. MadeAt(1, "ValueDouble", v)
    BY <2>1, <2>2, ValueSet
  <2>4. ValueCase[p.type + 1] = "value_double"
    BY <1>4 DEF ValueCase
  <2>5. q = With(<< >>, "value_double", v)
    <3>1. p.type \in 0 .. 3
      BY <1>4
    <3> HIDE DEF q
    <3> QED
      BY <1>d, <1>r, <2>4, <3>1
  <2>6. PICK g : MessageField("Property", g, "value_double", "ValueDouble", "oneof")
    BY MessageFieldsAre
  <2> HIDE DEF v, q
  <2>7. MadeAt(2, "Property", q) /\ DOMAIN q = {"value_double"}
    BY <2>3, <2>5, <2>6, CaseSet
  <2> QED
    BY <2>7 DEF q
<1>5. CASE p.type \notin 0 .. 3
  <2>2. q = << >>
    BY <1>5, Zenon DEF ReadValueOf
  <2>3. DOMAIN << >> = {} /\ 2 \in 1 .. 5
    OBVIOUS
  <2>4. MadeAt(2, "Property", << >>)
    BY <2>3, EmptyMade
  <2> HIDE DEF q
  <2> QED
    BY <2>2, <2>3, <2>4 DEF q
<1> QED
  BY <1>0, <1>1, <1>2, <1>3, <1>4, <1>5

(* A setting is read into a property.                                      *)
LEMMA PropertyMade ==
  ASSUME NEW p, IsTyped(p)
  PROVE  MadeAt(2, "Property", ReadProperty(p))
<1> DEFINE m == ReadValueOf(p)
           n == Set(m, "name", p.name, Default("bytes"))
           q == Set(n, "type", p.type, Default("varint"))
           d == 2
<1>1. MadeAt(d, "Property", m) /\ "name" \notin DOMAIN m /\ "type" \notin DOMAIN m /\ d \in 1 .. 5
  BY ValueOfMade
<1>2. IsPlain("bytes", p.name) /\ IsPlain("varint", p.type)
  BY IntFits DEF IsPlain, IsTyped
<1>3. PICK f : ImplicitField("Property", f, "name", "bytes")
  BY ImplicitFields
<1>4. PICK g : ImplicitField("Property", g, "type", "varint")
  BY ImplicitFields
<1>5. ReadProperty(p) = q
  BY DefaultIs, Zenon DEF ReadProperty
<1> HIDE DEF m, d
<1>6. MadeAt(d, "Property", n)
  BY <1>1, <1>2, <1>3, PlainSet
<1>7. "type" \notin DOMAIN n
  BY <1>1, SetOther
<1> HIDE DEF n
<1>8. MadeAt(d, "Property", q)
  BY <1>1, <1>2, <1>4, <1>6, <1>7, PlainSet
<1> QED
  BY <1>5, <1>8 DEF d

(* A list of messages is set; an empty list is left out. *)
LEMMA ListSet ==
  ASSUME NEW depth \in 1 .. 5, NEW d, d = depth - 1, NEW type, NEW f, NEW name, NEW kind,
         MessageField(type, f, name, kind, "repeated"),
         NEW n \in Nat, NEW s, s = [i \in 1 .. n |-> s[i]],
         \A i \in 1 .. n : MadeAt(d, kind, s[i]),
         NEW q, q = Set(<< >>, name, s, << >>)
  PROVE  MadeAt(depth, type, q)
<1> DEFINE e == << >>
<1>1. DOMAIN e = {} /\ "repeated" # "oneof"
  OBVIOUS
<1>2. MadeAt(depth, type, e)
  BY EmptyMade
<1>3. /\ type \in Types /\ f \in ToSet(Fields[type])
      /\ f.name = name /\ f.kind = kind /\ f.label = "repeated" /\ IsMessage(kind)
  BY DEF MessageField
<1>4. Len(s) = n /\ DOMAIN s = 1 .. n
  BY LenOf
<1>5. s \in Seq(ToSet(s))
  <2>1. \A i \in 1 .. n : s[i] \in ToSet(s)
    BY <1>4 DEF ToSet
  <2> QED
    BY <2>1, IsASeq
<1>6. \A i \in DOMAIN s : ValueMade(depth, f, s[i])
  BY <1>3, <1>4 DEF ValueMade
<1> HIDE DEF e
<1>7. s # e => FieldMade(depth, f, s)
  BY <1>3, <1>5, <1>6 DEF FieldMade, e
<1>8. q = Set(e, f.name, s, e)
  BY <1>3 DEF e
<1> QED
  BY <1>1, <1>2, <1>3, <1>7, <1>8, SetMade

(* The numbers read are those of entries. *)
LEMMA ReadOfEntries ==
  ASSUME NEW entries, DOMAIN entries \subseteq Nat,
         NEW i \in 1 .. Cardinality(GapFree(entries))
  PROVE  i - 1 \in DOMAIN entries
<1>1. Cardinality(GapFree(entries)) \in Nat
      /\ GapFree(entries) = 0 .. Cardinality(GapFree(entries)) - 1
  BY GapFreeIs
<1>2. i - 1 \in GapFree(entries)
  BY <1>1
<1> QED
  BY <1>2 DEF GapFree

(* A component is read with its properties.                                *)
LEMMA ComponentMade ==
  ASSUME NEW c, DOMAIN c.properties \subseteq Nat, IsInt(c.type),
         \A e \in DOMAIN c.properties : IsTyped(c.properties[e])
  PROVE  MadeAt(3, "Component", ReadComponent(c))
<1> DEFINE entries == c.properties
           n == Cardinality(GapFree(entries))
           s == [i \in 1 .. n |-> ReadProperty(entries[i - 1])]
           m == Set(<< >>, "property", s, << >>)
           q == Set(m, "componentType", c.type, Default("varint"))
           d == 3
           b == 2
<1>1. n \in Nat /\ d \in 1 .. 5 /\ b = d - 1 /\ "property" # "componentType"
  BY GapFreeIs
<1>2. ReadComponent(c) = q
  BY DefaultIs, Zenon DEF ReadComponent, InOrderOf
<1>3. ASSUME NEW i \in 1 .. n PROVE MadeAt(b, "Property", s[i])
  <2>1. i - 1 \in DOMAIN entries
    BY ReadOfEntries
  <2> DEFINE p == entries[i - 1]
  <2>2. IsTyped(p) /\ s[i] = ReadProperty(p)
    BY <2>1
  <2> HIDE DEF p, s
  <2> QED
    BY <2>2, PropertyMade
<1>4. s = [i \in 1 .. n |-> s[i]]
  OBVIOUS
<1> HIDE DEF s, n, d, b
<1>5. PICK f : MessageField("Component", f, "property", "Property", "repeated")
  BY MessageFieldsAre
<1>6. MadeAt(d, "Component", m) /\ DOMAIN m \subseteq {"property"}
  <2>1. m = Set(<< >>, "property", s, << >>)
    OBVIOUS
  <2> HIDE DEF m
  <2>2. b = d - 1 /\ d \in 1 .. 5
    BY <1>1
  <2>3. MadeAt(d, "Component", m)
    BY <1>1, <1>3, <1>4, <1>5, <2>1, <2>2, ListSet
  <2>4. DOMAIN m \subseteq {"property"}
    BY <2>1 DEF Set, With, Without
  <2> QED
    BY <2>3, <2>4
<1>7. PICK g : ImplicitField("Component", g, "componentType", "varint")
  BY ImplicitFields
<1>8. IsPlain("varint", c.type)
  BY IntFits DEF IsPlain
<1> HIDE DEF m
<1>9. "componentType" \notin DOMAIN m
  BY <1>1, <1>6
<1>10. MadeAt(d, "Component", q)
  BY <1>1, <1>6, <1>7, <1>8, <1>9, PlainSet
<1> QED
  BY <1>2, <1>10 DEF d

(* What sendSetupMessage() makes of a section can be sent, if it is not    *)
(* too long.                                                               *)
LEMMA SetupSent ==
  ASSUME NEW section \in Sections
  PROVE  IsSent(SetupMessage(ReadPipes(section)[1]))
<1> DEFINE pipe == section[0]
           n == Cardinality(GapFree(pipe))
           s == [i \in 1 .. n |-> ReadComponent(pipe[i - 1])]
           m == Set(<< >>, "component", s, << >>)
           q == SetupMessage(s)
           four == 4
           three == 3
           five == 5
<1>1. /\ 0 \in DOMAIN section /\ DOMAIN section \subseteq Nat /\ DOMAIN pipe \subseteq Nat
      /\ \A c \in DOMAIN pipe :
           /\ DOMAIN pipe[c].properties \subseteq Nat /\ IsInt(pipe[c].type)
           /\ \A e \in DOMAIN pipe[c].properties : IsTyped(pipe[c].properties[e])
  BY SectionsAssumption DEF IsSection
<1>2. /\ n \in Nat /\ three = four - 1 /\ four = five - 1 /\ four \in 1 .. 5 /\ five \in 1 .. 5
      /\ "oneof" # "repeated" /\ "oneof" # "implicit"
  BY <1>1, GapFreeIs
<1>3. ReadPipes(section)[1] = s
  <2>1. 0 \in GapFree(section)
    BY <1>1 DEF GapFree
  <2>2. 1 \in 1 .. Cardinality(GapFree(section)) /\ 1 - 1 = 0
    BY <1>1, <2>1, GapFreeIs
  <2>3. ReadPipes(section)[1] = ReadPipe(pipe)
    BY <2>2, SectionRead
  <2> QED
    BY <2>3, PipeRead
<1>4. ASSUME NEW i \in 1 .. n PROVE MadeAt(three, "Component", s[i])
  <2>1. i - 1 \in DOMAIN pipe
    BY <1>1, ReadOfEntries
  <2> DEFINE c == pipe[i - 1]
  <2>2. /\ s[i] = ReadComponent(c) /\ DOMAIN c.properties \subseteq Nat /\ IsInt(c.type)
        /\ \A e \in DOMAIN c.properties : IsTyped(c.properties[e])
    BY <1>1, <2>1
  <2> HIDE DEF c, s
  <2> QED
    BY <2>2, ComponentMade
<1>5. s = [i \in 1 .. n |-> s[i]]
  OBVIOUS
<1> HIDE DEF s, n, pipe, three, four, five
<1>6. PICK f : MessageField("Setup", f, "component", "Component", "repeated")
  BY MessageFieldsAre
<1>7. MadeAt(four, "Setup", m)
  BY <1>2, <1>4, <1>5, <1>6, ListSet
<1>8. PICK g : MessageField("Message", g, "setup", "Setup", "oneof")
  BY MessageFieldsAre
<1>9. /\ "Message" \in Types /\ g \in ToSet(Fields["Message"])
      /\ g.name = "setup" /\ g.kind = "Setup" /\ g.label = "oneof" /\ IsMessage("Setup")
  BY <1>8 DEF MessageField
<1> DEFINE e == << >>
<1>10. q = With(e, g.name, m)
  BY <1>9 DEF SetupMessage
<1>11. DOMAIN e = {}
  OBVIOUS
<1> HIDE DEF m, q, e
<1>12. FieldMade(five, g, m)
  <2>1. ValueMade(five, g, m)
    BY <1>2, <1>7, <1>9 DEF ValueMade
  <2> QED
    BY <1>2, <1>9, <2>1, Zenon DEF FieldMade
<1>13. MadeAt(five, "Message", q)
  <2>1. MadeAt(five, "Message", e)
    BY <1>2, EmptyMade DEF e
  <2> QED
    BY <1>2, <1>9, <1>10, <1>11, <1>12, <2>1, WithMade
<1>14. IsMade("Message", q, IsBody)
  BY <1>13, AtTop DEF five
<1>15. Cases("Message") \cap DOMAIN q # {}
  <2>1. "setup" \in DOMAIN q
    BY <1>9, <1>10 DEF With
  <2>2. "setup" \in Cases("Message")
    BY <1>9 DEF Cases
  <2> QED
    BY <2>1, <2>2
<1>16. SetupMessage(ReadPipes(section)[1]) = q
  BY <1>3 DEF q
<1>17. IsInt(Serialize(q).size)
  BY <1>16, SectionsAssumption
<1> QED
  BY <1>14, <1>15, <1>16, <1>17 DEF IsSent

-----------------------------------------------------------------------------
(* The link.                                                               *)

(* What was sent can be sent, the settings are those of a client, and the  *)
(* last call of dispatch() parsed the bytes it is said to have parsed.     *)
LinkInv ==
  /\ SentInv
  /\ settings \in Sections
  /\ \/ last.from = last.upto
     \/ last.result = ParseFromArray(SubSeq(wire, last.from + 1, last.upto))

(* Sequences of messages that can be sent, one after the other. *)
LEMMA SentConcat ==
  ASSUME NEW p, p \in Seq(ToSet(p)), \A m \in ToSet(p) : IsSent(m),
         NEW q, q \in Seq(ToSet(q)), \A m \in ToSet(q) : IsSent(m)
  PROVE  /\ p \o q \in Seq(ToSet(p \o q))
         /\ \A k \in DOMAIN (p \o q) : IsSent((p \o q)[k])
<1> DEFINE S == ToSet(p) \cup ToSet(q)
           s == p \o q
<1>1. p \in Seq(S) /\ q \in Seq(S)
  <2>1. \A k \in 1 .. Len(p) : p[k] \in S
    BY ElementOfSeq
  <2>2. \A k \in 1 .. Len(q) : q[k] \in S
    BY ElementOfSeq
  <2> QED
    BY <2>1, <2>2, IsASeq, LenProperties
<1>2. \A m \in S : IsSent(m)
  OBVIOUS
<1> HIDE DEF S
<1>3. s \in Seq(S)
  BY <1>1, ConcatProperties
<1> HIDE DEF s
<1>4. DOMAIN s = 1 .. Len(s) /\ Len(s) \in Nat
  BY <1>3, LenProperties
<1>5. \A k \in DOMAIN s : s[k] \in S
  BY <1>3, <1>4, ElementOfSeq
<1>6. s \in Seq(ToSet(s))
  <2>1. \A k \in 1 .. Len(s) : s[k] \in ToSet(s)
    BY <1>4 DEF ToSet
  <2>2. s = [k \in 1 .. Len(s) |-> s[k]]
    BY <1>3, LenProperties
  <2> QED
    BY <1>4, <2>1, <2>2, IsASeq
<1> QED
  BY <1>2, <1>5, <1>6 DEF s

(* LinkInv is inductive.                                                   *)
LEMMA LinkInit == Init => LinkInv
<1> SUFFICES ASSUME Init PROVE LinkInv
  OBVIOUS
<1> DEFINE setup == SetupMessage(ReadPipes(settings)[1])
           alone == << setup >>
<1>1. settings \in Sections /\ last.from = last.upto
      /\ wire = Joined([k \in DOMAIN stream |-> Serialize(stream[k])]).bytes
  BY DEF Init
<1>2. IsSent(setup)
  BY <1>1, SetupSent
<1>3. PICK messages \in Others : stream = alone \o messages \/ stream = messages \o alone
  BY DEF Init
<1> HIDE DEF setup
<1>4. alone \in Seq(ToSet(alone)) /\ \A m \in ToSet(alone) : IsSent(m)
  <2>1. DOMAIN alone = 1 .. 1 /\ alone[1] = setup
    OBVIOUS
  <2>2. ToSet(alone) = {setup}
    BY <2>1 DEF ToSet
  <2>3. alone \in Seq({setup})
    OBVIOUS
  <2> QED
    BY <1>2, <2>2, <2>3
<1> HIDE DEF alone
<1>5. messages \in Seq(ToSet(messages)) /\ \A m \in ToSet(messages) : IsSent(m)
  BY OthersAssumption
<1>6. stream \in Seq(ToSet(stream)) /\ \A k \in DOMAIN stream : IsSent(stream[k])
  BY <1>3, <1>4, <1>5, SentConcat
<1> QED
  BY <1>1, <1>6 DEF LinkInv, SentInv

LEMMA LinkStep == LinkInv /\ [Next]_vars => LinkInv'
<1> SUFFICES ASSUME LinkInv, [Next]_vars PROVE LinkInv'
  OBVIOUS
<1>1. ASSUME NEW n, Recv(n) PROVE LinkInv'
  <2>1. stream' = stream /\ wire' = wire /\ settings' = settings
    BY <1>1 DEF Recv
  <2>2. SentInv'
    BY <2>1 DEF LinkInv, SentInv
  <2>3. last'.result = ParseFromArray(SubSeq(wire', last'.from + 1, last'.upto))
    <3> DEFINE result == ParseFromArray(SubSeq(wire, from + 1, upto'))
    <3>1. last' = [from |-> from, upto |-> upto', result |-> result]
      BY <1>1, Zenon DEF Recv
    <3>2. last'.from = from /\ last'.upto = upto' /\ last'.result = result
      <4> HIDE DEF result
      <4> QED
        BY <3>1
    <3> QED
      BY <2>1, <3>2, Zenon
  <2> QED
    BY <2>1, <2>2, <2>3 DEF LinkInv
<1>2. ASSUME UNCHANGED vars PROVE LinkInv'
  BY <1>2 DEF LinkInv, SentInv, vars
<1> QED
  BY <1>1, <1>2 DEF Next

(* Every state satisfies it.                                               *)
LEMMA LinkIsInv == Spec => []LinkInv
BY LinkInit, LinkStep, PTL DEF Spec

(* What dispatch() returns for the whole messages i to j. *)
LEMMA LastTogether ==
  ASSUME LinkInv, NEW i \in DOMAIN stream, NEW j \in DOMAIN stream, i <= j,
         last.from = Start(i), last.upto = Start(j + 1)
  PROVE  last.result = [ok |-> TRUE, msg |-> MergedTo(i, j)]
<1>1. ReadsTogether(i, j)
  BY Together DEF LinkInv
<1>2. last.from # last.upto
  BY <1>1 DEF ReadsTogether
<1> QED
  BY <1>1, <1>2, Zenon DEF ReadsTogether, LinkInv

(* What dispatch() returns for one message alone.                          *)
LEMMA LastAlone ==
  ASSUME LinkInv, NEW k \in DOMAIN stream, last.from = Start(k), last.upto = Start(k + 1)
  PROVE  last.result = [ok |-> TRUE, msg |-> stream[k]]
<1>1. k <= k
  <2>1. DOMAIN stream \subseteq Nat
    BY LenProperties DEF LinkInv, SentInv
  <2> QED
    BY <2>1
<1>2. last.result = [ok |-> TRUE, msg |-> MergedTo(k, k)]
  BY <1>1, LastTogether
<1>3. MergedTo(k, k) = stream[k]
  BY MergedAlone DEF LinkInv
<1> QED
  BY <1>2, <1>3

(* A message that is received alone is received as it was sent, whatever   *)
(* its fields, lists and nested messages are (_InternalSerialize(),        *)
(* ByteSizeLong(), _InternalParse(), dispatch()).                          *)
THEOREM SentIsReceived == Spec => []ReceivedAsSent
<1>1. LinkInv => ReceivedAsSent
  BY LastAlone DEF ReceivedAsSent
<1> QED
  BY <1>1, LinkIsInv, PTL

(* Whole messages that are received together are received as MergeImpl()   *)
(* merges them, however many they are: lists are joined, and of the oneof  *)
(* the last case is kept.                                                  *)
THEOREM PartsAreMerged == Spec => []TogetherIsMerged
<1>1. LinkInv => TogetherIsMerged
  <2> SUFFICES ASSUME LinkInv, NEW i \in DOMAIN stream, NEW j \in DOMAIN stream,
                      i < j, last.from = Start(i), last.upto = Start(j + 1)
               PROVE  last.result = [ok |-> TRUE, msg |-> MergedTo(i, j)]
    BY DEF TogetherIsMerged
  <2>1. i <= j
    <3>1. DOMAIN stream \subseteq Nat
      BY LenProperties DEF LinkInv, SentInv
    <3> QED
      BY <3>1
  <2> QED
    BY <2>1, LastTogether
<1> QED
  BY <1>1, LinkIsInv, PTL

(* What the factory looks up in a Setup that it received alone is the      *)
(* first entry of that name and type before the first gap in the client's  *)
(* settings, or its default (readPipesSection, sendSetupMessage, dispatch, *)
(* PropertyUtil).                                                          *)
THEOREM FactoryFinds == Spec => []SettingsReachFactory
<1>1. LinkInv => SettingsReachFactory
  <2> SUFFICES ASSUME LinkInv, NEW k \in DOMAIN stream,
                      last.from = Start(k), last.upto = Start(k + 1),
                      stream[k] = SetupMessage(ReadPipes(settings)[1])
               PROVE  FindsFirst(Get(Get(last.result.msg, "setup", << >>), "component", << >>),
                                 settings[0], 99)
    BY DEF SettingsReachFactory
  <2>1. last.result.msg = SetupMessage(ReadPipes(settings)[1])
    <3> DEFINE m == stream[k]
    <3>1. last.result = [ok |-> TRUE, msg |-> m]
      BY LastAlone
    <3>2. m = SetupMessage(ReadPipes(settings)[1])
      OBVIOUS
    <3> HIDE DEF m
    <3>3. last.result.msg = m
      BY <3>1
    <3> QED
      BY <3>2, <3>3
  <2>2. IsSection(settings) /\ 0 \in DOMAIN settings
    BY SectionsAssumption DEF LinkInv
  <2> QED
    BY <2>1, <2>2, SettingsAreFound
<1> QED
  BY <1>1, LinkIsInv, PTL

=============================================================================
