-------------------------- MODULE SnpClientProofs --------------------------
(***************************************************************************)
(* Proofs about SnpClient for every set of pipes, every number of local    *)
(* pipes and every number of pictures: type correctness, KeepsItsPlace,    *)
(* InOrder, NonzeroPipeKept, AtMostOneSetup, SafeAfterStartup, and that    *)
(* the client's link implements LossyChannel.                              *)
(***************************************************************************)
EXTENDS SnpClient, SequenceTheorems, WellFoundedInduction, TLAPS

-----------------------------------------------------------------------------
(* The inductive invariant speaks of the whole stream that was sent and    *)
(* not yet dispatched, whichever part of it recv() has returned.           *)

Stream == buffer \o inFlight

(* The units of the stream follow one another as Serialized wrote them. *)
Chained(s) ==
  \A i \in 1 .. Len(s) - 1 :
    /\ s[i].part = "type" => s[i + 1].part = "head"
    /\ s[i].part = "head" => s[i + 1].part = "body"
    /\ s[i].part = "body" => s[i + 1].part = "type"

(* It starts at a field and, while the connection lasts, ends with one. *)
Framed ==
  /\ Chained(Stream)
  /\ Stream # << >> => Stream[1].part # "body"
  /\ peer \in {"none", "open"} /\ Stream # << >> => Stream[Len(Stream)].part = "body"
  /\ buffer # << >> => buffer[Len(buffer)].part = "head"

(* What follows the body of a picture belongs to a later picture. *)
Ordered(s) ==
  \A i, j \in 1 .. Len(s) :
    i < j /\ s[i].part = "body" /\ s[i].kind = "DATA" /\ s[j].kind = "DATA"
      => s[i].frame < s[j].frame

(* Every unit of a picture in s is newer than all of d, and tells its pipe. *)
Fresh(s, d, pipes) ==
  \A i \in 1 .. Len(s) :
    s[i].kind = "DATA" =>
      /\ s[i].frame \in 1 .. Len(pipes)
      /\ s[i].pipe = pipes[s[i].frame]
      /\ \A k \in 1 .. Len(d) : d[k].frame < s[i].frame

Pictures ==
  /\ Ordered(Stream)
  /\ Fresh(Stream, delivered, sent)

(* The greeting is in the stream at most once, and not after its Setup. *)
IsGreeting(u) == u.part = "type" /\ u.kind = "CAPABILITIES"

Greeting ==
  /\ setups <= 1
  /\ ~greeted => setups = 0
  /\ \A i \in 1 .. Len(Stream) : IsGreeting(Stream[i]) => greeted /\ setups = 0
  /\ \A i, j \in 1 .. Len(Stream) :
       IsGreeting(Stream[i]) /\ IsGreeting(Stream[j]) => i = j

-----------------------------------------------------------------------------
(* A non-empty set of numbers with an upper bound has a maximum. *)
LEMMA MaxOfBounded ==
  ASSUME NEW S, S \subseteq Nat, S # {},
         NEW n \in Nat, \A x \in S : x <= n
  PROVE  Max(S) \in S /\ \A x \in S : x <= Max(S)
<1> DEFINE T == {n - x : x \in S}
           Less == {p \in Nat \X Nat : p[1] < p[2]}
<1>1. T \subseteq Nat /\ T # {}
  <2>1. ASSUME NEW x \in S PROVE n - x \in Nat
    <3>1. x \in Nat /\ x <= n
      OBVIOUS
    <3> QED BY <3>1
  <2> QED BY <2>1
<1>2. PICK t \in T : \A y \in T : ~ (<<y, t>> \in Less)
  <2>1. IsWellFoundedOn(Less, Nat)
    BY NatLessThanWellFounded, Zenon DEF OpToRel
  <2> HIDE DEF T, Less
  <2> QED BY <1>1, <2>1, WFMin
<1>3. ASSUME NEW y \in T PROVE t <= y
  <2>1. y \in Nat /\ t \in Nat
    BY <1>1
  <2>2. y < t => <<y, t>> \in Less
    BY <2>1
  <2> HIDE DEF T, Less
  <2> QED BY <1>2, <2>1, <2>2
<1>4. PICK m \in S : t = n - m
  OBVIOUS
<1>5. \A x \in S : m >= x
  BY <1>3, <1>4
<1> QED BY <1>5 DEF Max

(* What a buffer that parses yields, in terms of its last body. *)
LEMMA LastPart ==
  ASSUME NEW b \in Seq(Unit), NEW part, PartsOf(b, part) # {}
  PROVE  /\ Max(PartsOf(b, part)) \in 1 .. Len(b)
         /\ b[Max(PartsOf(b, part))].part = part
         /\ \A i \in 1 .. Len(b) : b[i].part = part => i <= Max(PartsOf(b, part))
<1>1. PartsOf(b, part) \subseteq 1 .. Len(b) /\ Len(b) \in Nat
  BY DEF PartsOf
<1>2. /\ Max(PartsOf(b, part)) \in PartsOf(b, part)
      /\ \A i \in PartsOf(b, part) : i <= Max(PartsOf(b, part))
  BY <1>1, MaxOfBounded
<1> QED BY <1>1, <1>2 DEF PartsOf

LEMMA ParsedTypeOfGreeting ==
  ASSUME NEW b \in Seq(Unit), ParsedType(b) = "CAPABILITIES"
  PROVE  \E i \in 1 .. Len(b) : IsGreeting(b[i])
<1>1. PartsOf(b, "type") # {}
  BY DEF ParsedType
<1> QED BY <1>1, LastPart DEF ParsedType, IsGreeting

LEMMA ParsedPicture ==
  ASSUME NEW b \in Seq(Unit), ParsedFrame(b) # 0
  PROVE  \E m \in 1 .. Len(b) :
           /\ b[m].part = "body" /\ b[m].kind = "DATA"
           /\ ParsedFrame(b) = b[m].frame
           /\ b[m].pipe # 0 => ParsedPipe(b, "DATA") = b[m].pipe
<1> DEFINE bodies == PartsOf(b, "body")
           m == Max(bodies)
           written == {i \in Merged(b, "DATA") : b[i].pipe # 0}
<1>1. bodies # {} /\ b[m].kind = "DATA" /\ ParsedFrame(b) = b[m].frame
  BY DEF ParsedFrame
<1>2. /\ m \in 1 .. Len(b) /\ b[m].part = "body"
      /\ \A i \in 1 .. Len(b) : b[i].part = "body" => i <= m
  BY <1>1, LastPart
<1>3. ASSUME b[m].pipe # 0 PROVE ParsedPipe(b, "DATA") = b[m].pipe
  <2>1. /\ written \subseteq bodies /\ bodies \subseteq Nat
        /\ \A i \in bodies : i <= m
    BY <1>2 DEF Merged, PartsOf
  <2>2. m \in Merged(b, "DATA")
    <3>1. m \in bodies
      BY <1>2 DEF PartsOf
    <3>2. \A j \in bodies : j >= m => j = m
      BY <2>1, <1>2
    <3> QED BY <3>1, <3>2, <1>1 DEF Merged
  <2>3. m \in written
    BY <2>2, <1>3
  <2>4. Max(written) \in written /\ \A i \in written : i <= Max(written)
    <3> HIDE DEF written, bodies, m
    <3> QED BY <2>1, <2>3, <1>2, MaxOfBounded
  <2>5. Max(written) = m
    <3> HIDE DEF written, bodies, m
    <3>1. Max(written) \in Nat /\ m \in Nat
      BY <2>1, <2>3, <2>4
    <3>2. Max(written) <= m /\ m <= Max(written)
      BY <2>1, <2>3, <2>4
    <3> QED BY <3>1, <3>2
  <2> QED BY <2>3, <2>5 DEF ParsedPipe
<1> QED BY <1>1, <1>2, <1>3

LEMMA ParsedValues ==
  ASSUME NEW b \in Seq(Unit)
  PROVE  /\ ParsedFrame(b) \in Nat
         /\ ParsedPipe(b, "DATA") \in Pipes
<1>1. ParsedFrame(b) \in Nat
  <2>1. CASE ParsedFrame(b) = 0
    BY <2>1
  <2>2. CASE ParsedFrame(b) # 0
    <3>1. PICK m \in 1 .. Len(b) : ParsedFrame(b) = b[m].frame
      BY <2>2, ParsedPicture
    <3>2. b[m] \in Unit
      BY ElementOfSeq
    <3> QED BY <3>1, <3>2 DEF Unit
  <2> QED BY <2>1, <2>2
<1>2. ParsedPipe(b, "DATA") \in Pipes
  <2> DEFINE written == {i \in Merged(b, "DATA") : b[i].pipe # 0}
  <2>1. CASE written = {}
    BY <2>1, PipesAssumption DEF ParsedPipe
  <2>2. CASE written # {}
    <3>1. /\ written \subseteq Nat /\ Len(b) \in Nat
          /\ \A i \in written : i \in 1 .. Len(b) /\ i <= Len(b)
      BY DEF Merged, PartsOf
    <3>2. Max(written) \in written
      <4> HIDE DEF written
      <4> QED BY <2>2, <3>1, MaxOfBounded
    <3>3. b[Max(written)] \in Unit
      BY <3>1, <3>2, ElementOfSeq
    <3> QED BY <2>2, <3>3 DEF ParsedPipe, Unit
  <2> QED BY <2>1, <2>2
<1> QED BY <1>1, <1>2

-----------------------------------------------------------------------------
(* Cutting the stream: what holds of it holds of every window of it. *)

Window(t, s, k) ==
  Len(t) + k <= Len(s) /\ \A i \in 1 .. Len(t) : t[i] = s[i + k]

LEMMA WindowKeeps ==
  ASSUME NEW s \in Seq(Unit), NEW t \in Seq(Unit), NEW k \in Nat, Window(t, s, k)
  PROVE  /\ Chained(s) => Chained(t)
         /\ Ordered(s) => Ordered(t)
         /\ \A d, pipes : Fresh(s, d, pipes) => Fresh(t, d, pipes)
<1>1. Len(s) \in Nat /\ Len(t) \in Nat
  OBVIOUS
<1>2. \A i \in 1 .. Len(t) : i + k \in 1 .. Len(s) /\ t[i] = s[i + k]
  BY <1>1 DEF Window
<1>3. ASSUME Chained(s), NEW i \in 1 .. Len(t) - 1
      PROVE  i + k \in 1 .. Len(s) - 1 /\ t[i] = s[i + k] /\ t[i + 1] = s[(i + k) + 1]
  <2>1. i \in 1 .. Len(t) /\ i + 1 \in 1 .. Len(t) /\ (i + 1) + k = (i + k) + 1
    BY <1>1
  <2>2. (i + 1) + k <= Len(s)
    BY <1>2, <2>1
  <2> QED BY <1>1, <1>2, <2>1, <2>2
<1>4. Chained(s) => Chained(t)
  BY <1>3 DEF Chained
<1>5. Ordered(s) => Ordered(t)
  <2>1. \A i, j \in 1 .. Len(t) : i < j => i + k < j + k
    BY <1>1
  <2> QED BY <1>2, <2>1 DEF Ordered
<1>6. \A d, pipes : Fresh(s, d, pipes) => Fresh(t, d, pipes)
  BY <1>2 DEF Fresh
<1> QED BY <1>4, <1>5, <1>6

(* The stream, unit by unit. *)
LEMMA StreamUnits ==
  ASSUME NEW b \in Seq(Unit), NEW q \in Seq(Unit)
  PROVE  /\ b \o q \in Seq(Unit)
         /\ Len(b \o q) = Len(b) + Len(q)
         /\ Window(b, b \o q, 0)
         /\ Window(q, b \o q, Len(b))
<1>1. Len(b) \in Nat /\ Len(q) \in Nat
  OBVIOUS
<1>2. /\ b \o q \in Seq(Unit)
      /\ Len(b \o q) = Len(b) + Len(q)
      /\ \A i \in 1 .. Len(b) + Len(q) :
           (b \o q)[i] = IF i <= Len(b) THEN b[i] ELSE q[i - Len(b)]
  BY ConcatProperties
<1>3. \A i \in 1 .. Len(b) : (b \o q)[i + 0] = b[i]
  BY <1>1, <1>2
<1>4. \A i \in 1 .. Len(q) : (b \o q)[i + Len(b)] = q[i]
  <2> TAKE i \in 1 .. Len(q)
  <2>1. /\ i + Len(b) \in 1 .. Len(b) + Len(q) /\ ~ (i + Len(b) <= Len(b))
        /\ (i + Len(b)) - Len(b) = i
    BY <1>1
  <2> QED BY <1>2, <2>1
<1> QED BY <1>1, <1>2, <1>3, <1>4 DEF Window

(* recv() moves a prefix of what is in flight to the end of the buffer. *)
LEMMA RecvCuts ==
  ASSUME NEW b \in Seq(Unit), NEW q \in Seq(Unit), NEW n \in 0 .. Len(q)
  PROVE  /\ SubSeq(q, 1, n) \in Seq(Unit)
         /\ Len(SubSeq(q, 1, n)) = n
         /\ SubSeq(q, n + 1, Len(q)) \in Seq(Unit)
         /\ b \o SubSeq(q, 1, n) \in Seq(Unit)
         /\ Len(b \o SubSeq(q, 1, n)) = Len(b) + n
         /\ b \o q = (b \o SubSeq(q, 1, n)) \o SubSeq(q, n + 1, Len(q))
<1> DEFINE u == SubSeq(q, 1, n)
           v == SubSeq(q, n + 1, Len(q))
<1>1. Len(q) \in Nat /\ n \in Nat /\ n <= Len(q)
  OBVIOUS
<1>2. u \in Seq(Unit) /\ Len(u) = n
  <2>1. \A i \in 1 .. n : q[i] \in Unit
    BY <1>1, ElementOfSeq
  <2> QED BY <1>1, <2>1, SubSeqProperties
<1>3. v \in Seq(Unit)
  <2>1. \A i \in n + 1 .. Len(q) : q[i] \in Unit
    BY <1>1, ElementOfSeq
  <2> QED BY <1>1, <2>1, SubSeqProperties
<1>4. u \o v = q
  <2>1. 1 \in 1 .. Len(q) + 1 /\ n \in 1 - 1 .. Len(q) /\ Len(q) \in n .. Len(q)
    BY <1>1
  <2>2. u \o v = SubSeq(q, 1, Len(q))
    BY <2>1, ConcatAdjacentSubSeq
  <2> QED BY <2>2, SubSeqFull
<1>5. b \o u \in Seq(Unit) /\ Len(b \o u) = Len(b) + n
  BY <1>2, ConcatProperties
<1>6. (b \o u) \o v = b \o (u \o v)
  <2> HIDE DEF u, v
  <2>1. \A x, y, z \in Seq(Unit) : (x \o y) \o z = x \o (y \o z)
    BY ConcatAssociative
  <2> QED BY <1>2, <1>3, <2>1, Zenon
<1> QED BY <1>2, <1>3, <1>4, <1>5, <1>6

(* A buffer that does not parse ends inside a field; after one that does,  *)
(* the stream goes on with a field.                                        *)
LEMMA CutBetweenFields ==
  ASSUME NEW b \in Seq(Unit), NEW q \in Seq(Unit),
         Chained(b \o q), b \o q # << >> => (b \o q)[1].part # "body"
  PROVE  /\ ~ Parses(b) => b # << >> /\ b[Len(b)].part = "head"
         /\ Parses(b) /\ q # << >> => q[1].part # "body"
         /\ q # << >> => b \o q # << >> /\ q[Len(q)] = (b \o q)[Len(b \o q)]
<1> DEFINE s == b \o q
<1>1. Len(b) \in Nat /\ Len(q) \in Nat /\ s \in Seq(Unit) /\ Len(s) = Len(b) + Len(q)
  BY StreamUnits
<1>2. /\ \A i \in 1 .. Len(b) : b[i] = s[i]
      /\ \A i \in 1 .. Len(q) : q[i] = s[i + Len(b)]
  <2>1. Window(b, s, 0) /\ Window(q, s, Len(b))
    BY StreamUnits
  <2> HIDE DEF s
  <2> QED BY <1>1, <2>1 DEF Window
<1>3. /\ b # << >> => Len(b) \in 1 .. Len(b) /\ 1 \in 1 .. Len(b)
      /\ q # << >> => Len(q) \in 1 .. Len(q) /\ 1 \in 1 .. Len(q)
      /\ s # << >> <=> Len(s) > 0
  <2> HIDE DEF s
  <2> QED BY <1>1, EmptySeq
<1>4. \A i \in 1 .. Len(b) : b[i].part \in {"type", "head", "body"}
  <2>1. \A i \in 1 .. Len(b) : b[i] \in Unit
    BY ElementOfSeq
  <2> QED BY <2>1 DEF Unit
<1> HIDE DEF s
<1>5. b # << >> => b[1].part # "body"
  BY <1>1, <1>2, <1>3 DEF s
<1>6. ~ Parses(b) => b # << >> /\ b[Len(b)].part = "head"
  BY <1>5 DEF Parses
<1>7. ASSUME Parses(b), q # << >> PROVE q[1].part # "body"
  <2>1. q[1] = s[Len(b) + 1]
    BY <1>1, <1>2, <1>3, <1>7
  <2>2. CASE b = << >>
    <3>1. Len(b) = 0
      BY <2>2
    <3> QED BY <1>1, <1>3, <1>7, <2>1, <3>1 DEF s
  <2>3. CASE b # << >>
    <3>1. /\ Len(b) \in 1 .. Len(s) - 1 /\ s[Len(b)] = b[Len(b)]
          /\ b[Len(b)].part \in {"type", "body"}
      BY <1>1, <1>2, <1>3, <1>4, <1>7, <2>3 DEF Parses
    <3>2. \/ s[Len(b)].part = "type" /\ s[Len(b) + 1].part = "head"
          \/ s[Len(b)].part = "body" /\ s[Len(b) + 1].part = "type"
      BY <3>1 DEF Chained, s
    <3> QED BY <2>1, <3>2
  <2> QED BY <2>2, <2>3
<1>8. q # << >> => s # << >> /\ q[Len(q)] = s[Len(s)]
  BY <1>1, <1>2, <1>3
<1> QED BY <1>6, <1>7, <1>8 DEF s

-----------------------------------------------------------------------------
(* One more message at the end of the stream. *)

LEMMA SerializedUnits ==
  ASSUME NEW kind \in Kinds \ {"SETUP"}, NEW frame \in Nat, NEW pipe \in Pipes
  PROVE  LET u == Serialized(kind, frame, pipe) IN
         /\ u \in Seq(Unit) /\ Len(u) = 3
         /\ u[1] = UnitOf("type", kind, frame, pipe)
         /\ u[2] = UnitOf("head", kind, frame, pipe)
         /\ u[3] = UnitOf("body", kind, frame, pipe)
<1>1. \A part \in {"type", "head", "body"} : UnitOf(part, kind, frame, pipe) \in Unit
  BY DEF UnitOf, Unit
<1>2. Serialized(kind, frame, pipe)
        = << UnitOf("type", kind, frame, pipe), UnitOf("head", kind, frame, pipe),
             UnitOf("body", kind, frame, pipe) >>
  BY DEF Serialized
<1> QED BY <1>1, <1>2

EndsAField(s) == s # << >> => s[Len(s)].part = "body"

Appended(t, s, kind, frame, pipe) ==
  /\ t \in Seq(Unit) /\ Len(t) = Len(s) + 3
  /\ \A i \in 1 .. Len(s) : t[i] = s[i]
  /\ t[Len(s) + 1] = UnitOf("type", kind, frame, pipe)
  /\ t[Len(s) + 2] = UnitOf("head", kind, frame, pipe)
  /\ t[Len(s) + 3] = UnitOf("body", kind, frame, pipe)
  /\ Chained(s) => Chained(t)

LEMMA AppendedMessage ==
  ASSUME NEW s \in Seq(Unit), EndsAField(s),
         NEW kind \in Kinds \ {"SETUP"}, NEW frame \in Nat, NEW pipe \in Pipes
  PROVE  Appended(s \o Serialized(kind, frame, pipe), s, kind, frame, pipe)
<1> DEFINE u == Serialized(kind, frame, pipe)
           n == Len(s)
           t == s \o u
<1>1. /\ u \in Seq(Unit) /\ Len(u) = 3 /\ n \in Nat
      /\ u[1] = UnitOf("type", kind, frame, pipe)
      /\ u[2] = UnitOf("head", kind, frame, pipe)
      /\ u[3] = UnitOf("body", kind, frame, pipe)
  BY SerializedUnits
<1> HIDE DEF u
<1>2. /\ t \in Seq(Unit) /\ Len(t) = n + 3
      /\ \A i \in 1 .. n + 3 : t[i] = IF i <= n THEN s[i] ELSE u[i - n]
  <2>1. /\ s \o u \in Seq(Unit) /\ Len(s \o u) = Len(s) + Len(u)
        /\ \A i \in 1 .. Len(s) + Len(u) :
             (s \o u)[i] = IF i <= Len(s) THEN s[i] ELSE u[i - Len(s)]
    BY <1>1, ConcatProperties
  <2> QED BY <1>1, <2>1
<1> HIDE DEF t
<1>3. \A i \in 1 .. n : t[i] = s[i]
  BY <1>1, <1>2
<1>4. /\ t[n + 1] = UnitOf("type", kind, frame, pipe)
      /\ t[n + 2] = UnitOf("head", kind, frame, pipe)
      /\ t[n + 3] = UnitOf("body", kind, frame, pipe)
  <2>1. \A k \in 1 .. 3 : n + k \in 1 .. n + 3 /\ ~ (n + k <= n) /\ (n + k) - n = k
    BY <1>1
  <2>2. \A k \in 1 .. 3 : t[n + k] = u[k]
    BY <1>2, <2>1
  <2> QED BY <1>1, <2>2
<1>5. ASSUME Chained(s), NEW i \in 1 .. Len(t) - 1
      PROVE  /\ t[i].part = "type" => t[i + 1].part = "head"
             /\ t[i].part = "head" => t[i + 1].part = "body"
             /\ t[i].part = "body" => t[i + 1].part = "type"
  <2>1. i \in 1 .. n - 1 \/ (i = n /\ n \in 1 .. n) \/ i = n + 1 \/ i = n + 2
    BY <1>1, <1>2
  <2>2. CASE i \in 1 .. n - 1
    <3>1. t[i] = s[i] /\ t[i + 1] = s[i + 1]
      BY <1>1, <1>3, <2>2
    <3> QED BY <1>5, <2>2, <3>1 DEF Chained
  <2>3. CASE i = n /\ n \in 1 .. n
    <3>1. s # << >> /\ t[i] = s[n]
      BY <1>1, <1>3, <2>3, EmptySeq
    <3> QED BY <1>4, <2>3, <3>1 DEF UnitOf, EndsAField
  <2>4. CASE i = n + 1
    BY <1>1, <1>4, <2>4 DEF UnitOf
  <2>5. CASE i = n + 2
    BY <1>1, <1>4, <2>5 DEF UnitOf
  <2> QED BY <2>1, <2>2, <2>3, <2>4, <2>5
<1>6. Chained(s) => Chained(t)
  BY <1>5 DEF Chained
<1> QED BY <1>2, <1>3, <1>4, <1>6 DEF Appended, t, u

LEMMA PictureAppended ==
  ASSUME NEW s \in Seq(Unit),
         NEW pipes \in Seq(Pipes), NEW p \in Pipes, NEW d \in Seq(Delivery),
         NEW t, Appended(t, s, "DATA", Len(pipes) + 1, p),
         Ordered(s), Fresh(s, d, pipes),
         \A k \in 1 .. Len(d) : d[k].frame <= Len(pipes)
  PROVE  Ordered(t) /\ Fresh(t, d, Append(pipes, p))
<1> DEFINE n == Len(s)
           f == Len(pipes) + 1
<1>1. n \in Nat /\ f \in Nat /\ Len(d) \in Nat /\ "DATA" \in Kinds \ {"SETUP"}
  BY DEF Kinds
<1>2. /\ Len(t) = n + 3
      /\ \A i \in 1 .. n : t[i] = s[i]
      /\ t[n + 1] = UnitOf("type", "DATA", f, p)
      /\ t[n + 2] = UnitOf("head", "DATA", f, p)
      /\ t[n + 3] = UnitOf("body", "DATA", f, p)
  BY DEF Appended
<1>3. \A i \in 1 .. Len(t) : i \in 1 .. n \/ i = n + 1 \/ i = n + 2 \/ i = n + 3
  <2>1. \A k \in Nat : \A i \in 1 .. k + 3 : i \in 1 .. k \/ i = k + 1 \/ i = k + 2 \/ i = k + 3
    OBVIOUS
  <2> QED BY <1>1, <1>2, <2>1
<1>4. \A i \in 1 .. Len(t) \ 1 .. n :
        t[i].frame = f /\ t[i].pipe = p /\ t[i].kind = "DATA"
        /\ (i # n + 3 => t[i].part # "body")
  <2> TAKE i \in 1 .. Len(t) \ 1 .. n
  <2>1. CASE i = n + 1
    BY <1>2, <2>1 DEF UnitOf
  <2>2. CASE i = n + 2
    BY <1>2, <2>2 DEF UnitOf
  <2>3. CASE i = n + 3
    BY <1>2, <2>3 DEF UnitOf
  <2> QED BY <1>3, <2>1, <2>2, <2>3
<1>5. Ordered(t)
  <2> SUFFICES ASSUME NEW i \in 1 .. Len(t), NEW j \in 1 .. Len(t), i < j,
                      t[i].part = "body", t[i].kind = "DATA", t[j].kind = "DATA"
               PROVE  t[i].frame < t[j].frame
    BY DEF Ordered
  <2>1. i \in 1 .. n
    BY <1>1, <1>2, <1>3, <1>4
  <2>2. CASE j \in 1 .. n
    BY <1>2, <2>1, <2>2 DEF Ordered
  <2>3. CASE j \notin 1 .. n
    <3>1. t[i].frame \in 1 .. Len(pipes)
      BY <1>2, <2>1 DEF Fresh
    <3>2. t[j].frame = f /\ Len(pipes) \in Nat
      BY <1>4, <2>3
    <3> QED BY <3>1, <3>2
  <2> QED BY <2>2, <2>3
<1>6. Fresh(t, d, Append(pipes, p))
  <2>1. /\ Len(Append(pipes, p)) = f
        /\ \A g \in 1 .. Len(pipes) : Append(pipes, p)[g] = pipes[g]
        /\ Append(pipes, p)[f] = p
    BY AppendProperties
  <2> SUFFICES ASSUME NEW i \in 1 .. Len(t), t[i].kind = "DATA"
               PROVE  /\ t[i].frame \in 1 .. f
                      /\ t[i].pipe = Append(pipes, p)[t[i].frame]
                      /\ \A k \in 1 .. Len(d) : d[k].frame < t[i].frame
    BY <2>1 DEF Fresh
  <2>2. CASE i \in 1 .. n
    <3>1. /\ t[i].frame \in 1 .. Len(pipes)
          /\ t[i].pipe = pipes[t[i].frame]
          /\ \A k \in 1 .. Len(d) : d[k].frame < t[i].frame
      BY <1>2, <2>2 DEF Fresh
    <3> QED BY <1>1, <2>1, <3>1
  <2>3. CASE i \notin 1 .. n
    <3>1. \A k \in 1 .. Len(d) : d[k].frame \in Nat
      <4>1. \A k \in 1 .. Len(d) : d[k] \in Delivery
        BY ElementOfSeq
      <4> QED BY <4>1 DEF Delivery
    <3>2. t[i].frame = f /\ t[i].pipe = p /\ f \in 1 .. f
      BY <1>1, <1>4, <2>3
    <3> QED BY <1>1, <2>1, <3>1, <3>2
  <2> QED BY <2>2, <2>3
<1> QED BY <1>5, <1>6

LEMMA GreetingAppended ==
  ASSUME NEW s \in Seq(Unit),
         NEW t, Appended(t, s, "CAPABILITIES", 0, 0)
  PROVE  /\ Ordered(s) => Ordered(t)
         /\ \A d, pipes : Fresh(s, d, pipes) => Fresh(t, d, pipes)
         /\ \A i \in 1 .. Len(t) :
              IsGreeting(t[i]) => i = Len(s) + 1 \/ (i \in 1 .. Len(s) /\ IsGreeting(s[i]))
<1> DEFINE n == Len(s)
<1>1. n \in Nat /\ "CAPABILITIES" \in Kinds \ {"SETUP"} /\ 0 \in Pipes /\ 0 \in Nat
  BY PipesAssumption DEF Kinds
<1>2. /\ Len(t) = n + 3
      /\ \A i \in 1 .. n : t[i] = s[i]
      /\ t[n + 1] = UnitOf("type", "CAPABILITIES", 0, 0)
      /\ t[n + 2] = UnitOf("head", "CAPABILITIES", 0, 0)
      /\ t[n + 3] = UnitOf("body", "CAPABILITIES", 0, 0)
  BY DEF Appended
<1>3. \A i \in 1 .. Len(t) : i \in 1 .. n \/ i = n + 1 \/ i = n + 2 \/ i = n + 3
  <2>1. \A k \in Nat : \A i \in 1 .. k + 3 : i \in 1 .. k \/ i = k + 1 \/ i = k + 2 \/ i = k + 3
    OBVIOUS
  <2> QED BY <1>1, <1>2, <2>1
<1>4. \A i \in 1 .. Len(t) \ 1 .. n :
        t[i].kind = "CAPABILITIES" /\ (i # n + 1 => t[i].part # "type")
  BY <1>1, <1>2, <1>3 DEF UnitOf
<1>5. Ordered(s) => Ordered(t)
  <2>1. \A i \in 1 .. Len(t) : t[i].kind = "DATA" => i \in 1 .. n /\ t[i] = s[i]
    BY <1>2, <1>4
  <2> QED BY <2>1 DEF Ordered
<1>6. \A d, pipes : Fresh(s, d, pipes) => Fresh(t, d, pipes)
  BY <1>1, <1>2, <1>4 DEF Fresh
<1>7. \A i \in 1 .. Len(t) :
        IsGreeting(t[i]) => i = n + 1 \/ (i \in 1 .. n /\ IsGreeting(s[i]))
  BY <1>1, <1>2, <1>4 DEF IsGreeting
<1> QED BY <1>5, <1>6, <1>7

-----------------------------------------------------------------------------
(* Type correctness. *)

LEMMA InitTypeOK == Init => TypeOK
<1>1. << >> \in Seq(Pipes) /\ << >> \in Seq(Unit) /\ << >> \in Seq(Delivery)
  OBVIOUS
<1>2. 0 \in 0 .. NumLocalPipes /\ 0 \in Nat
  BY ClientAssumption
<1>3. Init => /\ streaming \in BOOLEAN /\ greeted \in BOOLEAN /\ running \in BOOLEAN
              /\ connected \in BOOLEAN /\ painter \in BOOLEAN
  BY Zenon DEF Init
<1>4. Init => /\ sent \in Seq(Pipes) /\ inFlight \in Seq(Unit) /\ buffer \in Seq(Unit)
              /\ delivered \in Seq(Delivery)
  BY <1>1, Zenon DEF Init
<1>5. Init => /\ peer \in {"none", "open", "closed", "reset"} /\ setups \in Nat
              /\ wired \in 0 .. NumLocalPipes /\ started \in 0 .. NumLocalPipes
              /\ dead \in {"no", "out_of_range", "bad_function_call"}
  BY <1>2, Zenon DEF Init
<1> QED BY <1>3, <1>4, <1>5, Zenon DEF TypeOK

LEMMA SerializedType ==
  ASSUME NEW kind \in Kinds \ {"SETUP"}, NEW frame \in Nat, NEW pipe \in Pipes,
         NEW q \in Seq(Unit)
  PROVE  q \o Serialized(kind, frame, pipe) \in Seq(Unit)
BY SerializedUnits, ConcatProperties

LEMMA RecvType ==
  ASSUME TypeOK, NEW n \in 0 .. Len(inFlight), Recv(n)
  PROVE  TypeOK'
<1> DEFINE b == buffer \o SubSeq(inFlight, 1, n)
<1>1. buffer \in Seq(Unit) /\ inFlight \in Seq(Unit)
  BY DEF TypeOK
<1>2. b \in Seq(Unit) /\ SubSeq(inFlight, n + 1, Len(inFlight)) \in Seq(Unit)
  BY <1>1, RecvCuts
<1> HIDE DEF b
<1>3. inFlight' \in Seq(Unit)
  BY <1>2 DEF Recv
<1>4. Dispatch(b)
  BY DEF Recv, b
<1>5. UNCHANGED << serverVars, mainVars >>
  BY DEF Recv
<1>6. << >> \in Seq(Unit)
  OBVIOUS
<1>7. ASSUME OnData(ParsedPipe(b, "DATA"), ParsedFrame(b)) PROVE delivered' \in Seq(Delivery)
  <2>1. [frame |-> ParsedFrame(b), pipe |-> ParsedPipe(b, "DATA")] \in Delivery
    BY <1>2, ParsedValues, PipesAssumption DEF Delivery
  <2> QED BY <1>7, <2>1, AppendProperties DEF OnData, TypeOK
<1>8. buffer' \in Seq(Unit)
  BY <1>2, <1>4, <1>6, Zenon DEF Dispatch
<1>9. \/ UNCHANGED << connected, setups, delivered, dead >>
      \/ Handle(b)
  BY <1>4, Zenon DEF Dispatch
<1>10. CASE UNCHANGED << connected, setups, delivered, dead >>
  BY <1>3, <1>5, <1>8, <1>10, Zenon DEF TypeOK, serverVars, mainVars
<1>11. ASSUME OnData(ParsedPipe(b, "DATA"), ParsedFrame(b)), UNCHANGED << connected, setups >>
       PROVE  TypeOK'
  <2>1. dead' \in {"no", "out_of_range", "bad_function_call"}
    BY <1>11 DEF OnData, Decode, TypeOK
  <2> QED BY <1>3, <1>5, <1>7, <1>8, <1>11, <2>1, Zenon DEF TypeOK, serverVars, mainVars
<1>12. ASSUME SendSetup, UNCHANGED << delivered, dead >>
       PROVE  TypeOK'
  <2>1. connected' \in BOOLEAN
    BY <1>12, Zenon DEF SendSetup, TypeOK
  <2>2. setups' \in Nat
    BY <1>12 DEF SendSetup, TypeOK
  <2> QED BY <1>3, <1>5, <1>8, <1>12, <2>1, <2>2, Zenon DEF TypeOK, serverVars, mainVars
<1> QED BY <1>9, <1>10, <1>11, <1>12 DEF Handle

LEMMA NextTypeOK ==
  ASSUME TypeOK, [Next]_vars
  PROVE  TypeOK'
<1> USE DEF TypeOK, serverVars, mainVars, sourceVars
<1>1. CASE SendCapabilities
  <2>1. "CAPABILITIES" \in Kinds \ {"SETUP"} /\ 0 \in Pipes /\ 0 \in Nat
    BY PipesAssumption DEF Kinds
  <2>2. inFlight' \in Seq(Unit)
    BY <1>1, <2>1, SerializedType DEF SendCapabilities
  <2> QED BY <1>1, <2>2 DEF SendCapabilities
<1>2. ASSUME NEW p \in Pipes, SendData(p) PROVE TypeOK'
  <2>1. "DATA" \in Kinds \ {"SETUP"} /\ Len(sent) + 1 \in Nat
    BY DEF Kinds
  <2>2. inFlight' \in Seq(Unit)
    BY <1>2, <2>1, SerializedType DEF SendData
  <2>3. sent' \in Seq(Pipes)
    BY <1>2, AppendProperties DEF SendData
  <2> QED BY <1>2, <2>2, <2>3 DEF SendData
<1>3. CASE ServerStartsPipes
  BY <1>3 DEF ServerStartsPipes
<1>4. CASE Close
  <2>1. \A n \in 0 .. Len(inFlight) : SubSeq(inFlight, 1, n) \in Seq(Unit)
    BY RecvCuts
  <2> QED BY <1>4, <2>1 DEF Close
<1>5. CASE Reset
  BY <1>5 DEF Reset
<1>6. CASE Wire
  BY <1>6, ClientAssumption DEF Wire
<1>7. CASE StartPipe
  BY <1>7, ClientAssumption DEF StartPipe
<1>8. CASE SetPainter
  BY <1>8 DEF SetPainter
<1>9. CASE Connect
  BY <1>9 DEF Connect
<1>10. CASE RecvSome
  <2>1. \A n \in 1 .. Len(inFlight) : n \in 0 .. Len(inFlight)
    OBVIOUS
  <2> QED BY <1>10, <2>1, RecvType DEF RecvSome
<1>11. CASE RecvNothing
  <2>1. 0 \in 0 .. Len(inFlight)
    OBVIOUS
  <2> QED BY <1>11, <2>1, RecvType DEF RecvNothing
<1>12. CASE RecvError
  BY <1>12 DEF RecvError
<1>13. CASE UNCHANGED vars
  BY <1>13 DEF vars
<1> QED BY <1>1, <1>2, <1>3, <1>4, <1>5, <1>6, <1>7, <1>8, <1>9, <1>10, <1>11, <1>12, <1>13
        DEF Next, Server, MainThread, SourceThread

(* Every variable of the client keeps its type, whatever arrives. *)
THEOREM TypeCorrect == Spec => []TypeOK
<1>1. Init => TypeOK
  BY InitTypeOK
<1>2. TypeOK /\ [Next]_vars => TypeOK'
  BY NextTypeOK
<1> QED BY <1>1, <1>2, PTL DEF Spec

-----------------------------------------------------------------------------
(* The inductive invariant.                                                *)

Inv == Framed /\ Pictures /\ Greeting /\ InOrder /\ NonzeroPipeKept

LEMMA InitInv == Init => Inv
<1> SUFFICES ASSUME Init PROVE Inv
  OBVIOUS
<1>1. buffer = << >> /\ inFlight = << >> /\ delivered = << >> /\ setups = 0
  BY DEF Init
<1>2. Stream = << >> /\ Len(Stream) = 0
  <2>1. << >> \in Seq(Unit)
    OBVIOUS
  <2> QED BY <1>1, <2>1, ConcatEmptySeq, EmptySeq DEF Stream
<1>3. Framed
  BY <1>1, <1>2 DEF Framed, Chained
<1>4. Pictures
  BY <1>2 DEF Pictures, Ordered, Fresh
<1>5. Greeting
  BY <1>1, <1>2 DEF Greeting
<1>6. InOrder /\ NonzeroPipeKept
  BY <1>1 DEF InOrder, NonzeroPipeKept
<1> QED BY <1>3, <1>4, <1>5, <1>6 DEF Inv

(* Steps that leave the stream and what became of it alone. *)
LEMMA QuietStep ==
  ASSUME Inv, UNCHANGED << greeted, sent, inFlight, buffer, setups, delivered >>,
         peer' \in {"none", "open"} => peer \in {"none", "open"}
  PROVE  Inv'
<1>1. Stream' = Stream
  BY DEF Stream
<1>2. Framed'
  BY <1>1 DEF Inv, Framed, Chained
<1>3. Pictures'
  BY <1>1 DEF Inv, Pictures, Ordered, Fresh
<1>4. Greeting'
  BY <1>1 DEF Inv, Greeting
<1>5. InOrder' /\ NonzeroPipeKept'
  BY DEF Inv, InOrder, NonzeroPipeKept
<1> QED BY <1>2, <1>3, <1>4, <1>5 DEF Inv

(* The end of the stream is lost. *)
LEMMA TruncatingStep ==
  ASSUME TypeOK, Inv, UNCHANGED << greeted, sent, buffer, setups, delivered >>,
         inFlight' \in Seq(Unit), Window(inFlight', inFlight, 0),
         peer' \notin {"none", "open"}
  PROVE  Inv'
<1>1. /\ buffer \in Seq(Unit) /\ inFlight \in Seq(Unit)
      /\ Stream \in Seq(Unit) /\ Stream' \in Seq(Unit)
      /\ Len(Stream) = Len(buffer) + Len(inFlight)
      /\ Len(Stream') = Len(buffer) + Len(inFlight')
  BY StreamUnits DEF TypeOK, Stream
<1>2. Window(Stream', Stream, 0)
  <2>1. /\ \A i \in 1 .. Len(Stream) :
             Stream[i] = IF i <= Len(buffer) THEN buffer[i] ELSE inFlight[i - Len(buffer)]
        /\ \A i \in 1 .. Len(Stream') :
             Stream'[i] = IF i <= Len(buffer) THEN buffer[i] ELSE inFlight'[i - Len(buffer)]
    BY <1>1, ConcatProperties DEF Stream
  <2>2. Len(buffer) \in Nat /\ Len(inFlight) \in Nat /\ Len(inFlight') \in Nat
    BY <1>1
  <2>3. Len(inFlight') <= Len(inFlight) /\ \A i \in 1 .. Len(inFlight') : inFlight'[i] = inFlight[i]
    BY <2>2 DEF Window
  <2>4. ASSUME NEW i \in 1 .. Len(Stream') PROVE Stream'[i] = Stream[i + 0]
    <3>1. i \in 1 .. Len(Stream) /\ i + 0 = i
      BY <1>1, <2>2, <2>3
    <3>2. ~ (i <= Len(buffer)) => i - Len(buffer) \in 1 .. Len(inFlight')
      BY <1>1, <2>2
    <3> QED BY <2>1, <2>3, <3>1, <3>2
  <2>5. Len(Stream') + 0 <= Len(Stream)
    BY <1>1, <2>2, <2>3
  <2> QED BY <2>4, <2>5 DEF Window
<1>3. Chained(Stream') /\ Ordered(Stream') /\ Fresh(Stream', delivered, sent)
  BY <1>1, <1>2, WindowKeeps DEF Inv, Framed, Pictures
<1>4. \A i \in 1 .. Len(Stream') : i \in 1 .. Len(Stream) /\ Stream'[i] = Stream[i]
  <2>1. Len(Stream) \in Nat /\ Len(Stream') \in Nat
    BY <1>1
  <2> QED BY <1>2, <2>1 DEF Window
<1>5. Framed'
  <2>1. ASSUME Stream' # << >> PROVE Stream'[1].part # "body"
    <3>1. 1 \in 1 .. Len(Stream')
      BY <1>1, <2>1, EmptySeq
    <3>2. Stream # << >> /\ Stream'[1] = Stream[1]
      BY <1>1, <1>4, <3>1
    <3> QED BY <3>2 DEF Inv, Framed
  <2> QED BY <1>3, <2>1 DEF Inv, Framed, Chained
<1>6. Pictures'
  BY <1>3 DEF Pictures, Ordered, Fresh
<1>7. Greeting'
  BY <1>4 DEF Inv, Greeting
<1>8. InOrder' /\ NonzeroPipeKept'
  BY DEF Inv, InOrder, NonzeroPipeKept
<1> QED BY <1>5, <1>6, <1>7, <1>8 DEF Inv

(* A message is sent. *)
LEMMA AppendingStep ==
  ASSUME TypeOK, Inv, peer = "open", UNCHANGED << peer, buffer >>,
         NEW kind \in Kinds \ {"SETUP"}, NEW frame \in Nat, NEW pipe \in Pipes,
         inFlight' = inFlight \o Serialized(kind, frame, pipe)
  PROVE  /\ Appended(Stream', Stream, kind, frame, pipe)
         /\ Stream \in Seq(Unit)
         /\ Framed'
<1> DEFINE u == Serialized(kind, frame, pipe)
<1>1. /\ buffer \in Seq(Unit) /\ inFlight \in Seq(Unit) /\ u \in Seq(Unit)
      /\ Stream \in Seq(Unit)
  BY SerializedUnits, StreamUnits DEF TypeOK, Stream
<1>2. Stream' = Stream \o u
  <2>1. (buffer \o inFlight) \o u = buffer \o (inFlight \o u)
    <3> HIDE DEF u
    <3>1. \A x, y, z \in Seq(Unit) : (x \o y) \o z = x \o (y \o z)
      BY ConcatAssociative
    <3> QED BY <1>1, <3>1, Zenon
  <2> QED BY <2>1 DEF Stream
<1>3. EndsAField(Stream)
  BY DEF Inv, Framed, EndsAField
<1>4. Appended(Stream', Stream, kind, frame, pipe)
  BY <1>1, <1>2, <1>3, AppendedMessage
<1>5. /\ Len(Stream) \in Nat /\ Len(Stream') = Len(Stream) + 3 /\ Stream' \in Seq(Unit)
      /\ Chained(Stream')
      /\ \A i \in 1 .. Len(Stream) : Stream'[i] = Stream[i]
  BY <1>1, <1>4 DEF Appended, Inv, Framed
<1>6. Stream'[Len(Stream')].part = "body"
  BY <1>4, <1>5 DEF Appended, UnitOf
<1>7. Stream'[1].part # "body"
  <2>1. CASE Stream = << >>
    <3>1. Len(Stream) = 0
      BY <2>1, EmptySeq
    <3>2. Stream'[0 + 1] = UnitOf("type", kind, frame, pipe)
      BY <1>4, <3>1 DEF Appended
    <3> QED BY <3>2 DEF UnitOf
  <2>2. CASE Stream # << >>
    <3>1. 1 \in 1 .. Len(Stream)
      BY <1>1, <2>2, EmptySeq
    <3> QED BY <1>5, <2>2, <3>1 DEF Inv, Framed
  <2> QED BY <2>1, <2>2
<1>8. Framed'
  BY <1>5, <1>6, <1>7 DEF Inv, Framed, Chained
<1> QED BY <1>1, <1>4, <1>8

LEMMA SendCapabilitiesInv ==
  ASSUME TypeOK, Inv, SendCapabilities
  PROVE  Inv'
<1>1. "CAPABILITIES" \in Kinds \ {"SETUP"} /\ 0 \in Pipes /\ 0 \in Nat
  BY PipesAssumption DEF Kinds
<1>2. /\ peer = "open" /\ UNCHANGED << peer, buffer >>
      /\ inFlight' = inFlight \o Serialized("CAPABILITIES", 0, 0)
      /\ ~ greeted /\ greeted' /\ UNCHANGED << sent, setups, delivered >>
  BY DEF SendCapabilities, sourceVars
<1>3. /\ Appended(Stream', Stream, "CAPABILITIES", 0, 0) /\ Stream \in Seq(Unit)
      /\ Framed'
  BY <1>1, <1>2, AppendingStep
<1>4. /\ Ordered(Stream') /\ Fresh(Stream', delivered, sent)
      /\ \A i \in 1 .. Len(Stream') :
           IsGreeting(Stream'[i]) =>
             i = Len(Stream) + 1 \/ (i \in 1 .. Len(Stream) /\ IsGreeting(Stream[i]))
  BY <1>3, GreetingAppended DEF Inv, Pictures
<1>5. Pictures'
  BY <1>2, <1>4 DEF Pictures, Ordered, Fresh
<1>6. Greeting'
  <2>1. setups = 0 /\ \A i \in 1 .. Len(Stream) : ~ IsGreeting(Stream[i])
    BY <1>2 DEF Inv, Greeting
  <2>2. \A i \in 1 .. Len(Stream') : IsGreeting(Stream'[i]) => i = Len(Stream) + 1
    BY <1>4, <2>1
  <2> QED BY <1>2, <2>1, <2>2 DEF Greeting
<1>7. InOrder' /\ NonzeroPipeKept'
  BY <1>2 DEF Inv, InOrder, NonzeroPipeKept
<1> QED BY <1>3, <1>5, <1>6, <1>7 DEF Inv

LEMMA DeliveredBound ==
  ASSUME TypeOK, InOrder
  PROVE  \A k \in 1 .. Len(delivered) : delivered[k].frame \in Nat /\ delivered[k].frame <= Len(sent)
<1>1. \A k \in 1 .. Len(delivered) : delivered[k] \in Delivery
  BY ElementOfSeq DEF TypeOK
<1>2. \A k \in 1 .. Len(delivered) : delivered[k].frame \in Nat
  BY <1>1 DEF Delivery
<1>3. DOMAIN delivered = 1 .. Len(delivered) /\ Len(sent) \in Nat
  BY DEF TypeOK
<1>4. ASSUME NEW k \in 1 .. Len(delivered) PROVE delivered[k].frame <= Len(sent)
  <2>1. CASE delivered[k].frame = 0
    BY <1>3, <2>1
  <2>2. CASE delivered[k].frame # 0
    BY <1>3, <2>2 DEF InOrder
  <2> QED BY <2>1, <2>2
<1> QED BY <1>2, <1>4

LEMMA SendDataInv ==
  ASSUME TypeOK, Inv, NEW p \in Pipes, SendData(p)
  PROVE  Inv'
<1>1. "DATA" \in Kinds \ {"SETUP"} /\ Len(sent) \in Nat /\ Len(sent) + 1 \in Nat
  BY DEF Kinds, TypeOK
<1>2. /\ peer = "open" /\ UNCHANGED << peer, buffer >>
      /\ inFlight' = inFlight \o Serialized("DATA", Len(sent) + 1, p)
      /\ sent' = Append(sent, p) /\ UNCHANGED << greeted, setups, delivered >>
  BY DEF SendData, sourceVars
<1>3. /\ Appended(Stream', Stream, "DATA", Len(sent) + 1, p) /\ Stream \in Seq(Unit)
      /\ Framed'
  BY <1>1, <1>2, AppendingStep
<1>4. \A k \in 1 .. Len(delivered) : delivered[k].frame \in Nat /\ delivered[k].frame <= Len(sent)
  BY DeliveredBound DEF Inv
<1>5. Ordered(Stream') /\ Fresh(Stream', delivered, Append(sent, p))
  BY <1>3, <1>4, PictureAppended DEF Inv, Pictures, TypeOK
<1>6. Pictures'
  BY <1>2, <1>5 DEF Pictures, Ordered, Fresh
<1>7. Greeting'
  <2>1. /\ Len(Stream) \in Nat /\ Len(Stream') = Len(Stream) + 3
        /\ \A i \in 1 .. Len(Stream) : Stream'[i] = Stream[i]
    BY <1>3 DEF Appended
  <2>2. \A i \in Len(Stream) + 1 .. Len(Stream) + 3 : Stream'[i].kind = "DATA"
    <3>1. \A i \in Len(Stream) + 1 .. Len(Stream) + 3 :
            i = Len(Stream) + 1 \/ i = Len(Stream) + 2 \/ i = Len(Stream) + 3
      BY <2>1
    <3> QED BY <1>3, <3>1 DEF Appended, UnitOf
  <2>3. \A i \in 1 .. Len(Stream') :
          IsGreeting(Stream'[i]) => i \in 1 .. Len(Stream) /\ IsGreeting(Stream[i])
    BY <2>1, <2>2 DEF IsGreeting
  <2> QED BY <1>2, <2>3 DEF Inv, Greeting
<1>8. /\ Len(sent') = Len(sent) + 1 /\ \A f \in 1 .. Len(sent) : sent'[f] = sent[f]
  BY <1>2, AppendProperties DEF TypeOK
<1>9. InOrder'
  <2>1. DOMAIN delivered = 1 .. Len(delivered)
    BY DEF TypeOK
  <2>2. \A k \in DOMAIN delivered : delivered[k].frame <= Len(sent')
    BY <1>1, <1>4, <1>8, <2>1
  <2> QED BY <1>2, <2>2 DEF Inv, InOrder
<1>10. NonzeroPipeKept'
  <2>1. DOMAIN delivered = 1 .. Len(delivered)
    BY DEF TypeOK
  <2>2. \A k \in DOMAIN delivered :
          delivered[k].frame # 0 => sent'[delivered[k].frame] = sent[delivered[k].frame]
    BY <1>1, <1>4, <1>8, <2>1
  <2> QED BY <1>2, <2>2 DEF Inv, NonzeroPipeKept
<1> QED BY <1>3, <1>6, <1>7, <1>9, <1>10 DEF Inv

(* One more picture for the decoder, newer than those before it. *)
LEMMA DeliveredUnits ==
  ASSUME NEW d \in Seq(Delivery), NEW f \in Nat, NEW p \in Pipes,
         NEW e, e = Append(d, [frame |-> f, pipe |-> p])
  PROVE  /\ DOMAIN e = 1 .. Len(d) + 1 /\ Len(e) = Len(d) + 1
         /\ \A i \in 1 .. Len(d) : e[i] = d[i]
         /\ e[Len(d) + 1].frame = f /\ e[Len(d) + 1].pipe = p
<1>1. [frame |-> f, pipe |-> p] \in Delivery
  BY PipesAssumption DEF Delivery
<1> QED BY <1>1, AppendProperties

LEMMA FreshAfterDelivery ==
  ASSUME NEW d \in Seq(Delivery), NEW f \in Nat, NEW p \in Pipes,
         NEW q \in Seq(Unit), NEW pipes \in Seq(Pipes), Fresh(q, d, pipes),
         f # 0 => \A i \in 1 .. Len(q) : q[i].kind = "DATA" => f < q[i].frame
  PROVE  Fresh(q, Append(d, [frame |-> f, pipe |-> p]), pipes)
<1> DEFINE e == Append(d, [frame |-> f, pipe |-> p])
<1>1. /\ Len(e) = Len(d) + 1 /\ e[Len(d) + 1].frame = f
      /\ \A i \in 1 .. Len(d) : e[i] = d[i]
      /\ Len(d) \in Nat
  BY DeliveredUnits
<1> HIDE DEF e
<1>2. \A k \in 1 .. Len(e) : k \in 1 .. Len(d) \/ k = Len(d) + 1
  <2>1. \A m \in Nat : \A k \in 1 .. m + 1 : k \in 1 .. m \/ k = m + 1
    OBVIOUS
  <2> QED BY <1>1, <2>1
<1> SUFFICES ASSUME NEW i \in 1 .. Len(q), q[i].kind = "DATA",
                    NEW k \in 1 .. Len(e)
             PROVE  e[k].frame < q[i].frame
  BY DEF Fresh, e
<1>3. CASE k \in 1 .. Len(d)
  BY <1>1, <1>3 DEF Fresh
<1>4. CASE k = Len(d) + 1
  <2>1. q[i].frame \in 1 .. Len(pipes)
    BY DEF Fresh
  <2>2. f < q[i].frame
    BY <2>1
  <2> QED BY <1>1, <1>4, <2>2
<1> QED BY <1>2, <1>3, <1>4

LEMMA DeliveryStep ==
  ASSUME TypeOK, InOrder, NonzeroPipeKept, sent' = sent,
         NEW f \in Nat, NEW p \in Pipes,
         delivered' = Append(delivered, [frame |-> f, pipe |-> p]),
         f # 0 => /\ f \in 1 .. Len(sent) /\ (sent[f] # 0 => p = sent[f])
                  /\ \A k \in 1 .. Len(delivered) : delivered[k].frame < f
  PROVE  InOrder' /\ NonzeroPipeKept'
<1> DEFINE n == Len(delivered)
<1>1. /\ DOMAIN delivered' = 1 .. n + 1 /\ DOMAIN delivered = 1 .. n /\ n \in Nat
      /\ \A i \in 1 .. n : delivered'[i] = delivered[i]
      /\ delivered'[n + 1].frame = f /\ delivered'[n + 1].pipe = p
  BY DeliveredUnits DEF TypeOK
<1> HIDE DEF n
<1>2. \A k \in 1 .. n + 1 : k \in 1 .. n \/ k = n + 1
  BY <1>1
<1>3. InOrder'
  <2> SUFFICES ASSUME NEW j \in 1 .. n + 1, delivered'[j].frame # 0
               PROVE  /\ delivered'[j].frame <= Len(sent)
                      /\ \A i \in 1 .. j - 1 : delivered'[i].frame < delivered'[j].frame
    BY <1>1 DEF InOrder
  <2>1. CASE j \in 1 .. n
    <3>1. \A i \in 1 .. j - 1 : i \in 1 .. n
      BY <1>1, <2>1
    <3> QED BY <1>1, <2>1, <3>1 DEF InOrder
  <2>2. CASE j = n + 1
    <3>1. \A i \in 1 .. j - 1 : i \in 1 .. n
      BY <1>1, <2>2
    <3>2. f <= Len(sent) /\ \A k \in 1 .. n : delivered[k].frame < f
      BY <1>1, <2>2 DEF n
    <3> QED BY <1>1, <2>2, <3>1, <3>2
  <2> QED BY <1>2, <2>1, <2>2
<1>4. NonzeroPipeKept'
  <2> SUFFICES ASSUME NEW i \in 1 .. n + 1, delivered'[i].frame # 0,
                      sent[delivered'[i].frame] # 0
               PROVE  delivered'[i].pipe = sent[delivered'[i].frame]
    BY <1>1 DEF NonzeroPipeKept
  <2>1. CASE i \in 1 .. n
    BY <1>1, <2>1 DEF NonzeroPipeKept
  <2>2. CASE i = n + 1
    BY <1>1, <2>2
  <2> QED BY <1>2, <2>1, <2>2
<1> QED BY <1>3, <1>4

(* recv() and dispatch(). *)
LEMMA RecvInv ==
  ASSUME TypeOK, Inv, NEW n \in 0 .. Len(inFlight), Recv(n)
  PROVE  Inv'
<1> DEFINE b == buffer \o SubSeq(inFlight, 1, n)
           q == SubSeq(inFlight, n + 1, Len(inFlight))
<1>1. buffer \in Seq(Unit) /\ inFlight \in Seq(Unit)
  BY DEF TypeOK
<1>2. b \in Seq(Unit) /\ q \in Seq(Unit) /\ Stream = b \o q
  BY <1>1, RecvCuts DEF Stream
<1>3. /\ inFlight' = q /\ Dispatch(b)
      /\ UNCHANGED << greeted, sent, peer >>
  BY DEF Recv, serverVars
<1> HIDE DEF b, q
<1>4. /\ Stream \in Seq(Unit) /\ Len(Stream) = Len(b) + Len(q)
      /\ Window(b, Stream, 0) /\ Window(q, Stream, Len(b))
      /\ Len(b) \in Nat /\ Len(q) \in Nat
  BY <1>2, StreamUnits
<1>5. /\ ~ Parses(b) => b # << >> /\ b[Len(b)].part = "head"
      /\ Parses(b) /\ q # << >> => q[1].part # "body"
      /\ q # << >> => Stream # << >> /\ q[Len(q)] = Stream[Len(Stream)]
  BY <1>2, CutBetweenFields DEF Inv, Framed
<1>6. CASE ~ Parses(b)
  <2>1. buffer' = b /\ UNCHANGED << setups, delivered >>
    BY <1>3, <1>6 DEF Dispatch
  <2>2. Stream' = Stream
    BY <1>2, <1>3, <2>1 DEF Stream
  <2>3. Framed'
    BY <1>3, <1>5, <1>6, <2>1, <2>2 DEF Inv, Framed, Chained
  <2>4. Pictures'
    BY <1>3, <2>1, <2>2 DEF Inv, Pictures, Ordered, Fresh
  <2>5. Greeting'
    BY <1>3, <2>1, <2>2 DEF Inv, Greeting
  <2>6. InOrder' /\ NonzeroPipeKept'
    BY <1>3, <2>1 DEF Inv, InOrder, NonzeroPipeKept
  <2> QED BY <2>3, <2>4, <2>5, <2>6 DEF Inv
<1>7. CASE Parses(b)
  <2>1. buffer' = << >> /\ Handle(b)
    BY <1>3, <1>7 DEF Dispatch
  <2>2. Stream' = q
    BY <1>2, <1>3, <2>1, ConcatEmptySeq DEF Stream
  <2>3. /\ \A i \in 1 .. Len(b) : i \in 1 .. Len(Stream) /\ b[i] = Stream[i]
        /\ \A i \in 1 .. Len(q) : i + Len(b) \in 1 .. Len(Stream) /\ q[i] = Stream[i + Len(b)]
    BY <1>4 DEF Window
  <2>4. Chained(q) /\ Ordered(q) /\ Fresh(q, delivered, sent)
    BY <1>2, <1>4, WindowKeeps DEF Inv, Framed, Pictures
  <2>5. Framed'
    BY <1>3, <1>5, <1>7, <2>1, <2>2, <2>4 DEF Inv, Framed, Chained
  <2>6. Greeting'
    <3>1. \A i \in 1 .. Len(q) : IsGreeting(q[i]) => greeted /\ setups = 0
      BY <2>3 DEF Inv, Greeting
    <3>2. \A i, j \in 1 .. Len(q) : IsGreeting(q[i]) /\ IsGreeting(q[j]) => i = j
      <4>1. \A i, j \in 1 .. Len(q) : i + Len(b) = j + Len(b) => i = j
        BY <1>4
      <4> QED BY <2>3, <4>1 DEF Inv, Greeting
    <3>3. CASE setups' = setups
      BY <1>3, <2>2, <3>1, <3>2, <3>3 DEF Inv, Greeting
    <3>4. CASE setups' # setups
      <4>1. ParsedType(b) = "CAPABILITIES" /\ setups' = setups + 1
        BY <2>1, <3>4 DEF Handle, SendSetup
      <4>2. PICK i \in 1 .. Len(b) : IsGreeting(b[i])
        BY <1>2, <4>1, ParsedTypeOfGreeting
      <4>3. i \in 1 .. Len(Stream) /\ IsGreeting(Stream[i]) /\ greeted /\ setups = 0
        BY <2>3, <4>2 DEF Inv, Greeting
      <4>4. \A j \in 1 .. Len(q) : ~ IsGreeting(q[j])
        <5>1. \A j \in 1 .. Len(q) : j + Len(b) # i
          BY <1>4, <4>2
        <5> QED BY <2>3, <4>3, <5>1 DEF Inv, Greeting
      <4> QED BY <1>3, <2>2, <4>1, <4>3, <4>4 DEF Greeting
    <3> QED BY <3>3, <3>4
  <2>7. CASE UNCHANGED delivered
    <3>1. Pictures'
      BY <1>3, <2>2, <2>4, <2>7 DEF Pictures, Ordered, Fresh
    <3>2. InOrder' /\ NonzeroPipeKept'
      BY <1>3, <2>7 DEF Inv, InOrder, NonzeroPipeKept
    <3> QED BY <2>5, <2>6, <3>1, <3>2 DEF Inv
  <2>8. CASE delivered' # delivered
    <3>1. delivered' = Append(delivered, [frame |-> ParsedFrame(b), pipe |-> ParsedPipe(b, "DATA")])
      BY <2>1, <2>8 DEF Handle, OnData
    <3> DEFINE f == ParsedFrame(b)
               p == ParsedPipe(b, "DATA")
    <3>2. f \in Nat /\ p \in Pipes
      BY <1>2, ParsedValues
    <3>3. ASSUME f # 0
          PROVE  /\ f \in 1 .. Len(sent) /\ (sent[f] # 0 => p = sent[f])
                 /\ \A k \in 1 .. Len(delivered) : delivered[k].frame < f
                 /\ \A i \in 1 .. Len(q) : q[i].kind = "DATA" => f < q[i].frame
      <4>1. PICK m \in 1 .. Len(b) :
              /\ b[m].part = "body" /\ b[m].kind = "DATA" /\ f = b[m].frame
              /\ b[m].pipe # 0 => p = b[m].pipe
        BY <1>2, <3>3, ParsedPicture
      <4>2. m \in 1 .. Len(Stream) /\ b[m] = Stream[m]
        BY <2>3
      <4>3. /\ f \in 1 .. Len(sent) /\ b[m].pipe = sent[f]
            /\ \A k \in 1 .. Len(delivered) : delivered[k].frame < f
        BY <4>1, <4>2 DEF Inv, Pictures, Fresh
      <4>4. ASSUME NEW i \in 1 .. Len(q), q[i].kind = "DATA" PROVE f < q[i].frame
        <5>1. m < i + Len(b)
          BY <1>4, <4>1
        <5>2. i + Len(b) \in 1 .. Len(Stream) /\ q[i] = Stream[i + Len(b)]
          BY <2>3
        <5> QED BY <4>1, <4>2, <4>4, <5>1, <5>2 DEF Inv, Pictures, Ordered
      <4> QED BY <4>1, <4>3, <4>4
    <3> HIDE DEF f, p
    <3>4. delivered' = Append(delivered, [frame |-> f, pipe |-> p])
      BY <3>1 DEF f, p
    <3>5. InOrder' /\ NonzeroPipeKept'
      BY <1>3, <3>2, <3>3, <3>4, DeliveryStep DEF Inv
    <3>6. Fresh(q, delivered', sent)
      <4>1. delivered \in Seq(Delivery) /\ sent \in Seq(Pipes)
        BY DEF TypeOK
      <4>2. f # 0 => \A i \in 1 .. Len(q) : q[i].kind = "DATA" => f < q[i].frame
        BY <3>3
      <4>3. Fresh(q, Append(delivered, [frame |-> f, pipe |-> p]), sent)
        BY <1>2, <2>4, <3>2, <4>1, <4>2, FreshAfterDelivery
      <4> QED BY <3>4, <4>3
    <3>7. Pictures'
      BY <1>3, <2>2, <2>4, <3>6 DEF Pictures, Ordered, Fresh
    <3> QED BY <2>5, <2>6, <3>5, <3>7 DEF Inv
  <2> QED BY <2>7, <2>8
<1> QED BY <1>6, <1>7

LEMMA NextInv ==
  ASSUME TypeOK, Inv, [Next]_vars
  PROVE  Inv'
<1> USE DEF serverVars, mainVars, sourceVars
<1>1. CASE SendCapabilities
  BY <1>1, SendCapabilitiesInv
<1>2. ASSUME NEW p \in Pipes, SendData(p) PROVE Inv'
  BY <1>2, SendDataInv
<1>3. CASE ServerStartsPipes
  BY <1>3, QuietStep DEF ServerStartsPipes
<1>4. CASE Close
  <2>1. PICK n \in 0 .. Len(inFlight) : inFlight' = SubSeq(inFlight, 1, n)
    BY <1>4 DEF Close
  <2>2. inFlight' \in Seq(Unit) /\ Len(inFlight') = n
    BY <2>1, RecvCuts DEF TypeOK
  <2>3. \A i \in 1 .. n : inFlight'[i] = inFlight[i]
    BY <2>1 DEF TypeOK
  <2>4. Window(inFlight', inFlight, 0)
    BY <2>2, <2>3 DEF Window, TypeOK
  <2> QED BY <1>4, <2>2, <2>4, TruncatingStep DEF Close
<1>5. CASE Reset
  <2>1. inFlight' = << >> /\ << >> \in Seq(Unit)
    BY <1>5 DEF Reset
  <2>2. Window(inFlight', inFlight, 0)
    BY <2>1 DEF Window, TypeOK
  <2> QED BY <1>5, <2>1, <2>2, TruncatingStep DEF Reset
<1>6. CASE Wire
  BY <1>6, QuietStep DEF Wire
<1>7. CASE StartPipe
  BY <1>7, QuietStep DEF StartPipe
<1>8. CASE SetPainter
  BY <1>8, QuietStep DEF SetPainter
<1>9. CASE Connect
  BY <1>9, QuietStep DEF Connect
<1>10. CASE RecvSome
  <2>1. \A n \in 1 .. Len(inFlight) : n \in 0 .. Len(inFlight)
    OBVIOUS
  <2> QED BY <1>10, <2>1, RecvInv DEF RecvSome
<1>11. CASE RecvNothing
  <2>1. 0 \in 0 .. Len(inFlight)
    BY DEF TypeOK
  <2> QED BY <1>11, <2>1, RecvInv DEF RecvNothing
<1>12. CASE RecvError
  BY <1>12, QuietStep DEF RecvError
<1>13. CASE UNCHANGED vars
  BY <1>13, QuietStep DEF vars
<1> QED BY <1>1, <1>2, <1>3, <1>4, <1>5, <1>6, <1>7, <1>8, <1>9, <1>10, <1>11, <1>12, <1>13
        DEF Next, Server, MainThread, SourceThread

LEMMA InvAlways == Spec => [](TypeOK /\ Inv)
<1>1. Init => TypeOK /\ Inv
  BY InitTypeOK, InitInv
<1>2. TypeOK /\ Inv /\ [Next]_vars => (TypeOK /\ Inv)'
  BY NextTypeOK, NextInv
<1> QED BY <1>1, <1>2, PTL DEF Spec

-----------------------------------------------------------------------------
(* The theorems.                                                           *)

(* However recv() cuts the stream, the receiving thread holds bytes back   *)
(* only inside a field, and nothing once everything has arrived.           *)
THEOREM ReceiverKeepsItsPlace == Spec => []KeepsItsPlace
<1>1. TypeOK /\ Inv => KeepsItsPlace
  <2> SUFFICES ASSUME TypeOK, Inv PROVE KeepsItsPlace
    OBVIOUS
  <2>1. buffer \in Seq(Unit) /\ inFlight \in Seq(Unit)
    BY DEF TypeOK
  <2>2. /\ Len(Stream) = Len(buffer) + Len(inFlight) /\ Stream \in Seq(Unit)
        /\ Window(buffer, Stream, 0)
    BY <2>1, StreamUnits DEF Stream
  <2>3. ASSUME buffer # << >> PROVE buffer[1].part # "body" /\ buffer[Len(buffer)].part = "head"
    <3>1. 1 \in 1 .. Len(buffer)
      BY <2>1, <2>3, EmptySeq
    <3>2. Stream # << >> /\ buffer[1] = Stream[1]
      BY <2>1, <2>2, <3>1 DEF Window
    <3> QED BY <2>3, <3>2 DEF Inv, Framed
  <2>4. ASSUME peer = "open", inFlight = << >>, buffer # << >> PROVE FALSE
    <3>1. Stream = buffer
      BY <2>1, <2>4, ConcatEmptySeq DEF Stream
    <3> QED BY <2>4, <3>1 DEF Inv, Framed
  <2> QED BY <2>3, <2>4 DEF KeepsItsPlace
<1> QED BY <1>1, InvAlways, PTL

(* Pictures reach the decoders in sending order and at most once, however  *)
(* many messages one buffer holds.                                         *)
THEOREM PicturesInOrder == Spec => []InOrder
<1>1. TypeOK /\ Inv => InOrder
  BY DEF Inv
<1> QED BY <1>1, InvAlways, PTL

(* Merging messages never misroutes a picture of a pipe other than 0. *)
THEOREM NonzeroPipesKept == Spec => []NonzeroPipeKept
<1>1. TypeOK /\ Inv => NonzeroPipeKept
  BY DEF Inv
<1> QED BY <1>1, InvAlways, PTL

(* A connection makes the client send at most one Setup. *)
THEOREM OneSetupPerConnection == Spec => []AtMostOneSetup
<1>1. TypeOK /\ Inv => AtMostOneSetup
  BY DEF Inv, Greeting, AtMostOneSetup
<1> QED BY <1>1, InvAlways, PTL

-----------------------------------------------------------------------------
(* The link implements the lossy channel.                                  *)

(* A delivery is an empty picture, or one newer than all before it. *)
LEMMA DeliverStep ==
  ASSUME TypeOK, Inv, TypeOK', Inv', sent' = sent,
         NEW f \in Nat, NEW p \in Pipes,
         delivered' = Append(delivered, [frame |-> f, pipe |-> p])
  PROVE  Channel!Next
<1> DEFINE n == Len(delivered)
<1>1. /\ DOMAIN delivered' = 1 .. n + 1 /\ DOMAIN delivered = 1 .. n /\ n \in Nat
      /\ Len(delivered') = n + 1
      /\ \A i \in 1 .. n : delivered'[i] = delivered[i]
      /\ delivered'[n + 1] = [frame |-> f, pipe |-> p]
  BY DeliveredUnits DEF TypeOK
<1>2. Len(sent) \in Nat /\ DOMAIN sent = 1 .. Len(sent)
  BY DEF TypeOK
<1> HIDE DEF n
<1>3. CASE f = 0
  <2>1. Channel!DeliverEmpty(p)
    BY <1>3 DEF Channel!DeliverEmpty
  <2> QED BY <2>1 DEF Channel!Next
<1>4. CASE f # 0
  <2>1. n + 1 \in DOMAIN delivered' /\ (n + 1) - 1 = n
    BY <1>1
  <2>2. f <= Len(sent) /\ \A i \in 1 .. n : delivered'[i].frame < f
    BY <1>1, <1>4, <2>1 DEF Inv, InOrder
  <2>3. f \in DOMAIN sent
    BY <1>2, <1>4, <2>2
  <2>4. Channel!Newer(f)
    BY <1>1, <2>2 DEF Channel!Newer
  <2>5. sent[f] # 0 => p = sent[f]
    BY <1>1, <1>4, <2>1 DEF Inv, NonzeroPipeKept
  <2>6. Channel!Deliver(f, p)
    BY <2>4, <2>5 DEF Channel!Deliver
  <2> QED BY <2>3, <2>6 DEF Channel!Next
<1> QED BY <1>3, <1>4

LEMMA RecvImplements ==
  ASSUME TypeOK, Inv, TypeOK', Inv', NEW n \in 0 .. Len(inFlight), Recv(n)
  PROVE  [Channel!Next]_<<sent, delivered>>
<1> DEFINE b == buffer \o SubSeq(inFlight, 1, n)
<1>1. b \in Seq(Unit)
  BY RecvCuts DEF TypeOK
<1>2. Dispatch(b) /\ sent' = sent
  BY DEF Recv, serverVars
<1> HIDE DEF b
<1>3. ParsedFrame(b) \in Nat /\ ParsedPipe(b, "DATA") \in Pipes
  BY <1>1, ParsedValues
<1>4. CASE delivered' = delivered
  BY <1>2, <1>4
<1>5. CASE delivered' # delivered
  <2>1. delivered' = Append(delivered, [frame |-> ParsedFrame(b), pipe |-> ParsedPipe(b, "DATA")])
    BY <1>2, <1>5 DEF Dispatch, Handle, OnData
  <2> QED BY <1>2, <1>3, <2>1, DeliverStep
<1> QED BY <1>4, <1>5

(* Pictures are given to the pipes at most once and in order, those of a   *)
(* pipe other than 0 to their own, and those that one parse merges are     *)
(* lost: the link implements LossyChannel.                                 *)
THEOREM LinkImplementsChannel == Spec => ImplementsChannel
<1>1. Init => Channel!Init
  BY DEF Init, Channel!Init
<1>2. ASSUME TypeOK, Inv, TypeOK', Inv', [Next]_vars
      PROVE  [Channel!Next]_<<sent, delivered>>
  <2> USE DEF serverVars, mainVars, sourceVars
  <2>1. CASE UNCHANGED << sent, delivered >>
    BY <2>1
  <2>2. ASSUME NEW p \in Pipes, SendData(p) PROVE Channel!Next
    <3>1. Channel!Send(p)
      BY <2>2 DEF SendData, Channel!Send
    <3> QED BY <3>1 DEF Channel!Next
  <2>3. CASE RecvSome
    <3>1. \A n \in 1 .. Len(inFlight) : n \in 0 .. Len(inFlight)
      OBVIOUS
    <3> QED BY <1>2, <2>3, <3>1, RecvImplements DEF RecvSome
  <2>4. CASE RecvNothing
    <3>1. 0 \in 0 .. Len(inFlight)
      BY <1>2 DEF TypeOK
    <3> QED BY <1>2, <2>4, <3>1, RecvImplements DEF RecvNothing
  <2>5. \/ UNCHANGED << sent, delivered >>
        \/ \E p \in Pipes : SendData(p)
        \/ RecvSome \/ RecvNothing
    BY <1>2 DEF Next, Server, MainThread, SourceThread, vars, SendCapabilities,
       ServerStartsPipes, Close, Reset, Wire, StartPipe, SetPainter, Connect, RecvError
  <2> QED BY <2>1, <2>2, <2>3, <2>4, <2>5
<1> QED BY <1>1, <1>2, InvAlways, PTL DEF Spec, ImplementsChannel, Channel!Spec

-----------------------------------------------------------------------------
(* Startup.                                                                *)

(* Pipes are wired one by one and each is started before the next is       *)
(* wired; the painter comes last.                                          *)
StartedInTurn ==
  /\ started <= wired
  /\ painter => started = NumLocalPipes /\ wired = NumLocalPipes

LEMMA StartupAlways == Spec => []StartedInTurn
<1>1. Init => StartedInTurn
  BY DEF Init, StartedInTurn
<1>2. TypeOK /\ StartedInTurn /\ [Next]_vars => StartedInTurn'
  <2> SUFFICES ASSUME TypeOK, StartedInTurn, [Next]_vars PROVE StartedInTurn'
    OBVIOUS
  <2> USE ClientAssumption DEF StartedInTurn
  <2>1. CASE Wire \/ StartPipe \/ SetPainter
    BY <2>1 DEF Wire, StartPipe, SetPainter, TypeOK
  <2>2. CASE UNCHANGED mainVars
    BY <2>2 DEF mainVars
  <2>3. Wire \/ StartPipe \/ SetPainter \/ UNCHANGED mainVars
    BY DEF Next, vars, Server, SendCapabilities, SendData, ServerStartsPipes, Close, Reset,
       MainThread, SourceThread, Connect, RecvSome, RecvNothing, Recv, RecvError
  <2> QED
    BY <2>1, <2>2, <2>3
<1> QED
  BY <1>1, <1>2, TypeCorrect, PTL DEF Spec

(* After runClient() has returned, only a picture of another pipe than 0   *)
(* can end the client, for any number of local pipes.                      *)
THEOREM StartedClientIsSafe == Spec => SafeAfterStartup
<1>1. ASSUME TypeOK, StartedInTurn, [Next]_vars
      PROVE  [painter /\ dead = "no" /\ dead' # "no" => delivered'[Len(delivered')].pipe # 0]_vars
  <2> SUFFICES ASSUME painter, dead = "no", dead' # "no"
               PROVE  delivered'[Len(delivered')].pipe # 0
    OBVIOUS
  <2>1. PICK n \in 0 .. Len(inFlight) : Recv(n)
    <3>1. RecvSome \/ RecvNothing
      BY <1>1 DEF Next, vars, Server, SendCapabilities, SendData, ServerStartsPipes, Close,
         Reset, MainThread, Wire, StartPipe, SetPainter, SourceThread, Connect, RecvError
    <3>2. Len(inFlight) \in Nat
      BY <1>1 DEF TypeOK
    <3>3. 0 \in 0 .. Len(inFlight) /\ \A n \in 1 .. Len(inFlight) : n \in 0 .. Len(inFlight)
      BY <3>2
    <3> QED
      BY <3>1, <3>3 DEF RecvSome, RecvNothing
  <2> DEFINE b == buffer \o SubSeq(inFlight, 1, n)
  <2>2. b \in Seq(Unit) /\ Dispatch(b)
    BY <1>1, <2>1, RecvCuts DEF TypeOK, Recv
  <2> HIDE DEF b
  <2>3. PICK p \in Pipes, f \in Nat : OnData(p, f)
    BY <2>2, ParsedValues DEF Dispatch, Handle
  <2>4. delivered' = Append(delivered, [frame |-> f, pipe |-> p]) /\ delivered \in Seq(Delivery)
    BY <1>1, <2>3 DEF OnData, TypeOK
  <2>5. delivered'[Len(delivered')] = [frame |-> f, pipe |-> p]
    <3>1. [frame |-> f, pipe |-> p] \in Delivery
      BY PipesAssumption DEF Delivery
    <3> QED
      BY <2>4, <3>1, AppendProperties
  <2>6. p # 0
    <3> SUFFICES ASSUME p = 0 PROVE FALSE
      OBVIOUS
    <3>1. ~(p >= wired)
      BY <1>1, ClientAssumption DEF StartedInTurn
    <3> QED
      BY <2>3, <3>1 DEF OnData, Decode
  <2> QED
    BY <2>5, <2>6
<1> QED
  BY <1>1, TypeCorrect, StartupAlways, PTL DEF Spec, SafeAfterStartup

=============================================================================
