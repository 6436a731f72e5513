------------------------- MODULE SnpVaEncoderProofs -------------------------
(* The frame numbers, references and lists of the stream, for any number of *)
(* surfaces and references, any periods, and any range of numbers that is a *)
(* multiple of the announced one.                                           *)
EXTENDS SnpVaEncoder, TLAPS

Last == sent[Len(sent)]

(* What is being coded has the current number and the newest reference.     *)
Coding ==
  /\ step = "end" =>
       /\ picture.num = currentFrameNum
       /\ currentFrameType # "IDR" => picture.from = referenceFrames[1]
  /\ step \in {"end", "unmap", "done"} => currentCurrPic.session = session
  /\ step \in {"unmap", "done"} =>
       /\ sent # << >> /\ Last.num = currentFrameNum
       /\ Last.input = currentCurrPic.input /\ Last.began = session

(* The picture that left last was counted, or the next takes its number.    *)
Counted ==
  sent # << >> =>
    \/ Last.num = currentFrameNum
    \/ /\ currentFrameNum = IF Last.num + 1 = MaxFrameNum THEN 0 ELSE Last.num + 1
       /\ referenceFrames[1].input = Last.input
       /\ referenceFrames[1].session = Last.began

IInv == TypeOK /\ Coding /\ Counted /\ NumbersFollow


LEMMA InitIInv == Init => IInv
<1> SUFFICES ASSUME Init PROVE IInv
  OBVIOUS
<1> USE EncoderAssumption
<1>1. NoPic \in Pics
  BY DEF NoPic, Pic, Pics, Ids, Sessions
<1>2. NoPicture \in [given : BOOLEAN, context : Sessions, refs : Seq(Pics), from : Pics,
                     num : 0 .. MaxFrameNum - 1]
  BY <1>1 DEF NoPicture, Sessions
<1>3. \E ids \in SUBSET SurfaceIds : content \in [ids -> 0 .. MaxInputs]
  <2>1. content \in [{} -> 0 .. MaxInputs]
    BY DEF Init
  <2> QED
    BY <2>1
<1>4. referenceFrames \in [1 .. SurfaceNum -> Pics] /\ currentCurrPic \in Pics
  BY <1>1 DEF Init
<1>5. /\ starts \in Sessions /\ session \in Sessions /\ target \in Ids /\ inputs \in 0 .. MaxInputs
      /\ currentFrameNum \in 0 .. MaxFrameNum - 1 /\ numShortTerm \in 0 .. NumRefFrames
      /\ encodingFrameNum \in Nat
  BY DEF Init, Sessions, Ids
<1>6. TypeOK
  <2>1. picture \in [given : BOOLEAN, context : Sessions, refs : Seq(Pics), from : Pics,
                     num : 0 .. MaxFrameNum - 1]
    BY <1>2 DEF Init
  <2>2. srcSurface \in [Surfaces -> SurfaceIds] /\ sent \in Seq(Coded)
    BY DEF Init
  <2>3. /\ running \in BOOLEAN /\ opening \in BOOLEAN /\ crashed \in BOOLEAN /\ open \in BOOLEAN
        /\ opening => starts < MaxStarts
        /\ step \in {"idle", "upload", "begin", "end", "unmap", "done"}
        /\ currentFrameType \in FrameTypes
    BY DEF Init, FrameTypes
  <2> QED
    BY <1>3, <1>4, <1>5, <2>1, <2>2, <2>3 DEF TypeOK
<1> QED
  BY <1>6 DEF Init, IInv, Coding, Counted, NumbersFollow

(* The number after n, modulo the announced range.                          *)
LEMMA WrapFollows ==
  ASSUME NEW n \in 0 .. MaxFrameNum - 1
  PROVE  (IF n + 1 = MaxFrameNum THEN 0 ELSE n + 1) % Announced = (n + 1) % Announced
<1>1. MaxFrameNum % Announced = 0 /\ 0 % Announced = 0
  BY EncoderAssumption
<1> QED
  BY <1>1

(* What the driver finds in a surface is a picture.                         *)
LEMMA HoldsType == TypeOK => \A id : Holds(id) \in 0 .. MaxInputs
  BY EncoderAssumption DEF TypeOK, Holds

LEMMA ReturnType ==
  ASSUME Return
  PROVE  /\ step' = "idle" /\ target' \in Ids /\ session' \in Sessions
         /\ picture' \in [given : BOOLEAN, context : Sessions, refs : Seq(Pics), from : Pics,
                          num : 0 .. MaxFrameNum - 1]
<1> USE EncoderAssumption
<1>1. NoPic \in Pics
  BY DEF NoPic, Pic, Pics, Ids, Sessions
<1> QED
  BY <1>1 DEF Return, NoPicture, Sessions, Ids

LEMMA TurnType == TypeOK => surfaceIndex \in Surfaces
  BY EncoderAssumption DEF TypeOK, surfaceIndex, Surfaces

(* The record of a coded picture.                                           *)
NewCoded ==
  [type |-> currentFrameType, num |-> picture.num, input |-> currentCurrPic.input,
   ref |-> Holds(picture.from.id), began |-> session, session |-> starts]

LEMMA NewCodedType == TypeOK => NewCoded \in Coded
  BY HoldsType DEF TypeOK, NewCoded, Coded, Pics

LEMMA StepType == ASSUME TypeOK, [Next]_vars PROVE TypeOK'
<1> USE EncoderAssumption DEF TypeOK
<1>1. CASE Start
  BY <1>1 DEF Start, driver, call, counters, current
<1>2. CASE InitVaH264Encoder
  <2>1. starts' \in Sessions
    <3>1. starts < MaxStarts
      BY <1>2 DEF InitVaH264Encoder
    <3> QED
      BY <1>2, <3>1 DEF InitVaH264Encoder, Sessions
  <2>2. /\ srcSurface' \in [Surfaces -> SurfaceIds]
        /\ \E ids \in SUBSET SurfaceIds : content' \in [ids -> 0 .. MaxInputs]
    <3>1. CASE /\ srcSurface' \in Injection(Surfaces, SurfaceIds)
               /\ content' = Blank(srcSurface')
      <4>1. srcSurface' \in [Surfaces -> SurfaceIds]
        BY <3>1 DEF Injection
      <4>2. Range(srcSurface') \in SUBSET SurfaceIds
        BY <4>1 DEF Range
      <4>3. content' \in [Range(srcSurface') -> 0 .. MaxInputs]
        BY <3>1 DEF Blank
      <4> QED
        BY <4>1, <4>2, <4>3
    <3>2. CASE UNCHANGED << srcSurface, content >>
      BY <3>2
    <3> QED
      BY <1>2, <3>1, <3>2 DEF InitVaH264Encoder
  <2> QED
    BY <1>2, <2>1, <2>2 DEF InitVaH264Encoder, call, counters, current
<1>3. CASE Stop
  <2>1. content' \in [{} -> 0 .. MaxInputs]
    BY <1>3 DEF Stop
  <2> QED
    BY <1>3, <2>1 DEF Stop, call, counters, current
<1>4. CASE OnInputData
  <2>1. target' \in Ids
    BY <1>4, TurnType DEF OnInputData, Ids
  <2> QED
    BY <1>4, <2>1 DEF OnInputData, owner, driver, counters, current
<1>5. CASE Upload
  <2>1. PICK ids \in SUBSET SurfaceIds : content \in [ids -> 0 .. MaxInputs]
    OBVIOUS
  <2>2. content' \in [ids -> 0 .. MaxInputs]
    BY <1>5, <2>1 DEF Upload
  <2> QED
    BY <1>5, <2>2 DEF Upload, owner, driver, call, counters, current
<1>6. CASE Render
  <2>2. currentCurrPic' \in Pics
    BY <1>6, TurnType DEF Render, Pic, Pics, Ids
  <2>3. FrameType \in FrameTypes /\ Kept(FrameType) \in 0 .. NumRefFrames
    BY DEF FrameType, FrameTypes, Kept
  <2>4. SubSeq(referenceFrames, 1, Kept(FrameType)) \in Seq(Pics)
    <3>1. referenceFrames \in Seq(Pics) /\ Kept(FrameType) \in Nat /\ Kept(FrameType) <= Len(referenceFrames)
      BY <2>3
    <3> QED
      BY <3>1
  <2>5. NoPic \in Pics /\ referenceFrames[1] \in Pics
    BY DEF NoPic, Pic, Pics, Ids, Sessions
  <2>6. picture' \in [given : BOOLEAN, context : Sessions, refs : Seq(Pics), from : Pics,
                      num : 0 .. MaxFrameNum - 1]
    BY <1>6, <2>4, <2>5 DEF Render, RenderedPicture
  <2> QED
    BY <1>6, <2>2, <2>3, <2>6 DEF Render, owner, driver, call
<1>7. CASE EndPicture
  <2>1. sent' = Append(sent, NewCoded) /\ NewCoded \in Coded
    BY <1>7, NewCodedType DEF EndPicture, NewCoded
  <2> HIDE DEF TypeOK
  <2>2. sent' \in Seq(Coded)
    BY <2>1 DEF TypeOK
  <2> QED
    BY <1>7, <2>2 DEF TypeOK, EndPicture, owner, driver, call, counters, current
<1>8. CASE Unmap
  BY <1>8 DEF Unmap, owner, driver, call, counters, current
<1>9. CASE UpdateReferenceFrames
  <2>1. Shifted(referenceFrames) \in [1 .. SurfaceNum -> Pics]
    <3>1. ASSUME NEW i \in 1 .. SurfaceNum PROVE Shifted(referenceFrames)[i] \in Pics
      <4>1. i # 1 => i - 1 \in 1 .. SurfaceNum
        OBVIOUS
      <4> QED
        BY <4>1 DEF Shifted
    <3> QED
      BY <3>1 DEF Shifted
  <2>2. NextFrameNum \in 0 .. MaxFrameNum - 1
    BY DEF NextFrameNum
  <2> QED
    BY <1>9, <2>1, <2>2, ReturnType DEF UpdateReferenceFrames, owner, driver
<1>10. CASE Fails
  BY <1>10, ReturnType DEF Fails, owner, driver, counters
<1>11. CASE Crashes
  BY <1>11 DEF Crashes, owner, driver, call, counters, current
<1>12. CASE UNCHANGED vars
  BY <1>12 DEF vars, owner, driver, call, counters, current
<1> QED
  BY <1>1, <1>2, <1>3, <1>4, <1>5, <1>6, <1>7, <1>8, <1>9, <1>10, <1>11, <1>12 DEF Next, Encode

(* The stream grows at its end only.                                        *)
LEMMA SentGrows ==
  ASSUME TypeOK, EndPicture
  PROVE  /\ sent' = Append(sent, NewCoded) /\ sent' # << >> /\ Last' = NewCoded
         /\ \A i \in 2 .. Len(sent') :
              \/ i \in 2 .. Len(sent) /\ sent'[i] = sent[i] /\ sent'[i - 1] = sent[i - 1]
              \/ sent # << >> /\ sent'[i] = NewCoded /\ sent'[i - 1] = Last
         /\ sent # << >> => Last.num \in 0 .. MaxFrameNum - 1
<1>1. sent' = Append(sent, NewCoded)
  BY DEF EndPicture, NewCoded
<1>2. sent \in Seq(Coded) /\ NewCoded \in Coded
  BY NewCodedType DEF TypeOK
<1>3. sent' # << >> /\ Last' = NewCoded
  BY <1>1, <1>2 DEF Last
<1>4. ASSUME NEW i \in 2 .. Len(sent')
      PROVE  \/ i \in 2 .. Len(sent) /\ sent'[i] = sent[i] /\ sent'[i - 1] = sent[i - 1]
             \/ sent # << >> /\ sent'[i] = NewCoded /\ sent'[i - 1] = Last
  BY <1>1, <1>2 DEF Last
<1>5. sent # << >> => Last.num \in 0 .. MaxFrameNum - 1
  <2> SUFFICES ASSUME sent # << >> PROVE Last.num \in 0 .. MaxFrameNum - 1
    OBVIOUS
  <2>1. Last \in Coded
    BY <1>2 DEF Last
  <2> QED
    BY <2>1 DEF Coded
<1> QED
  BY <1>1, <1>3, <1>4, <1>5

LEMMA StepIInv == IInv /\ [Next]_vars => IInv'
<1> SUFFICES ASSUME IInv, [Next]_vars PROVE IInv'
  OBVIOUS
<1>0. TypeOK'
  BY StepType DEF IInv
<1> USE DEF IInv, Coding, Counted, Last
<1>a. ASSUME UNCHANGED sent PROVE NumbersFollow'
  BY <1>a DEF NumbersFollow
<1>b. ASSUME UNCHANGED << step, session, counters, current, sent >> PROVE IInv'
  BY <1>0, <1>a, <1>b DEF counters, current
<1>1. CASE Start \/ InitVaH264Encoder \/ Stop \/ Crashes \/ UNCHANGED vars
  BY <1>1, <1>b DEF Start, InitVaH264Encoder, Stop, Crashes, vars, call
<1>2. CASE OnInputData \/ Upload
  BY <1>0, <1>2, <1>a DEF OnInputData, Upload, call, counters, current
<1>3. CASE Render
  <2>1. picture'.num = currentFrameNum /\ (currentFrameType' # "IDR" => picture'.from = referenceFrames[1])
    BY <1>3 DEF Render, RenderedPicture
  <2>2. currentCurrPic'.session = session'
    BY <1>3 DEF Render, Pic, call
  <2> QED
    BY <1>0, <1>3, <1>a, <2>1, <2>2 DEF Render
<1>4. CASE EndPicture
  <2>1. sent' # << >> /\ Last' = NewCoded
    BY <1>4, SentGrows
  <2>2. NewCoded.num = currentFrameNum
    BY <1>4 DEF EndPicture, NewCoded
  <2>3. NewCoded.input = currentCurrPic.input /\ NewCoded.began = session
    BY DEF NewCoded
  <2>4. Coding'
    BY <1>4, <2>1, <2>2, <2>3 DEF EndPicture, call, counters, current
  <2>5. Counted'
    BY <1>4, <2>1, <2>2 DEF EndPicture, counters
  <2>6. ASSUME NEW i \in 2 .. Len(sent')
        PROVE  \/ sent'[i].num = sent'[i - 1].num
               \/ sent'[i].num % Announced = (sent'[i - 1].num + 1) % Announced
    <3>1. CASE i \in 2 .. Len(sent) /\ sent'[i] = sent[i] /\ sent'[i - 1] = sent[i - 1]
      BY <3>1 DEF NumbersFollow
    <3>2. CASE sent # << >> /\ sent'[i] = NewCoded /\ sent'[i - 1] = Last
      <4>1. CASE Last.num = currentFrameNum
        BY <2>2, <3>2, <4>1
      <4>2. CASE currentFrameNum = IF Last.num + 1 = MaxFrameNum THEN 0 ELSE Last.num + 1
        <5>1. Last.num \in 0 .. MaxFrameNum - 1
          BY <1>4, <3>2, SentGrows
        <5>2. currentFrameNum % Announced = (Last.num + 1) % Announced
          BY <4>2, <5>1, WrapFollows
        <5> QED
          BY <2>2, <3>2, <5>2
      <4> QED
        BY <3>2, <4>1, <4>2
    <3> QED
      BY <1>4, <3>1, <3>2, SentGrows
  <2> QED
    BY <1>0, <2>4, <2>5, <2>6 DEF NumbersFollow
<1>5. CASE Unmap
  BY <1>0, <1>5, <1>a DEF Unmap, call, counters, current
<1>6. CASE UpdateReferenceFrames
  <2>1. referenceFrames'[1] = currentCurrPic
    BY <1>6, EncoderAssumption DEF UpdateReferenceFrames, Shifted, TypeOK
  <2>2. currentFrameNum' = IF Last.num + 1 = MaxFrameNum THEN 0 ELSE Last.num + 1
    BY <1>6 DEF UpdateReferenceFrames, NextFrameNum
  <2> QED
    BY <1>0, <1>6, <1>a, <2>1, <2>2 DEF UpdateReferenceFrames, Return
<1>7. CASE Fails
  BY <1>0, <1>7, <1>a DEF Fails, Return, counters
<1> QED
  BY <1>1, <1>2, <1>3, <1>4, <1>5, <1>6, <1>7 DEF Next, Encode

-----------------------------------------------------------------------------
(* The surfaces.                                                            *)

LEMMA NoMultipleBetween ==
  ASSUME NEW q \in Int, NEW m \in Nat \ {0}, NEW i \in 1 .. m - 1, m * q = i
  PROVE  FALSE
<1>1. CASE q <= 0
  BY <1>1, SMTT(30)
<1>2. CASE q >= 1
  BY <1>2, SMTT(30)
<1> QED
  BY <1>1, <1>2

(* The surfaces in turn of m in a row are different ones.                   *)
LEMMA TurnsDiffer ==
  ASSUME NEW n \in Nat, NEW m \in Nat \ {0}, NEW i \in 1 .. m - 1, i <= n
  PROVE  (n - i) % m # n % m
<1> SUFFICES ASSUME (n - i) % m = n % m PROVE FALSE
  OBVIOUS
<1> DEFINE k == n - i
<1>0. k \in Nat /\ k % m = n % m
  OBVIOUS
<1> HIDE DEF k
<1> DEFINE p == n \div m
           q == k \div m
<1>1. n = m * p + (n % m) /\ p \in Int /\ n % m \in Int
  BY SMTT(30)
<1>2. k = m * q + (k % m) /\ q \in Int
  BY <1>0, SMTT(30)
<1> HIDE DEF p, q
<1>3. m * p - m * q = n - k
  BY <1>0, <1>1, <1>2
<1>4. m * (p - q) = m * p - m * q
  BY <1>1, <1>2, SMTT(30)
<1> DEFINE d == p - q
<1>5. d \in Int /\ m * d = i
  BY <1>0, <1>1, <1>2, <1>3, <1>4 DEF k
<1> HIDE DEF d
<1> QED
  BY <1>5, NoMultipleBetween

(* No reference is of a later session than the call, nor the call than now. *)
InOrder ==
  /\ session <= starts
  /\ \A i \in 1 .. numShortTerm :
       /\ referenceFrames[i].session <= starts
       /\ step # "idle" => referenceFrames[i].session <= session

(* While the encoder is open its surfaces exist under different ids.        *)
Distinct ==
  open => /\ \A s, t \in Surfaces : srcSurface[s] = srcSurface[t] => s = t
          /\ DOMAIN content = {srcSurface[s] : s \in Surfaces}

(* A call that began in this session works at the surface in turn.          *)
AtTurn ==
  session = starts =>
    /\ step # "idle" => target = srcSurface[surfaceIndex]
    /\ step \in {"end", "unmap", "done"} =>
         currentCurrPic.id = srcSurface[surfaceIndex] /\ currentCurrPic.input = inputs
    /\ open /\ step \in {"begin", "end", "unmap", "done"} =>
         content[srcSurface[surfaceIndex]] = inputs

(* A reference of this session is in the surface that was in turn then, and *)
(* nothing has overwritten it.                                              *)
Behind ==
  open =>
    \A i \in 1 .. numShortTerm : referenceFrames[i].session = starts =>
      /\ i <= encodingFrameNum
      /\ referenceFrames[i].id = srcSurface[(encodingFrameNum - i) % SurfaceNum]
      /\ i < SurfaceNum => content[referenceFrames[i].id] = referenceFrames[i].input

(* Only an IDR picture has no reference.                                    *)
HasReference ==
  /\ FrameType # "IDR" => numShortTerm > 0
  /\ step = "end" => currentFrameType = FrameType

InTurn == InOrder /\ Distinct /\ AtTurn /\ Behind /\ HasReference

LEMMA InitInTurn == Init => InTurn
  BY EncoderAssumption DEF Init, InTurn, InOrder, Distinct, AtTurn, Behind, HasReference, FrameType

(* The sessions, and the length of the list, in terms of numbers.           *)
LEMMA TurnTypes ==
  ASSUME TypeOK
  PROVE  /\ numShortTerm \in Nat /\ numShortTerm <= NumRefFrames
         /\ NumRefFrames \in Nat /\ NumRefFrames >= 1 /\ NumRefFrames <= SurfaceNum
         /\ SurfaceNum \in Nat /\ SurfaceNum >= 2
         /\ starts \in Nat /\ session \in Nat /\ encodingFrameNum \in Nat
         /\ \A i \in 1 .. SurfaceNum : referenceFrames[i].session \in Nat
         /\ currentCurrPic.session \in Nat
<1>1. \A i \in 1 .. SurfaceNum : referenceFrames[i].session \in Nat
  BY EncoderAssumption DEF TypeOK, Pics, Sessions
<1>2. currentCurrPic.session \in Nat
  BY EncoderAssumption DEF TypeOK, Pics, Sessions
<1> QED
  BY <1>1, <1>2, EncoderAssumption DEF TypeOK, Sessions

(* updateReferenceFrames() puts the picture in front.                       *)
LEMMA ShiftedRefs ==
  ASSUME TypeOK, UpdateReferenceFrames
  PROVE  /\ referenceFrames'[1] = currentCurrPic
         /\ numShortTerm' \in Nat /\ numShortTerm' >= 1
         /\ \A i \in 1 .. numShortTerm' :
              i # 1 => /\ i - 1 \in 1 .. numShortTerm
                       /\ referenceFrames'[i] = referenceFrames[i - 1]
<1>1. /\ referenceFrames' = Shifted(referenceFrames)
      /\ numShortTerm' = IF numShortTerm < NumRefFrames THEN numShortTerm + 1 ELSE numShortTerm
  BY DEF UpdateReferenceFrames
<1>2. DOMAIN referenceFrames = 1 .. SurfaceNum
  BY DEF TypeOK
<1> QED
  BY <1>1, <1>2, TurnTypes DEF Shifted

(* A reference that is not the last of a full list is not at the surface in *)
(* turn.                                                                    *)
LEMMA BehindDiffers ==
  ASSUME TypeOK, Distinct, Behind, open, NEW i \in 1 .. numShortTerm, i < SurfaceNum,
         referenceFrames[i].session = starts
  PROVE  /\ referenceFrames[i].id # srcSurface[surfaceIndex]
         /\ referenceFrames[i].id \in DOMAIN content
<1>1. /\ i \in 1 .. SurfaceNum - 1 /\ SurfaceNum \in Nat \ {0} /\ encodingFrameNum \in Nat
      /\ i <= encodingFrameNum
  BY TurnTypes DEF Behind
<1> DEFINE s == (encodingFrameNum - i) % SurfaceNum
<1>2. s # surfaceIndex
  BY <1>1, TurnsDiffer DEF surfaceIndex
<1>3. s \in Surfaces /\ surfaceIndex \in Surfaces
  BY <1>1, TurnType DEF Surfaces
<1>4. referenceFrames[i].id = srcSurface[s]
  BY DEF Behind
<1> HIDE DEF s
<1> QED
  BY <1>2, <1>3, <1>4 DEF Distinct

LEMMA StepInOrder == IInv /\ InTurn /\ [Next]_vars => InOrder'
<1> SUFFICES ASSUME IInv, InTurn, [Next]_vars PROVE InOrder'
  OBVIOUS
<1> USE TurnTypes DEF IInv, InOrder, InTurn
<1>1. CASE Start \/ Stop \/ Crashes \/ UNCHANGED vars \/ Unmap \/ EndPicture \/ Upload
  BY <1>1 DEF Start, Stop, Crashes, vars, Unmap, EndPicture, Upload, driver, owner, call, counters
<1>2. CASE InitVaH264Encoder
  <2>1. starts' = starts + 1 /\ UNCHANGED << session, step, numShortTerm, referenceFrames >>
    BY <1>2 DEF InitVaH264Encoder, call, counters
  <2>2. \A i \in 1 .. numShortTerm : referenceFrames[i].session <= starts + 1
    <3> TAKE i \in 1 .. numShortTerm
    <3>1. i \in 1 .. SurfaceNum
      OBVIOUS
    <3> QED
      BY <3>1
  <2> QED
    BY <2>1, <2>2
<1>3. CASE OnInputData
  BY <1>3 DEF OnInputData, owner, driver, counters
<1>4. CASE Render
  BY <1>4 DEF Render, Kept, owner, driver, call
<1>5. CASE UpdateReferenceFrames
  <2>1. currentCurrPic.session <= starts /\ starts' = starts /\ step' = "idle" /\ session' = 0
    BY <1>5 DEF UpdateReferenceFrames, Return, owner, driver, Coding
  <2> QED
    BY <1>5, <2>1, ShiftedRefs
<1>6. CASE Fails
  BY <1>6 DEF Fails, Return, owner, driver, counters
<1> QED
  BY <1>1, <1>2, <1>3, <1>4, <1>5, <1>6 DEF Next, Encode

LEMMA StepDistinct == TypeOK /\ InTurn /\ [Next]_vars => Distinct'
<1> SUFFICES ASSUME TypeOK, InTurn, [Next]_vars PROVE Distinct'
  OBVIOUS
<1> USE DEF Distinct, InTurn
<1>1. ASSUME UNCHANGED << open, srcSurface, content >> PROVE Distinct'
  BY <1>1
<1>2. CASE Start
  BY <1>1, <1>2 DEF Start, driver
<1>3. CASE InitVaH264Encoder
  <2>1. CASE /\ srcSurface' \in Injection(Surfaces, SurfaceIds)
             /\ content' = Blank(srcSurface')
    <3>1. srcSurface' \in [Surfaces -> SurfaceIds] /\ IsInjective(srcSurface')
      BY <2>1 DEF Injection
    <3>2. \A s, t \in Surfaces : srcSurface'[s] = srcSurface'[t] => s = t
      BY <3>1 DEF IsInjective
    <3>3. DOMAIN content' = {srcSurface'[s] : s \in Surfaces}
      BY <2>1, <3>1 DEF Blank, Range
    <3> QED
      BY <3>2, <3>3
  <2>2. CASE UNCHANGED << open, srcSurface, content >>
    BY <1>1, <2>2
  <2> QED
    BY <1>3, <2>1, <2>2 DEF InitVaH264Encoder
<1>4. CASE Stop
  BY <1>4 DEF Stop
<1>5. CASE Upload
  <2>1. DOMAIN content' = DOMAIN content /\ UNCHANGED << open, srcSurface >>
    BY <1>5 DEF Upload, owner, driver
  <2> QED
    BY <2>1
<1>6. CASE OnInputData \/ Render \/ EndPicture \/ Unmap \/ UpdateReferenceFrames \/ Fails
           \/ Crashes \/ UNCHANGED vars
  BY <1>1, <1>6 DEF OnInputData, Render, EndPicture, Unmap, UpdateReferenceFrames, Fails,
                    Crashes, vars, owner, driver
<1> QED
  BY <1>2, <1>3, <1>4, <1>5, <1>6 DEF Next, Encode

LEMMA StepAtTurn == TypeOK /\ InTurn /\ [Next]_vars => AtTurn'
<1> SUFFICES ASSUME TypeOK, InTurn, [Next]_vars PROVE AtTurn'
  OBVIOUS
<1> USE DEF InTurn, AtTurn, surfaceIndex
<1>1. CASE Start \/ Crashes \/ UNCHANGED vars
  BY <1>1 DEF Start, Crashes, vars, owner, driver, call, counters, current
<1>2. CASE InitVaH264Encoder
  <2>1. session' # starts'
    BY <1>2, TurnTypes DEF InitVaH264Encoder, call, InOrder
  <2> QED
    BY <2>1
<1>3. CASE Stop
  BY <1>3 DEF Stop, call, counters, current
<1>4. CASE OnInputData
  BY <1>4 DEF OnInputData, owner, driver, counters, current
<1>5. CASE Upload
  <2>1. /\ step' = "begin" /\ content' = [content EXCEPT ![target] = inputs]
        /\ target \in DOMAIN content /\ step = "upload"
        /\ UNCHANGED << open, starts, srcSurface, session, inputs, target, encodingFrameNum >>
    BY <1>5 DEF Upload, owner, driver, call, counters
  <2> QED
    BY <2>1
<1>6. CASE Render
  <2>1. /\ currentCurrPic'.id = srcSurface[surfaceIndex] /\ currentCurrPic'.input = inputs
        /\ step = "begin"
        /\ UNCHANGED << open, starts, srcSurface, session, inputs, target, encodingFrameNum,
                        content >>
    BY <1>6 DEF Render, Pic, owner, driver, call
  <2> QED
    BY <2>1
<1>7. CASE EndPicture \/ Unmap
  BY <1>7 DEF EndPicture, Unmap, owner, driver, call, counters, current
<1>8. CASE UpdateReferenceFrames \/ Fails
  <2>1. step' = "idle"
    BY <1>8 DEF UpdateReferenceFrames, Fails, Return
  <2> QED
    BY <2>1
<1> QED
  BY <1>1, <1>2, <1>3, <1>4, <1>5, <1>6, <1>7, <1>8 DEF Next, Encode

LEMMA StepBehind == IInv /\ InTurn /\ [Next]_vars => Behind'
<1> SUFFICES ASSUME IInv, InTurn, [Next]_vars PROVE Behind'
  OBVIOUS
<1>t. TypeOK
  BY DEF IInv
<1> USE DEF InTurn, Behind
<1>1. ASSUME UNCHANGED << open, starts, srcSurface, content, encodingFrameNum, referenceFrames >>,
             numShortTerm' \in {0, numShortTerm}
      PROVE  Behind'
  BY <1>1
<1>2. CASE Start \/ Crashes \/ UNCHANGED vars \/ OnInputData \/ EndPicture \/ Unmap \/ Fails
  BY <1>1, <1>2 DEF Start, Crashes, vars, OnInputData, EndPicture, Unmap, Fails, owner, driver, counters
<1>3. CASE InitVaH264Encoder
  <2>1. \A i \in 1 .. numShortTerm : referenceFrames[i].session # starts + 1
    <3> TAKE i \in 1 .. numShortTerm
    <3>1. i \in 1 .. SurfaceNum
      BY <1>t, TurnTypes
    <3> QED
      BY <1>t, <3>1, TurnTypes DEF InOrder
  <2> QED
    BY <1>3, <2>1 DEF InitVaH264Encoder, counters
<1>4. CASE Stop
  BY <1>4 DEF Stop
<1>5. CASE Upload
  <2>1. /\ content' = [content EXCEPT ![target] = inputs]
        /\ step = "upload" /\ open
        /\ UNCHANGED << open, starts, srcSurface, counters >>
    BY <1>5 DEF Upload, owner, driver, Works
  <2>2. ASSUME NEW i \in 1 .. numShortTerm, referenceFrames[i].session = starts, i < SurfaceNum
        PROVE  content'[referenceFrames[i].id] = referenceFrames[i].input
    <3>1. i \in 1 .. SurfaceNum
      BY <1>t, TurnTypes
    <3>2. session = starts
      BY <1>t, <2>1, <2>2, <3>1, TurnTypes DEF InOrder
    <3>3. target = srcSurface[surfaceIndex]
      BY <2>1, <3>2 DEF AtTurn
    <3>4. referenceFrames[i].id # target /\ referenceFrames[i].id \in DOMAIN content
      BY <1>t, <2>1, <2>2, <3>3, BehindDiffers
    <3>5. content[referenceFrames[i].id] = referenceFrames[i].input
      BY <2>1, <2>2
    <3> QED
      BY <2>1, <3>4, <3>5
  <2> QED
    BY <2>1, <2>2 DEF counters
<1>6. CASE Render
  BY <1>1, <1>6 DEF Render, Kept, owner, driver, call
<1>7. CASE UpdateReferenceFrames
  <2>1. /\ encodingFrameNum' = encodingFrameNum + 1 /\ encodingFrameNum \in Nat
        /\ step = "done"
        /\ UNCHANGED << open, starts, srcSurface, content >>
    BY <1>7, <1>t, TurnTypes DEF UpdateReferenceFrames, owner, driver
  <2> SUFFICES ASSUME open, NEW i \in 1 .. numShortTerm', referenceFrames'[i].session = starts
               PROVE  /\ i <= encodingFrameNum + 1
                      /\ referenceFrames'[i].id
                           = srcSurface[(encodingFrameNum + 1 - i) % SurfaceNum]
                      /\ i < SurfaceNum =>
                           content[referenceFrames'[i].id] = referenceFrames'[i].input
    BY <2>1
  <2>2. CASE i = 1
    <3>1. referenceFrames'[i] = currentCurrPic
      BY <1>t, <1>7, <2>2, ShiftedRefs
    <3>2. session = starts
      BY <2>1, <3>1 DEF IInv, Coding
    <3>3. /\ currentCurrPic.id = srcSurface[surfaceIndex] /\ currentCurrPic.input = inputs
          /\ content[srcSurface[surfaceIndex]] = inputs
      BY <2>1, <3>2 DEF AtTurn
    <3>4. encodingFrameNum + 1 - i = encodingFrameNum
      BY <2>1, <2>2
    <3> QED
      BY <2>1, <2>2, <3>1, <3>3, <3>4 DEF surfaceIndex
  <2>3. CASE i # 1
    <3>1. i - 1 \in 1 .. numShortTerm /\ referenceFrames'[i] = referenceFrames[i - 1]
      BY <1>t, <1>7, <2>3, ShiftedRefs
    <3>2. /\ i - 1 <= encodingFrameNum
          /\ referenceFrames[i - 1].id = srcSurface[(encodingFrameNum - (i - 1)) % SurfaceNum]
          /\ i - 1 < SurfaceNum =>
               content[referenceFrames[i - 1].id] = referenceFrames[i - 1].input
      BY <3>1
    <3>3. encodingFrameNum + 1 - i = encodingFrameNum - (i - 1) /\ i \in Int /\ SurfaceNum \in Int
      BY <1>t, <2>1, <3>1, TurnTypes
    <3> QED
      BY <2>1, <3>1, <3>2, <3>3
  <2> QED
    BY <2>2, <2>3
<1> QED
  BY <1>2, <1>3, <1>4, <1>5, <1>6, <1>7 DEF Next, Encode

LEMMA StepHasReference == TypeOK /\ InTurn /\ [Next]_vars => HasReference'
<1> SUFFICES ASSUME TypeOK, InTurn, [Next]_vars PROVE HasReference'
  OBVIOUS
<1> USE DEF InTurn, HasReference, FrameType
<1>1. CASE Start \/ InitVaH264Encoder \/ Stop \/ Crashes \/ UNCHANGED vars
  BY <1>1 DEF Start, InitVaH264Encoder, Stop, Crashes, vars, counters, current
<1>2. CASE OnInputData \/ Upload \/ EndPicture \/ Unmap \/ Fails
  BY <1>2 DEF OnInputData, Upload, EndPicture, Unmap, Fails, Return, counters
<1>3. CASE Render
  BY <1>3 DEF Render, Kept
<1>4. CASE UpdateReferenceFrames
  BY <1>4, ShiftedRefs DEF UpdateReferenceFrames, Return
<1> QED
  BY <1>1, <1>2, <1>3, <1>4 DEF Next, Encode

LEMMA StepInTurn == IInv /\ InTurn /\ [Next]_vars => InTurn'
  BY StepInOrder, StepDistinct, StepAtTurn, StepBehind, StepHasReference DEF IInv, InTurn

(* The surface of the newest reference, when it is of this session, holds   *)
(* its picture.                                                             *)
LEMMA NewestHolds ==
  ASSUME TypeOK, InTurn, open, numShortTerm > 0, referenceFrames[1].session = starts
  PROVE  Holds(referenceFrames[1].id) = referenceFrames[1].input
<1>1. 1 \in 1 .. numShortTerm /\ 1 < SurfaceNum
  BY TurnTypes
<1>2. referenceFrames[1].id \in DOMAIN content
  BY <1>1, BehindDiffers DEF InTurn
<1>3. content[referenceFrames[1].id] = referenceFrames[1].input
  BY <1>1 DEF InTurn, Behind
<1> QED
  BY <1>2, <1>3 DEF Holds

LEMMA StepPredicts ==
  IInv /\ InTurn /\ PredictsFromPrevious /\ [Next]_vars => PredictsFromPrevious'
<1> SUFFICES ASSUME IInv, InTurn, PredictsFromPrevious, [Next]_vars
             PROVE  PredictsFromPrevious'
  OBVIOUS
<1>1. CASE EndPicture
  <2>1. /\ step = "end" /\ open
        /\ picture.num = currentFrameNum
        /\ currentFrameType # "IDR" => picture.from = referenceFrames[1]
    BY <1>1 DEF EndPicture, Works, IInv, Coding
  <2>2. currentFrameType # "IDR" => numShortTerm > 0
    BY <2>1 DEF InTurn, HasReference
  <2>3. ASSUME sent # << >>, NewCoded.type = "P", NewCoded.num # Last.num,
               Last.began = NewCoded.session
        PROVE  NewCoded.ref = Last.input
    <3>1. /\ currentFrameType # "IDR" /\ Last.num # currentFrameNum /\ Last.began = starts
          /\ NewCoded.ref = Holds(picture.from.id)
      BY <2>1, <2>3 DEF NewCoded
    <3>2. referenceFrames[1].input = Last.input /\ referenceFrames[1].session = starts
      BY <2>3, <3>1 DEF IInv, Counted
    <3> QED
      BY <2>1, <2>2, <3>1, <3>2, NewestHolds DEF IInv
  <2>4. TypeOK
    BY DEF IInv
  <2>5. ASSUME NEW i \in 2 .. Len(sent'),
               sent'[i].type = "P", sent'[i].num # sent'[i - 1].num,
               sent'[i - 1].began = sent'[i].session
        PROVE  sent'[i].ref = sent'[i - 1].input
    <3>1. CASE i \in 2 .. Len(sent) /\ sent'[i] = sent[i] /\ sent'[i - 1] = sent[i - 1]
      BY <2>5, <3>1 DEF PredictsFromPrevious
    <3>2. CASE sent # << >> /\ sent'[i] = NewCoded /\ sent'[i - 1] = Last
      BY <2>3, <2>5, <3>2
    <3> QED
      BY <1>1, <2>4, <3>1, <3>2, SentGrows
  <2> QED
    BY <2>5 DEF PredictsFromPrevious
<1>2. CASE UNCHANGED sent
  BY <1>2 DEF PredictsFromPrevious
<1>3. UNCHANGED sent \/ EndPicture
  BY DEF Next, Encode, Start, InitVaH264Encoder, Stop, OnInputData, Upload, Render, Unmap,
         UpdateReferenceFrames, Fails, Crashes, vars
<1> QED
  BY <1>1, <1>2, <1>3

-----------------------------------------------------------------------------
(* The lists.                                                               *)

(* References get older along the list and are older than what is being     *)
(* coded; none is older than an IDR picture that was sent.  While an IDR    *)
(* picture is being coded the list is empty.                                *)
Ordered ==
  /\ \A i, j \in 1 .. numShortTerm :
       i < j => referenceFrames[i].input > referenceFrames[j].input
  /\ \A i \in 1 .. numShortTerm :
       /\ referenceFrames[i].input <= inputs
       /\ step # "idle" => referenceFrames[i].input < inputs
  /\ step \in {"end", "unmap", "done"} =>
       /\ currentCurrPic.input = inputs
       /\ currentFrameType = "IDR" => numShortTerm = 0
  /\ step = "end" => picture.refs = SubSeq(referenceFrames, 1, numShortTerm)
  /\ \A k \in DOMAIN sent :
       /\ sent[k].input <= inputs
       /\ sent[k].type = "IDR" =>
            \A i \in 1 .. numShortTerm : referenceFrames[i].input >= sent[k].input

LEMMA InitOrdered == Init => Ordered
  BY DEF Init, Ordered

(* What the types say about the lists. *)
LEMMA ListTypes ==
  ASSUME TypeOK
  PROVE  /\ numShortTerm \in Nat /\ numShortTerm <= NumRefFrames
         /\ NumRefFrames \in Nat /\ NumRefFrames >= 1 /\ NumRefFrames <= SurfaceNum
         /\ SurfaceNum \in Nat /\ inputs \in Nat
         /\ \A i \in 1 .. SurfaceNum : referenceFrames[i].input \in Nat
         /\ \A k \in DOMAIN sent : sent[k].input \in Nat
         /\ currentCurrPic.input \in Nat
<1>1. sent \in Seq(Coded)
  BY DEF TypeOK
<1>2. ASSUME NEW k \in DOMAIN sent PROVE sent[k].input \in Nat
  <2>1. sent[k] \in Coded
    BY <1>1
  <2> QED
    BY <2>1, EncoderAssumption DEF Coded
<1>3. \A i \in 1 .. SurfaceNum : referenceFrames[i].input \in Nat
  BY EncoderAssumption DEF TypeOK, Pics
<1>4. currentCurrPic.input \in Nat
  BY EncoderAssumption DEF TypeOK, Pics
<1> QED
  BY <1>2, <1>3, <1>4, EncoderAssumption DEF TypeOK

LEMMA StepOrdered == TypeOK /\ Ordered /\ [Next]_vars => Ordered'
<1> SUFFICES ASSUME TypeOK, Ordered, [Next]_vars PROVE Ordered'
  OBVIOUS
<1>0. /\ numShortTerm \in Nat /\ numShortTerm <= NumRefFrames
      /\ NumRefFrames \in Nat /\ NumRefFrames >= 1 /\ NumRefFrames <= SurfaceNum
      /\ SurfaceNum \in Nat /\ inputs \in Nat
      /\ \A i \in 1 .. SurfaceNum : referenceFrames[i].input \in Nat
      /\ \A k \in DOMAIN sent : sent[k].input \in Nat
  BY ListTypes
<1> USE DEF Ordered
<1>1. CASE Start \/ InitVaH264Encoder \/ Stop \/ Crashes \/ UNCHANGED vars
  BY <1>1 DEF Start, InitVaH264Encoder, Stop, Crashes, vars, call, counters, current
<1>2. CASE OnInputData
  BY <1>0, <1>2 DEF OnInputData, owner, driver, counters, current
<1>3. CASE Upload \/ Unmap \/ Fails
  BY <1>0, <1>3 DEF Upload, Unmap, Fails, Return, call, counters, current
<1>4. CASE Render
  <2>1. /\ currentCurrPic'.input = inputs /\ currentFrameType' = FrameType
        /\ numShortTerm' = Kept(FrameType)
        /\ picture'.refs = SubSeq(referenceFrames, 1, Kept(FrameType))
        /\ step' = "end" /\ step = "begin"
        /\ UNCHANGED << inputs, referenceFrames, sent >>
    <3>1. PICK given \in BOOLEAN : picture' = RenderedPicture(given)
      BY <1>4 DEF Render
    <3>2. picture'.refs = SubSeq(referenceFrames, 1, Kept(FrameType))
      BY <3>1 DEF RenderedPicture
    <3>3. currentCurrPic' = Pic(srcSurface[surfaceIndex], inputs, session)
      BY <1>4 DEF Render
    <3>4. currentCurrPic'.input = inputs
      BY <3>3 DEF Pic
    <3>5. UNCHANGED << inputs, referenceFrames, sent >>
      BY <1>4 DEF Render, call
    <3> QED
      BY <1>4, <3>2, <3>4, <3>5 DEF Render
  <2>2. /\ FrameType = "IDR" => numShortTerm' = 0
        /\ numShortTerm' \in {0, numShortTerm}
    BY <2>1 DEF Kept
  <2> QED
    BY <1>0, <2>1, <2>2
<1>5. CASE EndPicture
  <2>1. /\ sent' = Append(sent, NewCoded) /\ step = "end" /\ step' = "unmap"
        /\ UNCHANGED << inputs, numShortTerm, referenceFrames, currentCurrPic,
                        currentFrameType >>
    BY <1>5, SentGrows DEF EndPicture, call, counters, current
  <2>2. ASSUME NEW k \in DOMAIN sent'
        PROVE  (k \in DOMAIN sent /\ sent'[k] = sent[k]) \/ sent'[k] = NewCoded
    <3>1. sent \in Seq(Coded)
      BY DEF TypeOK
    <3> QED BY <2>1, <2>2, <3>1
  <2>3. NewCoded.input <= inputs /\ (NewCoded.type = "IDR" => numShortTerm = 0)
    BY <1>0, <2>1 DEF NewCoded
  <2>4. ASSUME NEW k \in DOMAIN sent'
        PROVE  /\ sent'[k].input <= inputs
               /\ sent'[k].type = "IDR" =>
                    \A i \in 1 .. numShortTerm : referenceFrames[i].input >= sent'[k].input
    BY <1>0, <2>2, <2>3
  <2> QED
    BY <2>1, <2>4
<1>6. CASE UpdateReferenceFrames
  <2>1. /\ step = "done" /\ step' = "idle" /\ referenceFrames' = Shifted(referenceFrames)
        /\ numShortTerm' = IF numShortTerm < NumRefFrames THEN numShortTerm + 1 ELSE numShortTerm
        /\ UNCHANGED << inputs, sent >>
    BY <1>6 DEF UpdateReferenceFrames, Return
  <2>2. referenceFrames'[1].input = inputs
    BY <1>0, <2>1 DEF Shifted, TypeOK
  <2>3. ASSUME NEW i \in 1 .. numShortTerm', i # 1
        PROVE  i - 1 \in 1 .. numShortTerm /\ referenceFrames'[i] = referenceFrames[i - 1]
    BY <1>0, <2>1, <2>3 DEF Shifted, TypeOK
  <2>4. numShortTerm' \in Nat
    BY <1>0, <2>1
  <2>5. ASSUME NEW i \in 1 .. numShortTerm', NEW j \in 1 .. numShortTerm', i < j
        PROVE  referenceFrames'[i].input > referenceFrames'[j].input
    <3>1. j # 1
      BY <2>4, <2>5
    <3>2. CASE i = 1
      BY <1>0, <2>1, <2>2, <2>3, <3>1, <3>2
    <3>3. CASE i # 1
      <4>1. i - 1 < j - 1
        BY <2>4, <2>5
      <4> QED BY <2>3, <3>1, <3>3, <4>1
    <3> QED BY <3>2, <3>3
  <2>6. ASSUME NEW i \in 1 .. numShortTerm'
        PROVE  /\ referenceFrames'[i].input <= inputs
               /\ \A k \in DOMAIN sent :
                    sent[k].type = "IDR" => referenceFrames'[i].input >= sent[k].input
    <3>1. CASE i = 1
      BY <1>0, <2>2, <3>1
    <3>2. CASE i # 1
      BY <1>0, <2>3, <3>2
    <3> QED BY <3>1, <3>2
  <2> QED
    BY <2>1, <2>5, <2>6
<1> QED
  BY <1>1, <1>2, <1>3, <1>4, <1>5, <1>6 DEF Next, Encode

(* A picture lists what the list of references has.                         *)
LEMMA ListedRefs ==
  ASSUME TypeOK, Ordered, step = "end"
  PROVE  /\ DOMAIN picture.refs = 1 .. numShortTerm
         /\ \A i \in 1 .. numShortTerm : picture.refs[i] = referenceFrames[i]
<1>1. /\ picture.refs = SubSeq(referenceFrames, 1, numShortTerm)
      /\ numShortTerm \in Nat /\ numShortTerm <= SurfaceNum
  BY ListTypes DEF Ordered
<1>2. referenceFrames \in Seq(Pics) /\ Len(referenceFrames) = SurfaceNum
  BY EncoderAssumption DEF TypeOK
<1> QED
  BY <1>1, <1>2

-----------------------------------------------------------------------------
(* The theorems.                                                            *)

(* Counters, references and numbers keep their ranges.                      *)
THEOREM EncoderIsTyped == Spec => []TypeOK
<1>1. IInv => TypeOK
  BY DEF IInv
<1> QED
  BY <1>1, InitIInv, StepIInv, PTL DEF Spec

(* A decoder that counts modulo the announced range sees no gap.            *)
THEOREM NumbersHaveNoGap == Spec => []NumbersFollow
<1>1. IInv => NumbersFollow
  BY DEF IInv
<1> QED
  BY <1>1, InitIInv, StepIInv, PTL DEF Spec

(* Within a session, the surface a P picture is predicted from holds the    *)
(* picture that left before it, whichever calls of the driver fail.         *)
THEOREM PredictionIsInOrder == Spec => []PredictsFromPrevious
<1>1. Init => IInv /\ InTurn /\ PredictsFromPrevious
  BY InitIInv, InitInTurn DEF Init, PredictsFromPrevious
<1>2. IInv /\ InTurn /\ PredictsFromPrevious /\ [Next]_vars
        => (IInv /\ InTurn /\ PredictsFromPrevious)'
  BY StepIInv, StepInTurn, StepPredicts
<1> QED
  BY <1>1, <1>2, PTL DEF Spec

(* While a picture is coded, the surfaces of the references of this session *)
(* that it lists exist under ids of their own and hold what was coded in    *)
(* them, whichever calls of the driver fail.                                *)
THEOREM ReferenceIsKept == Spec => []ReferencesAreIntact
<1>1. IInv /\ InTurn /\ Ordered => ReferencesAreIntact
  <2> SUFFICES ASSUME IInv, InTurn, Ordered, step = "end", open,
                      NEW i \in DOMAIN picture.refs,
                      picture.refs[i].session = starts, i < SurfaceNum
               PROVE  /\ Holds(picture.refs[i].id) = picture.refs[i].input
                      /\ picture.refs[i].id \notin {target, currentCurrPic.id}
    BY DEF ReferencesAreIntact
  <2>1. TypeOK
    BY DEF IInv
  <2>2. i \in 1 .. numShortTerm /\ picture.refs[i] = referenceFrames[i]
    BY <2>1, ListedRefs
  <2>3. /\ referenceFrames[i].id # srcSurface[surfaceIndex]
        /\ referenceFrames[i].id \in DOMAIN content
    BY <2>1, <2>2, BehindDiffers DEF InTurn
  <2>4. content[referenceFrames[i].id] = referenceFrames[i].input
    BY <2>2 DEF InTurn, Behind
  <2>5. session = starts
    BY <2>1, <2>2, TurnTypes DEF InTurn, InOrder
  <2>6. target = srcSurface[surfaceIndex] /\ currentCurrPic.id = srcSurface[surfaceIndex]
    BY <2>5 DEF InTurn, AtTurn
  <2> QED
    BY <2>2, <2>3, <2>4, <2>6 DEF Holds
<1>2. Init => IInv /\ InTurn /\ Ordered
  BY InitIInv, InitInTurn, InitOrdered
<1>3. IInv /\ InTurn /\ Ordered /\ [Next]_vars => (IInv /\ InTurn /\ Ordered)'
  BY StepIInv, StepInTurn, StepOrdered DEF IInv
<1> QED
  BY <1>1, <1>2, <1>3, PTL DEF Spec

(* A picture lists its references newest first, and none that is older than *)
(* an IDR picture of the stream, whichever calls of the driver fail and     *)
(* however often the encoder is restarted (renderPicture,                   *)
(* updateReferenceFrames).                                                  *)
THEOREM ListsAreSinceIdr == Spec => []ListsSinceIdr
<1>1. TypeOK /\ Ordered => ListsSinceIdr
  <2> SUFFICES ASSUME TypeOK, Ordered, step = "end" PROVE ListsSinceIdr
    BY DEF ListsSinceIdr
  <2> QED
    BY ListedRefs DEF Ordered, ListsSinceIdr
<1>2. Init => IInv /\ Ordered
  BY InitIInv, InitOrdered
<1>3. (IInv /\ Ordered) /\ [Next]_vars => (IInv /\ Ordered)'
  BY StepIInv, StepOrdered DEF IInv
<1>4. IInv => TypeOK
  BY DEF IInv
<1> QED
  BY <1>1, <1>2, <1>3, <1>4, PTL DEF Spec

=============================================================================
