---------------------------- MODULE SnpVaEncoder ----------------------------
(***************************************************************************)
(* SnpEncoderVaH264: a picture is uploaded into one of SurfaceNum surfaces *)
(* in turn and coded from earlier pictures that are still in the others;   *)
(* every call of the driver may fail, and encodeFrameVaH264() then returns *)
(* before the counters move, so that the next picture takes the place of   *)
(* this one.  start() and stop() come from the owner of the pipe: they     *)
(* create and destroy the surfaces and reset neither the counters nor the  *)
(* references, which go on naming the surfaces of before.                  *)
(***************************************************************************)
EXTENDS Integers, Sequences, Functions

CONSTANTS
  SurfaceNum,    (* SURFACE_NUM, 4                                            *)
  SurfaceIds,    (* the VASurfaceIDs that vaCreateSurfaces() can give         *)
  NoSurface,     (* VA_INVALID_SURFACE                                        *)
  NumRefFrames,  (* numRefFrames, 4                                           *)
  IdrPeriod,     (* idrPeriod, 60                                             *)
  IPeriod,       (* iPeriod, 30                                               *)
  MaxFrameNum,   (* 2 << 4                                                    *)
  Announced,     (* 2 ^ Log2MaxFrameNum, the modulus renderSequence() sends   *)
  MaxInputs,     (* bound: calls of onInputData()                             *)
  MaxStarts      (* bound: calls of start()                                   *)

ASSUME EncoderAssumption ==
  /\ SurfaceNum \in Nat \ {0, 1} /\ NumRefFrames \in 1 .. SurfaceNum
  /\ NoSurface \notin SurfaceIds
  /\ IdrPeriod \in Nat \ {0} /\ IPeriod \in Nat \ {0}
  /\ Announced \in Nat \ {0}
  /\ MaxFrameNum \in Nat \ {0} /\ MaxFrameNum % Announced = 0
  /\ MaxInputs \in Nat /\ MaxStarts \in Nat

VARIABLES
  running,           (* isRunning(), set by the owner                         *)
  opening,           (* the owner is in initVaH264Encoder()                   *)
  open,              (* initVa() and setupEncode() worked, and no stop() since *)
  starts,            (* calls of initVaH264Encoder() that have returned       *)
  srcSurface,        (* what vaCreateSurfaces() wrote last                    *)
  content,           (* the picture in each surface that exists, 0 when blank *)
  step,              (* where encodeFrameVaH264() is                          *)
  session,           (* (for the properties) starts when it was called        *)
  inputs,            (* pictures given to onInputData(); a picture is its no. *)
  target,            (* its `surface`                                         *)
  encodingFrameNum, currentFrameNum, currentFrameType,
  currentCurrPic,    (* the picture being coded, as a reference is            *)
  numShortTerm,
  referenceFrames,   (* the first numShortTerm are in use; newest first       *)
  picture,           (* what the driver was given: picture and slice          *)
  sent,              (* the coded pictures that left through the port         *)
  crashed            (* a terminated display was used                         *)

driver   == << open, starts, srcSurface >>
owner    == << running, opening, driver >>
call     == << session, inputs, target >>
counters == << encodingFrameNum, currentFrameNum, numShortTerm, referenceFrames >>
current  == << currentFrameType, currentCurrPic, picture >>
vars == << owner, content, step, call, counters, current, sent, crashed >>

Surfaces == 0 .. SurfaceNum - 1

(* A VAPictureH264.  Which picture is meant and in which session it was    *)
(* coded is not in it: `id` is all that the driver knows.                  *)
Pic(id, input, began) == [id |-> id, input |-> input, session |-> began]
NoPic == Pic(NoSurface, 0, 0)

NoPicture == [given |-> FALSE, context |-> 0, refs |-> << >>, from |-> NoPic, num |-> 0]

(* Blank surfaces under the ids of `ids`. *)
Blank(ids) == [id \in Range(ids) |-> 0]

(* The constructor; nothing writes srcSurface before setupEncode(). *)
Init ==
  /\ running = FALSE /\ opening = FALSE /\ open = FALSE /\ starts = 0
  /\ srcSurface \in [Surfaces -> SurfaceIds]
  /\ content = << >>
  /\ step = "idle" /\ session = 0 /\ inputs = 0 /\ target = NoSurface
  /\ encodingFrameNum = 0 /\ currentFrameNum = 0 /\ currentFrameType = "IDR"
  /\ currentCurrPic = NoPic
  /\ numShortTerm = 0
  /\ referenceFrames = [i \in 1 .. SurfaceNum |-> NoPic]
  /\ picture = NoPicture
  /\ sent = << >>
  /\ crashed = FALSE

-----------------------------------------------------------------------------
(* The owner of the pipe, on another thread than onInputData().            *)

Start ==
  /\ ~running /\ starts < MaxStarts /\ ~crashed
  /\ running' = TRUE /\ opening' = TRUE
  /\ UNCHANGED << driver, content, step, call, counters, current, sent, crashed >>

(* initVa() and setupEncode(); when they fail SnpPipe goes on regardless,  *)
(* and every call of the driver will.  New surfaces get new ids or those   *)
(* of surfaces that were destroyed, in any order.                          *)
InitVaH264Encoder ==
  /\ opening /\ ~crashed
  /\ opening' = FALSE /\ starts' = starts + 1
  /\ \/ /\ open' = TRUE
        /\ srcSurface' \in Injection(Surfaces, SurfaceIds)
        /\ content' = Blank(srcSurface')
     \/ UNCHANGED << open, srcSurface, content >>
  /\ UNCHANGED << running, step, call, counters, current, sent, crashed >>

(* releaseEncode() and releaseVa(), whether onInputData() is at work or not *)
Stop ==
  /\ running /\ ~opening /\ ~crashed
  /\ running' = FALSE /\ open' = FALSE
  /\ content' = << >>
  /\ UNCHANGED << opening, starts, srcSurface, step, call, counters, current, sent, crashed >>

-----------------------------------------------------------------------------
(* encodeFrameVaH264().                                                    *)

(* Mutant: the surface changes with every picture, coded or not. *)
surfaceOfInput == inputs % SurfaceNum

surfaceIndex == encodingFrameNum % SurfaceNum

(* A call of the driver can succeed. *)
Works == open /\ ~crashed

(* encodeFrameVaH264() returns; the driver forgets what it was given.       *)
Return ==
  /\ step' = "idle" /\ target' = NoSurface /\ session' = 0
  /\ picture' = NoPicture

(* goto error: nothing of the bookkeeping at the end is done.              *)
Fails ==
  /\ step \notin {"idle", "done"} /\ ~crashed
  /\ Return
  /\ UNCHANGED << owner, content, inputs, counters, currentFrameType, currentCurrPic,
                  sent, crashed >>

(* vaTerminate() has freed what the driver's functions look at. *)
Crashes ==
  /\ step \notin {"idle", "done"} /\ ~crashed
  /\ ~open \/ session # starts
  /\ crashed' = TRUE
  /\ UNCHANGED << owner, content, step, call, counters, current, sent >>

(* isRunning(), and the surface in turn.  SnpPipe::start() has the source  *)
(* start after the encoder, so that nothing comes during the first opening;*)
(* a capture thread of before a restart may come during a later one.       *)
OnInputData ==
  /\ step = "idle" /\ running /\ starts > 0 /\ ~crashed /\ inputs < MaxInputs
  /\ inputs' = inputs + 1 /\ session' = starts
  /\ target' = srcSurface[surfaceIndex]
  /\ step' = "upload"
  /\ UNCHANGED << owner, content, counters, current, sent, crashed >>

(* vaDeriveImage(), and rgba2Nv12() into the mapped surface *)
Upload ==
  /\ step = "upload" /\ Works /\ target \in DOMAIN content
  /\ content' = [content EXCEPT ![target] = inputs]
  /\ step' = "begin"
  /\ UNCHANGED << owner, call, counters, current, sent, crashed >>

FrameType ==
  IF encodingFrameNum % IdrPeriod = 0 THEN "IDR"
  ELSE IF encodingFrameNum % IPeriod = 0 THEN "I" ELSE "P"

(* Mutant: an IDR picture does not empty the list. *)
KeptAlways(t) == numShortTerm

(* The references that are left when the picture is of type t. *)
Kept(t) == IF t = "IDR" THEN 0 ELSE numShortTerm

(* Mutant: the reference is the oldest one of the list. *)
SliceFromOldest(given) ==
  [given |-> given, context |-> starts,
   refs  |-> SubSeq(referenceFrames, 1, Kept(FrameType)),
   from  |-> IF FrameType = "IDR" THEN NoPic
             ELSE referenceFrames[IF numShortTerm = 0 THEN 1 ELSE numShortTerm],
   num   |-> currentFrameNum]

(* renderPicture() and renderSlice(): all references are listed, and the   *)
(* slice has the first.  The results of the render functions are ignored,  *)
(* so the driver may have been given less.                                 *)
RenderedPicture(given) ==
  [given |-> given, context |-> starts,
   refs  |-> SubSeq(referenceFrames, 1, Kept(FrameType)),
   from  |-> IF FrameType = "IDR" THEN NoPic ELSE referenceFrames[1],
   num   |-> currentFrameNum]

(* vaBeginPicture(), the type of the picture, and the parameters. *)
Render ==
  /\ step = "begin" /\ Works /\ target \in DOMAIN content
  /\ currentFrameType' = FrameType
  /\ currentCurrPic' = Pic(srcSurface[surfaceIndex], inputs, session)
  /\ numShortTerm' = Kept(FrameType)
  /\ \E given \in BOOLEAN : picture' = RenderedPicture(given)
  /\ step' = "end"
  /\ UNCHANGED << owner, content, call, encodingFrameNum, currentFrameNum,
                  referenceFrames, sent, crashed >>

(* What the driver finds in a surface; 0 when it is blank or is none. *)
Holds(id) == IF id \in DOMAIN content THEN content[id] ELSE 0

(* vaEndPicture(), vaSyncSurface() and vaMapBuffer(), and the coded data   *)
(* through the port.  Without its parameters no picture is coded, nor in a *)
(* context that is not the one of vaBeginPicture().                        *)
EndPicture ==
  /\ step = "end" /\ Works /\ picture.given /\ picture.context = starts
  /\ sent' = Append(sent, [type |-> currentFrameType, num |-> picture.num,
                           input |-> currentCurrPic.input, ref |-> Holds(picture.from.id),
                           began |-> session, session |-> starts])
  /\ step' = "unmap"
  /\ UNCHANGED << owner, content, call, counters, current, crashed >>

(* updateReferenceFrames(): the references move up, the last one drops. *)
Shifted(refs) ==
  [i \in DOMAIN refs |->
     IF i = 1 THEN currentCurrPic
     ELSE IF i <= numShortTerm + 1 /\ i <= NumRefFrames THEN refs[i - 1] ELSE refs[i]]

(* Mutant: the wrap-around comes one too late. *)
NextFrameNumLate == IF currentFrameNum = MaxFrameNum THEN 0 ELSE currentFrameNum + 1

NextFrameNum ==
  IF currentFrameNum + 1 = MaxFrameNum THEN 0 ELSE currentFrameNum + 1

(* vaUnmapBuffer() succeeds. *)
Unmap ==
  /\ step = "unmap" /\ Works
  /\ step' = "done"
  /\ UNCHANGED << owner, content, call, counters, current, sent, crashed >>

(* updateReferenceFrames(), encodingFrameNum++ *)
UpdateReferenceFrames ==
  /\ step = "done" /\ ~crashed
  /\ referenceFrames' = Shifted(referenceFrames)
  /\ numShortTerm' = IF numShortTerm < NumRefFrames THEN numShortTerm + 1 ELSE numShortTerm
  /\ currentFrameNum' = NextFrameNum
  /\ encodingFrameNum' = encodingFrameNum + 1
  /\ Return
  /\ UNCHANGED << owner, content, inputs, currentFrameType, currentCurrPic, sent, crashed >>

Encode ==
  \/ OnInputData \/ Upload \/ Render \/ EndPicture \/ Unmap \/ UpdateReferenceFrames
  \/ Fails \/ Crashes

Next == Start \/ InitVaH264Encoder \/ Stop \/ Encode

Spec == Init /\ [][Next]_vars

-----------------------------------------------------------------------------
(* Properties.                                                             *)

Sessions == 0 .. MaxStarts
Ids == SurfaceIds \cup {NoSurface}
Pics == [id : Ids, input : 0 .. MaxInputs, session : Sessions]

FrameTypes == {"IDR", "I", "P"}

(* A coded picture of the stream.  `ref` is the picture that was in the    *)
(* surface it was predicted from; the call that coded it began in session  *)
(* `began` and the driver coded it in session `session`.                   *)
Coded == [type : FrameTypes, num : 0 .. MaxFrameNum - 1, input : 0 .. MaxInputs,
          ref : 0 .. MaxInputs, began : Sessions, session : Sessions]

(* Every variable has its type, and the counters stay below their limits.  *)
TypeOK ==
  /\ running \in BOOLEAN /\ opening \in BOOLEAN /\ crashed \in BOOLEAN
  /\ starts \in Sessions /\ open \in BOOLEAN
  /\ opening => starts < MaxStarts
  /\ srcSurface \in [Surfaces -> SurfaceIds]
  /\ \E ids \in SUBSET SurfaceIds : content \in [ids -> 0 .. MaxInputs]
  /\ step \in {"idle", "upload", "begin", "end", "unmap", "done"}
  /\ session \in Sessions /\ inputs \in 0 .. MaxInputs /\ target \in Ids
  /\ encodingFrameNum \in Nat /\ currentFrameNum \in 0 .. MaxFrameNum - 1
  /\ currentFrameType \in FrameTypes /\ currentCurrPic \in Pics
  /\ numShortTerm \in 0 .. NumRefFrames
  /\ referenceFrames \in [1 .. SurfaceNum -> Pics]
  /\ picture \in [given : BOOLEAN, context : Sessions, refs : Seq(Pics), from : Pics,
                  num : 0 .. MaxFrameNum - 1]
  /\ sent \in Seq(Coded)

(* A P picture is predicted from a surface that holds the picture which    *)
(* left before it, the one a decoder has decoded last, whatever calls of   *)
(* the driver failed in between; but for a picture that takes the number   *)
(* of one that had left already when vaUnmapBuffer() failed, and for the   *)
(* first one after a restart, whose reference is an id from before: it has *)
(* none, or a blank surface, or itself (encodeFrameVaH264, renderSlice,    *)
(* updateReferenceFrames).                                                 *)
PredictsFromPrevious ==
  \A i \in 2 .. Len(sent) :
    /\ sent[i].type = "P"
    /\ sent[i].num # sent[i - 1].num
    /\ sent[i - 1].began = sent[i].session
    => sent[i].ref = sent[i - 1].input

(* When a picture is coded, the surface of each reference it lists exists, *)
(* still holds the picture that was coded in it, and is not the one being  *)
(* coded: surfaces are reused in turn, and one whose picture failed at     *)
(* once.  Two references are left out: one coded before a restart, whose   *)
(* surface is gone, and the last of a list of SurfaceNum, whose surface is *)
(* the one in turn (encodeFrameVaH264, updateReferenceFrames).             *)
ReferencesAreIntact ==
  step = "end" /\ open =>
    \A i \in DOMAIN picture.refs :
      picture.refs[i].session = starts /\ i < SurfaceNum =>
        /\ Holds(picture.refs[i].id) = picture.refs[i].input
        /\ picture.refs[i].id \notin {target, currentCurrPic.id}

(* A picture lists its references newest first, and none of before the     *)
(* last IDR picture that was sent (renderPicture, updateReferenceFrames).  *)
ListsSinceIdr ==
  step = "end" =>
    /\ \A i, j \in DOMAIN picture.refs : i < j => picture.refs[i].input > picture.refs[j].input
    /\ \A i \in DOMAIN picture.refs, k \in DOMAIN sent :
         sent[k].type = "IDR" => picture.refs[i].input >= sent[k].input

(* Modulo the announced range, the frame numbers of the stream go up one   *)
(* by one, also where the encoder's counter wraps at twice that range, but *)
(* for a picture that takes the number of the one before it.               *)
NumbersFollow ==
  \A i \in 2 .. Len(sent) :
    \/ sent[i].num = sent[i - 1].num
    \/ sent[i].num % Announced = (sent[i - 1].num + 1) % Announced

=============================================================================
