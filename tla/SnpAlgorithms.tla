---------------------------- MODULE SnpAlgorithms ----------------------------
(***************************************************************************)
(* The algorithms of SnpVaBitstream, SnpVideoUtil, SnpDummyBoxes and       *)
(* SnpX11Input at work: a header is written one syntax element after the   *)
(* other, a picture is converted to the planes of a codec, a box moves     *)
(* from frame to frame, button masks and key codes become events, the      *)
(* cursor changes. Each is compared with what it stands for: a reader of   *)
(* the bits, the picture seen again, the part of the box inside the frame, *)
(* the buttons and keys the client holds, the cursor that is shown.        *)
(***************************************************************************)
EXTENDS SnpVaBitstream, SnpVideoUtil, SnpDummyBoxes, SnpX11Input

CONSTANTS
  Headers,   (* [task |-> "header", kind, header, junk]: see Header        *)
  Pictures,  (* [task |-> "picture", width, height, picture]               *)
  Boxes,     (* [task |-> "box", frame, box, speed]                        *)
  Pointers,  (* [task |-> "pointer", masks]: masks a client may send       *)
  Keyboards, (* [task |-> "keyboard", keys]: the key of every key code     *)
  Cursors,   (* [task |-> "cursor", cursors]: serials of cursor shapes     *)
  Padding,   (* bound: what codecs add to the width of a row of a plane    *)
  Tolerance, (* bound: how far a colour may come back off                  *)
  MaxEvents  (* bound: cursor events that wait                             *)

(* Positions do not come near the ends of int; the code's boxes are 200    *)
(* pixels wide.                                                            *)
ASSUME JobsAssumption ==
  /\ \A j \in Headers : j.task = "header"
  /\ \A j \in Pictures : j.task = "picture"
  /\ \A j \in Pointers : j.task = "pointer"
  /\ \A j \in Keyboards : j.task = "keyboard"
  /\ \A j \in Cursors : j.task = "cursor"
  /\ \A j \in Boxes :
       /\ j.task = "box"
       /\ j.frame \in Nat /\ j.box \in Nat /\ j.speed \in Nat
       /\ j.box > 1 /\ Half(j.box) <= j.frame
       /\ 0 < j.speed /\ j.speed < j.box /\ j.speed < j.frame
       /\ 2 * (j.frame + 2 * j.box) < IntValues

(* A syntax element has at most the 32 bits of a word, and what is put as  *)
(* ue(v) is not negative.                                                  *)
Elements ==
  {e \in [type : {"u", "ue", "se", "align"}, value : Int, size : 0 .. 32] :
     e.type = "ue" => e.value >= 0}

ASSUME HeadersAssumption ==
  \A j \in Headers : Header(j.kind, j.header) \in Seq(Elements)

(* The values that fit: in the bits of the element for u(n), in an int for *)
(* the number that bitstream_put_ue() counts the bits of.                  *)
MaxInt == 2^30 + (2^30 - 1)

Fits(e) ==
  /\ e.type = "u" => e.value \in 0 .. MaxInt /\ (e.size < 31 => e.value < 2^e.size)
  /\ e.type = "ue" => e.value \in 0 .. MaxInt - 1
  /\ e.type = "se" => e.value \in -(2^30 - 1) .. 2^30 - 1
  /\ e.type = "align" => e.value \in 0 .. 1

(* Only the start code takes all 32 bits of a word.                        *)
ASSUME ElementsAssumption ==
  \A j \in Headers :
    /\ j.kind \in {"sps", "pps", "slice"} /\ j.junk \in 0 .. 1
    /\ j.kind = "sps" => j.header.crop \in Seq(Nat)
    /\ LET elements == Header(j.kind, j.header)
       IN \A i \in DOMAIN elements :
            Fits(elements[i]) /\ (elements[i].size = 32 => i = 1)

(* The four pixels that share chroma bytes: the corner of their block.     *)
Corner(i, width) == 2 * (i \div (2 * width)) * width + 2 * ((i % width) \div 2)

(* 4:2:0 has even sizes. A picture has blocks of one colour: of another    *)
(* one chroma takes the corner's.                                          *)
ASSUME PicturesAssumption ==
  /\ Padding \subseteq Nat
  /\ Tolerance \in Nat /\ Tolerance >= 4
  /\ \A j \in Pictures :
       /\ j.width \in Nat /\ j.width > 0 /\ j.width % 2 = 0
       /\ j.height \in Nat /\ j.height > 0 /\ j.height % 2 = 0
       /\ j.picture \in [0 .. j.width * j.height - 1 -> Colours]
       /\ \A i \in 0 .. j.width * j.height - 1 :
            j.picture[i] = j.picture[Corner(i, j.width)]

VARIABLES
  job,   (* what is done, with its inputs *)
  done,  (* elements or planes written    *)
  out    (* the result so far             *)

vars == << job, done, out >>

HeaderOf == Header(job.kind, job.header)

Init ==
  /\ done = 0
  /\ \/ job \in Headers /\ out = Start(job.junk)
     \/ job \in Pictures /\ out = << >>
     \/ /\ job \in Boxes
        /\ \E random \in 0 .. job.frame : out = FirstBox(job.frame, job.box, random)
     \/ job \in Pointers /\ out = [mouse |-> NewMouse, held |-> {}, kept |-> {}]
     \/ job \in Keyboards /\ out = [keyboard |-> NewKeyboard, held |-> {}]
     \/ job \in Cursors /\ \E shown \in job.cursors : out = NewCursor(shown)

WriteElement ==
  /\ job.task = "header" /\ done < Len(HeaderOf)
  /\ out' = Put(out, HeaderOf[done + 1])
  /\ done' = done + 1
  /\ UNCHANGED job

EndHeader ==
  /\ job.task = "header" /\ done = Len(HeaderOf)
  /\ out' = End(out)
  /\ done' = done + 1
  /\ UNCHANGED job

(* SnpEncoderOpenH264 converts to three planes, SnpEncoderVaH264 to two    *)
(* with the strides of the surface.                                        *)
Convert ==
  /\ job.task = "picture" /\ done = 0
  /\ done' = 1
  /\ \/ out' = [planes |-> 3, padding |-> 0,
                memory |-> Rgba2Yuv(job.picture, job.width, job.height)]
     \/ \E padding \in Padding :
          out' = [planes |-> 2, padding |-> padding,
                  memory |-> Rgba2Nv12(job.picture, job.width, job.height,
                                       job.width + padding, job.width + padding)]
  /\ UNCHANGED job

MoveBox ==
  /\ job.task = "box"
  /\ out' = Moved(job.frame, job.box, job.speed, out)
  /\ UNCHANGED << job, done >>

(* held: the buttons of the last mask since the device was opened; kept:   *)
(* those the component remembers from before.                              *)
StartPointer ==
  /\ job.task = "pointer" /\ done = 0
  /\ \E opened \in BOOLEAN :
       out' = [mouse |-> StartMouse(out.mouse, opened), held |-> {},
               kept |-> out.mouse.previousButtonMask]
  /\ done' = 1
  /\ UNCHANGED job

(* Messages arrive whether or not the component runs. *)
MovePointer ==
  /\ job.task = "pointer"
  /\ \E mask \in job.masks :
       out' = [mouse |-> SetButtons(out.mouse, mask), held |-> mask,
               kept |-> out.kept \cap mask]
  /\ UNCHANGED << job, done >>

StopPointer ==
  /\ job.task = "pointer" /\ done = 1
  /\ out' = [mouse |-> StopMouse(out.mouse), held |-> {}, kept |-> {}]
  /\ done' = 0
  /\ UNCHANGED job

StartKeys ==
  /\ job.task = "keyboard" /\ done = 0
  /\ \E opened \in BOOLEAN :
       out' = [keyboard |-> StartKeyboard(opened), held |-> {}]
  /\ done' = 1
  /\ UNCHANGED job

(* held: the codes of the keys the client holds since the device was       *)
(* opened.                                                                 *)
TypeKey ==
  /\ job.task = "keyboard"
  /\ \E code \in DOMAIN job.keys, down \in BOOLEAN :
       out' = [keyboard |-> SetKey(out.keyboard, job.keys[code], down),
               held |-> IF down THEN out.held \cup {code} ELSE out.held \ {code}]
  /\ UNCHANGED << job, done >>

StopKeys ==
  /\ job.task = "keyboard" /\ done = 1
  /\ out' = [keyboard |-> NewKeyboard, held |-> {}]
  /\ done' = 0
  /\ UNCHANGED job

ChangeCursor ==
  /\ job.task = "cursor" /\ out.events < MaxEvents
  /\ \E cursor \in job.cursors \ {out.shown} : out' = ShowCursor(out, cursor)
  /\ done' = 1
  /\ UNCHANGED job

SendCursor ==
  /\ job.task = "cursor" /\ out.events > 0
  /\ out' = CursorNotify(out)
  /\ UNCHANGED << job, done >>

Next ==
  \/ WriteElement \/ EndHeader
  \/ Convert
  \/ MoveBox
  \/ StartPointer \/ MovePointer \/ StopPointer
  \/ StartKeys \/ TypeKey \/ StopKeys
  \/ ChangeCursor \/ SendCursor

Spec == Init /\ [][Next]_vars

-----------------------------------------------------------------------------
(* Properties.                                                             *)

(* However the elements fall on the words, the bytes in memory read back   *)
(* as the elements that were put, with their values and nothing between,   *)
(* by a reader that knows only what u(n), ue(v) and se(v) mean; sequence   *)
(* and picture headers end on a byte (VaBitstream::bitstream_put_ui,       *)
(* ..._ue, ..._se, ..._byte_aligning and ..._end).                         *)
HeaderReadsBack ==
  job.task = "header" =>
    LET elements == HeaderOf
        ended == done > Len(elements)
    IN /\ ReadsAs(Stored(out, ended), SubSeq(elements, 1, Smaller(done, Len(elements))))
       /\ (ended /\ job.kind # "slice") => out.bit_offset % 8 = 0

(* The planes as a codec that loses nothing hands them to the decoder: row *)
(* by row, with a padding of its own.                                      *)
Plane(from, width, height, stride, padding) ==
  [a \in 0 .. height * (width + padding) - 1 |->
     IF a % (width + padding) >= width THEN 0
     ELSE out.memory[from + (a \div (width + padding)) * stride + (a % (width + padding))]]

Decoded(padding) ==
  LET w == job.width
      h == job.height
      stride == w + out.padding
  IN IF out.planes = 3
       THEN Yuv420ToRgba(<< Plane(0, w, h, w, padding),
                            Plane(w * h, w \div 2, h \div 2, w \div 2, padding),
                            Plane(w * h + (w * h) \div 4, w \div 2, h \div 2, w \div 2, padding) >>,
                         w, h, w + padding, w \div 2 + padding)
       ELSE Nv12ToRgba(Plane(0, w, h, stride, padding),
                       Plane(h * stride, w, h \div 2, stride, padding),
                       w, h, w + padding, w + padding)

Close(p, q) ==
  \A c \in {"r", "g", "b"} : p[c] - q[c] \in -Tolerance .. Tolerance

(* A picture in which the four pixels that share chroma are of one colour  *)
(* comes back the same but for rounding, whatever the strides, and every   *)
(* byte of the planes is written, and none behind them: the size of        *)
(* yuvBuffer is enough (VideoUtil, for the even sizes that 4:2:0 has).     *)
PictureComesBack ==
  (job.task = "picture" /\ done = 1) =>
    /\ Cardinality(DOMAIN out.memory) = (job.width * job.height * 3) \div 2
    /\ \A a \in DOMAIN out.memory : out.memory[a] \in 0 .. 255
    /\ out.padding = 0 =>
         DOMAIN out.memory = 0 .. (job.width * job.height * 3) \div 2 - 1
    /\ \A padding \in Padding :
         LET decoded == Decoded(padding)
         IN \A i \in DOMAIN job.picture : Close(decoded[i], job.picture[i])

(* In every frame exactly the part of a box that is inside the frame is    *)
(* painted, and some part of it is: the mix of int and uint32_t never      *)
(* paints a stripe or loses a box (SnpSourceDummy::renderBoxes), if the    *)
(* frame is at least half a box wide and the speed less than both.         *)
BoxStaysInFrame ==
  job.task = "box" =>
    LET painted == Painted(job.frame, job.box, out)
    IN /\ painted # {}
       /\ painted = {p \in 0 .. job.frame - 1 :
                       out.x - Half(job.box) <= p /\ p < out.x + Half(job.box)}

(* The device of an open mouse holds the buttons the client holds, and no  *)
(* button sticks: only one that the component remembers from before its    *)
(* last start, and that was never let go since, is missing                 *)
(* (SnpSinkX11Mouse::onInputData; start() does not reset                   *)
(* previousButtonMask). A key that is pressed belongs to a code that is    *)
(* held, and it is only missing if another code of the same key was let go *)
(* (SnpSinkX11Keyboard::onInputData).                                      *)
NothingSticks ==
  /\ (job.task = "pointer" /\ out.mouse.open) =>
       out.mouse.pressed = (out.held \cap Buttons) \ out.kept
  /\ (job.task = "keyboard" /\ out.keyboard.open) =>
       /\ \A key \in out.keyboard.pressed : \E code \in out.held : job.keys[code] = key
       /\ \A code \in out.held :
            (\A other \in DOMAIN job.keys : job.keys[other] = job.keys[code] => other = code)
              => job.keys[code] \in out.keyboard.pressed

(* When no event waits, the image that was sent last is that of the cursor *)
(* shown, once it has changed at all: a burst of changes, back to an       *)
(* earlier shape too, never leaves the client with an old one              *)
(* (SnpSourceX11Cursor::runX11Loop).                                       *)
CursorIsCurrent ==
  (job.task = "cursor" /\ done = 1 /\ out.events = 0) => out.sent = out.shown

=============================================================================
