------------------------- MODULE SnpAlgorithmsProofs -------------------------
(***************************************************************************)
(* The boxes of SnpSourceDummy stay in the frame, for every size of frame  *)
(* and box, every speed below both and every width of int that holds the   *)
(* positions; buttons and keys follow the client, for every sequence of    *)
(* masks, codes, starts and stops; the cursor that was sent is the one     *)
(* shown. Every colour comes back from its bytes but for a few steps. The  *)
(* bit writer stays in its memory, and every header reads back; every      *)
(* picture comes back from its planes, whatever its size and strides.      *)
(***************************************************************************)
EXTENDS SnpAlgorithms, FiniteSetTheorems, SequenceTheorems, WellFoundedInduction, TLAPS

(* Where the centre of a box can be: less than one step beyond the places  *)
(* where it turns.                                                         *)
Roams(j, b) ==
  /\ b.x \in Int /\ b.dx \in Int
  /\ Half(j.box) - j.speed < b.x
  /\ b.x < Larger(j.frame - Half(j.box), Half(j.box) + 1) + j.speed
  /\ b.dx \in {1, j.speed, -j.speed}

(* While its device is open, a mouse remembers the buttons the client      *)
(* holds and those from before.                                            *)
Follows(o) ==
  o.mouse.open =>
    /\ o.mouse.previousButtonMask = o.held \cup o.kept
    /\ o.mouse.pressed = (o.held \cap Buttons) \ o.kept

(* Keys: held codes have keys, and what NothingSticks says. *)
KeysFollow(j, o) ==
  /\ o.held \subseteq DOMAIN j.keys
  /\ o.keyboard.open =>
       /\ \A key \in o.keyboard.pressed : \E code \in o.held : j.keys[code] = key
       /\ \A code \in o.held :
            (\A other \in DOMAIN j.keys : j.keys[other] = j.keys[code] => other = code)
              => j.keys[code] \in o.keyboard.pressed

(* A cursor: what was looked at last was sent, and it is shown unless an   *)
(* event waits.                                                            *)
CursorFollows(d, o) ==
  /\ o = [shown |-> o.shown, events |-> o.events,
          lastCursorSerial |-> o.lastCursorSerial, sent |-> o.sent]
  /\ o.events \in Nat /\ o.sent = o.lastCursorSerial
  /\ (d = 1 /\ o.events = 0) => o.sent = o.shown

IInv ==
  /\ job \in Headers \cup Pictures \cup Boxes \cup Pointers
             \cup Keyboards \cup Cursors
  /\ job.task = "box" => job \in Boxes /\ Roams(job, out)
  /\ job.task = "pointer" => Follows(out)
  /\ job.task = "keyboard" => KeysFollow(job, out)
  /\ job.task = "cursor" => CursorFollows(done, out) /\ done \in {0, 1}

(* Half a box, as the code divides. *)
LEMMA HalfBox ==
  ASSUME NEW n \in Nat
  PROVE  Half(n) \in Nat /\ 2 * Half(n) <= n /\ n <= 2 * Half(n) + 1
  BY DEF Half

(* An int that is not negative keeps its value as uint32_t. *)
LEMMA UnsignedSame ==
  ASSUME NEW n \in Nat, n < IntValues
  PROVE  Unsigned(n) = n
  BY IntAssumption DEF Unsigned

(* What is known of the sizes of a job. *)
LEMMA Sizes ==
  ASSUME NEW j \in Boxes
  PROVE  /\ j.task = "box"
         /\ j.frame \in Nat /\ j.box \in Nat /\ j.speed \in Nat /\ Half(j.box) \in Nat
         /\ 2 * Half(j.box) <= j.box /\ j.box <= 2 * Half(j.box) + 1 /\ j.box > 1
         /\ Half(j.box) <= j.frame /\ 0 < j.speed /\ j.speed < j.box /\ j.speed < j.frame
         /\ 2 * (j.frame + 2 * j.box) < IntValues
         /\ Unsigned(j.frame - Half(j.box)) = j.frame - Half(j.box)
<1>1. /\ j.task = "box"
      /\ j.frame \in Nat /\ j.box \in Nat /\ j.speed \in Nat
      /\ j.box > 1 /\ Half(j.box) <= j.frame
      /\ 0 < j.speed /\ j.speed < j.box /\ j.speed < j.frame
      /\ 2 * (j.frame + 2 * j.box) < IntValues
  BY JobsAssumption
<1>2. Half(j.box) \in Nat /\ 2 * Half(j.box) <= j.box /\ j.box <= 2 * Half(j.box) + 1
  BY <1>1, HalfBox
<1>3. j.frame - Half(j.box) \in Nat /\ j.frame - Half(j.box) < IntValues
  BY <1>1, <1>2, IntAssumption
<1> QED
  BY <1>1, <1>2, <1>3, UnsignedSame

(* A new box is inside. *)
LEMMA FirstRoams ==
  ASSUME NEW j \in Boxes, NEW random \in 0 .. j.frame
  PROVE  Roams(j, FirstBox(j.frame, j.box, random))
  BY Sizes DEF Roams, FirstBox, Larger, Smaller

(* A box that roams does so after the next frame. *)
LEMMA MovedRoams ==
  ASSUME NEW j \in Boxes, NEW b, Roams(j, b)
  PROVE  Roams(j, Moved(j.frame, j.box, j.speed, b))
<1> DEFINE m == Moved(j.frame, j.box, j.speed, b)
           h == Half(j.box)
<1>1. b.x > h => Unsigned(b.x) = b.x
  <2>1. b.x > h => b.x \in Nat /\ b.x < IntValues
    BY Sizes, IntAssumption DEF Roams, Larger
  <2> QED
    BY <2>1, UnsignedSame
<1>2. CASE b.x <= h
  <2>1. m = [x |-> b.x + j.speed, dx |-> j.speed]
    BY <1>2 DEF Moved, Turned
  <2> QED
    BY <2>1, <1>2, Sizes DEF Roams, Larger
<1>3. CASE b.x > h /\ b.x >= j.frame - h
  <2>1. m = [x |-> b.x - j.speed, dx |-> -j.speed]
    BY <1>1, <1>3, Sizes DEF Moved, Turned, Roams
  <2> QED
    BY <2>1, <1>3, Sizes DEF Roams, Larger
<1>4. CASE b.x > h /\ b.x < j.frame - h
  <2>1. m = [x |-> b.x + b.dx, dx |-> b.dx]
    BY <1>1, <1>4, Sizes DEF Moved, Turned, Roams
  <2> QED
    BY <2>1, <1>4, Sizes DEF Roams, Larger
<1> QED
  BY <1>2, <1>3, <1>4, Sizes DEF Roams

(* A mouse is new, started, given a mask, and stopped. *)
LEMMA NewFollows == Follows([mouse |-> NewMouse, held |-> {}, kept |-> {}])
  BY DEF Follows, NewMouse

LEMMA StartFollows ==
  ASSUME NEW o, NEW opened \in BOOLEAN
  PROVE  Follows([mouse |-> StartMouse(o.mouse, opened), held |-> {},
                  kept |-> o.mouse.previousButtonMask])
  BY DEF Follows, StartMouse, NewMouse

LEMMA MoveFollows ==
  ASSUME NEW o, Follows(o), NEW mask
  PROVE  Follows([mouse |-> SetButtons(o.mouse, mask), held |-> mask,
                  kept |-> o.kept \cap mask])
<1> DEFINE m == SetButtons(o.mouse, mask)
<1>1. CASE o.mouse.open
  <2>1. m.previousButtonMask = mask \cup (o.kept \cap mask)
    BY DEF SetButtons
  <2>2. m.pressed = (o.mouse.pressed \cup (Changed(o.mouse, mask) \cap mask \cap Buttons))
                      \ (Changed(o.mouse, mask) \ mask)
    BY <1>1 DEF SetButtons
  <2>3. m.pressed = (mask \cap Buttons) \ (o.kept \cap mask)
    BY <1>1, <2>2 DEF Follows, Changed
  <2> QED
    BY <2>1, <2>3 DEF Follows
<1>2. CASE ~o.mouse.open
  <2>1. m.open = o.mouse.open
    BY DEF SetButtons
  <2> QED
    BY <1>2, <2>1 DEF Follows
<1> QED
  BY <1>1, <1>2

LEMMA StopFollows ==
  ASSUME NEW o
  PROVE  Follows([mouse |-> StopMouse(o.mouse), held |-> {}, kept |-> {}])
  BY DEF Follows, StopMouse, NewMouse

(* A keyboard is opened, and given a code. *)
LEMMA OpenFollows ==
  ASSUME NEW j, NEW opened \in BOOLEAN
  PROVE  KeysFollow(j, [keyboard |-> StartKeyboard(opened), held |-> {}])
  BY DEF KeysFollow, StartKeyboard, NewKeyboard

LEMMA NewKeysFollow ==
  ASSUME NEW j
  PROVE  KeysFollow(j, [keyboard |-> NewKeyboard, held |-> {}])
  BY DEF KeysFollow, NewKeyboard

LEMMA TypeFollows ==
  ASSUME NEW j, NEW o, KeysFollow(j, o), NEW code \in DOMAIN j.keys, NEW down \in BOOLEAN
  PROVE  KeysFollow(j, [keyboard |-> SetKey(o.keyboard, j.keys[code], down),
                        held |-> IF down THEN o.held \cup {code} ELSE o.held \ {code}])
<1> DEFINE k == SetKey(o.keyboard, j.keys[code], down)
           h == IF down THEN o.held \cup {code} ELSE o.held \ {code}
<1>1. CASE ~o.keyboard.open
  <2>1. k = o.keyboard
    BY <1>1 DEF SetKey
  <2> QED
    BY <1>1, <2>1 DEF KeysFollow
<1>2. CASE o.keyboard.open
  <2>1. k.pressed = IF down THEN o.keyboard.pressed \cup {j.keys[code]}
                            ELSE o.keyboard.pressed \ {j.keys[code]}
    BY <1>2 DEF SetKey
  <2> QED
    BY <1>2, <2>1 DEF KeysFollow
<1> QED
  BY <1>1, <1>2

(* A cursor is new, changes, and is sent. *)
LEMMA NewCursorFollows ==
  ASSUME NEW shown
  PROVE  CursorFollows(0, NewCursor(shown))
  BY DEF CursorFollows, NewCursor

LEMMA ShowFollows ==
  ASSUME NEW d, NEW o, CursorFollows(d, o), NEW cursor
  PROVE  CursorFollows(1, ShowCursor(o, cursor))
<1>1. ShowCursor(o, cursor) = [shown |-> cursor, events |-> o.events + 1,
                               lastCursorSerial |-> o.lastCursorSerial, sent |-> o.sent]
  BY DEF CursorFollows, ShowCursor
<1> QED
  BY <1>1 DEF CursorFollows

LEMMA SendFollows ==
  ASSUME NEW d, NEW o, CursorFollows(d, o), o.events > 0
  PROVE  CursorFollows(d, CursorNotify(o))
<1>1. CursorNotify(o) = [shown |-> o.shown, events |-> o.events - 1,
                         lastCursorSerial |-> o.shown, sent |-> o.shown]
  BY DEF CursorFollows, CursorNotify
<1> QED
  BY <1>1 DEF CursorFollows

LEMMA InitIInv == Init => IInv
<1> SUFFICES ASSUME Init PROVE IInv
  OBVIOUS
<1>1. CASE job \in Headers \cup Pictures
  BY <1>1, JobsAssumption DEF IInv
<1>2. CASE /\ job \in Boxes
           /\ \E random \in 0 .. job.frame : out = FirstBox(job.frame, job.box, random)
  BY <1>2, FirstRoams, JobsAssumption DEF IInv
<1>3. CASE job \in Pointers /\ out = [mouse |-> NewMouse, held |-> {}, kept |-> {}]
  BY <1>3, JobsAssumption, NewFollows DEF IInv
<1>4. CASE job \in Keyboards /\ out = [keyboard |-> NewKeyboard, held |-> {}]
  BY <1>4, JobsAssumption, NewKeysFollow DEF IInv
<1>5. CASE job \in Cursors /\ \E shown \in job.cursors : out = NewCursor(shown)
  BY <1>5, JobsAssumption, NewCursorFollows DEF IInv, Init
<1> QED
  BY <1>1, <1>2, <1>3, <1>4, <1>5 DEF Init

LEMMA NextIInv == IInv /\ [Next]_vars => IInv'
<1> SUFFICES ASSUME IInv, [Next]_vars PROVE IInv'
  OBVIOUS
<1>1. CASE WriteElement
  BY <1>1 DEF IInv, WriteElement
<1>2. CASE EndHeader
  BY <1>2 DEF IInv, EndHeader
<1>3. CASE Convert
  BY <1>3 DEF IInv, Convert
<1>4. CASE MoveBox
  BY <1>4, MovedRoams DEF IInv, MoveBox
<1>5. CASE StartPointer
  BY <1>5, StartFollows DEF IInv, StartPointer
<1>6. CASE MovePointer
  BY <1>6, MoveFollows DEF IInv, MovePointer
<1>7. CASE StopPointer
  BY <1>7, StopFollows DEF IInv, StopPointer
<1>8. CASE StartKeys
  BY <1>8, OpenFollows DEF IInv, StartKeys
<1>9. CASE TypeKey
  BY <1>9, TypeFollows DEF IInv, TypeKey
<1>10. CASE StopKeys
  BY <1>10, NewKeysFollow DEF IInv, StopKeys
<1>11. CASE ChangeCursor
  BY <1>11, ShowFollows DEF IInv, ChangeCursor
<1>12. CASE SendCursor
  BY <1>12, SendFollows DEF IInv, SendCursor
<1>13. CASE UNCHANGED vars
  BY <1>13 DEF IInv, vars
<1> QED
  BY <1>1, <1>2, <1>3, <1>4, <1>5, <1>6, <1>7, <1>8, <1>9, <1>10, <1>11, <1>12, <1>13
     DEF Next

(* The painted pixels are the box's part of the frame, and there are some. *)
LEMMA RoamsPaints ==
  ASSUME NEW j \in Boxes, NEW b, Roams(j, b)
  PROVE  /\ Painted(j.frame, j.box, b) # {}
         /\ Painted(j.frame, j.box, b) =
              {p \in 0 .. j.frame - 1 : b.x - Half(j.box) <= p /\ p < b.x + Half(j.box)}
<1> DEFINE h == Half(j.box)
           from == Larger(0, b.x - h)
           to == Smaller(j.frame, b.x + h)
<1>1. b.x + h \in Nat /\ b.x + h < IntValues /\ b.x + h > 0 /\ b.x - h < j.frame
  BY Sizes, IntAssumption DEF Roams, Larger
<1>2. Painted(j.frame, j.box, b) = from .. to - 1
  BY <1>1, UnsignedSame DEF Painted
<1>3. from \in Nat /\ to \in Nat /\ from < to
  BY <1>1, Sizes DEF Roams, Larger, Smaller
<1>4. from \in from .. to - 1
  BY <1>3
<1>5. from .. to - 1 = {p \in 0 .. j.frame - 1 : b.x - h <= p /\ p < b.x + h}
  BY <1>1, Sizes DEF Roams, Larger, Smaller
<1> QED
  BY <1>2, <1>4, <1>5

(* In every frame exactly the part of a box that is inside the frame is    *)
(* painted, and there is one (SnpSourceDummy::initBoxes, renderBoxes).     *)
THEOREM BoxesStay == Spec => []BoxStaysInFrame
<1>1. IInv => BoxStaysInFrame
  BY RoamsPaints DEF IInv, BoxStaysInFrame
<1> QED
  BY InitIInv, NextIInv, <1>1, PTL DEF Spec

(* No button or key sticks, and none the client holds is missing but those *)
(* from before the last start, and keys of which another code was let go   *)
(* (SnpSinkX11Mouse and SnpSinkX11Keyboard, onInputData).                  *)
THEOREM InputsFollow == Spec => []NothingSticks
<1>1. IInv => NothingSticks
  BY DEF IInv, NothingSticks, Follows, KeysFollow
<1> QED
  BY InitIInv, NextIInv, <1>1, PTL DEF Spec

(* The client has the cursor that is shown once no event waits             *)
(* (SnpSourceX11Cursor::runX11Loop).                                       *)
THEOREM CursorIsSent == Spec => []CursorIsCurrent
<1>1. IInv => CursorIsCurrent
  BY DEF IInv, CursorIsCurrent, CursorFollows
<1> QED
  BY InitIInv, NextIInv, <1>1, PTL DEF Spec

-----------------------------------------------------------------------------
(* Colours: all 256 * 256 * 256 of them, of which the run tries a few.     *)

(* What >> 8 does to an int. *)
LEMMA Shifted ==
  ASSUME NEW n \in Int
  PROVE  n \div 256 \in Int /\ 256 * (n \div 256) <= n /\ n < 256 * (n \div 256) + 256
  OBVIOUS

LEMMA ByteSame ==
  ASSUME NEW n \in Int, 0 <= n, n <= 255
  PROVE  Byte(n) = n
  BY DEF Byte

(* Clamping leaves an int between two bounds that reach the bytes.         *)
LEMMA ClampSame ==
  ASSUME NEW n \in Int, NEW low \in Int, NEW high \in Int,
         low <= 255, 0 <= high, n \in low .. high
  PROVE  Clamp(n) \in 0 .. 255 /\ Clamp(n) \in low .. high
  BY DEF Clamp

(* The sums of rgba2Yuv, shifted. *)
LEMMA LumaShifted ==
  ASSUME NEW r \in 0 .. 255, NEW g \in 0 .. 255, NEW b \in 0 .. 255
  PROVE  LET n == 66 * r + 129 * g + 25 * b
         IN n \in Int /\ n \div 256 \in 0 .. 219
<1>1. 66 * r + 129 * g + 25 * b \in Int
  OBVIOUS
<1>2. ASSUME NEW n \in Int, n = 66 * r + 129 * g + 25 * b, NEW q \in Int,
             256 * q <= n, n < 256 * q + 256
      PROVE  q \in 0 .. 219
  BY <1>2
<1> QED
  BY <1>1, <1>2, Shifted

LEMMA CbShifted ==
  ASSUME NEW r \in 0 .. 255, NEW g \in 0 .. 255, NEW b \in 0 .. 255
  PROVE  LET n == -38 * r - 74 * g + 112 * b
         IN n \in Int /\ n \div 256 \in -112 .. 111
<1>1. -38 * r - 74 * g + 112 * b \in Int
  OBVIOUS
<1>2. ASSUME NEW n \in Int, n = -38 * r - 74 * g + 112 * b, NEW q \in Int,
             256 * q <= n, n < 256 * q + 256
      PROVE  q \in -112 .. 111
  BY <1>2
<1> QED
  BY <1>1, <1>2, Shifted

LEMMA CrShifted ==
  ASSUME NEW r \in 0 .. 255, NEW g \in 0 .. 255, NEW b \in 0 .. 255
  PROVE  LET n == 112 * r - 94 * g - 18 * b
         IN n \in Int /\ n \div 256 \in -112 .. 111
<1>1. 112 * r - 94 * g - 18 * b \in Int
  OBVIOUS
<1>2. ASSUME NEW n \in Int, n = 112 * r - 94 * g - 18 * b, NEW q \in Int,
             256 * q <= n, n < 256 * q + 256
      PROVE  q \in -112 .. 111
  BY <1>2
<1> QED
  BY <1>1, <1>2, Shifted

(* The bytes of a colour are the sums; the uint8_t takes nothing away.     *)
LEMMA BytesAreSums ==
  ASSUME NEW p \in Colours
  PROVE  /\ p.r \in 0 .. 255 /\ p.g \in 0 .. 255 /\ p.b \in 0 .. 255
         /\ Luma(p) - 16 = (66 * p.r + 129 * p.g + 25 * p.b) \div 256
         /\ Cb(p) - 128 = (-38 * p.r - 74 * p.g + 112 * p.b) \div 256
         /\ Cr(p) - 128 = (112 * p.r - 94 * p.g - 18 * p.b) \div 256
         /\ Luma(p) \in 16 .. 235 /\ Cb(p) \in 16 .. 239 /\ Cr(p) \in 16 .. 239
<1>1. p.r \in 0 .. 255 /\ p.g \in 0 .. 255 /\ p.b \in 0 .. 255
  BY DEF Colours
<1> DEFINE luma == (66 * p.r + 129 * p.g + 25 * p.b) \div 256
           cb == (-38 * p.r - 74 * p.g + 112 * p.b) \div 256
           cr == (112 * p.r - 94 * p.g - 18 * p.b) \div 256
<1>2. luma \in 0 .. 219
  BY <1>1, LumaShifted, Zenon
<1>3. cb \in -112 .. 111
  BY <1>1, CbShifted, Zenon
<1>4. cr \in -112 .. 111
  BY <1>1, CrShifted, Zenon
<1>5. Luma(p) = Byte(luma + 16) /\ Cb(p) = Byte(cb + 128) /\ Cr(p) = Byte(cr + 128)
  BY Zenon DEF Luma, Cb, Cr
<1> HIDE DEF luma, cb, cr
<1>6. Byte(luma + 16) = luma + 16 /\ Byte(cb + 128) = cb + 128 /\ Byte(cr + 128) = cr + 128
  BY <1>2, <1>3, <1>4, ByteSame
<1>7. luma + 16 \in 16 .. 235 /\ cb + 128 \in 16 .. 239 /\ cr + 128 \in 16 .. 239
  BY <1>2, <1>3, <1>4
<1>8. Luma(p) \in 16 .. 235 /\ Cb(p) \in 16 .. 239 /\ Cr(p) \in 16 .. 239
  BY <1>5, <1>6, <1>7
<1>9. Luma(p) - 16 = luma /\ Cb(p) - 128 = cb /\ Cr(p) - 128 = cr
  BY <1>2, <1>3, <1>4, <1>5, <1>6
<1> QED
  BY <1>1, <1>8, <1>9, Zenon DEF luma, cb, cr

(* Every colour comes back from its three bytes, which are in the ranges   *)
(* of the standard, so that nothing is lost when sums are stored in a      *)
(* uint8_t: red at most 3 too low, green at most 2 off, blue at most 4 too *)
(* low and 1 too high. Pixels are Close with a Tolerance of 4              *)
(* (VideoUtil::rgba2Yuv, rgba2Nv12, yuv420ToRgba, nv12ToRgba).             *)
THEOREM ColoursComeBack ==
  ASSUME NEW p \in Colours
  PROVE  LET q == Rgb(Luma(p), Cb(p), Cr(p))
         IN /\ Luma(p) \in 16 .. 235 /\ Cb(p) \in 16 .. 239 /\ Cr(p) \in 16 .. 239
            /\ q \in Colours
            /\ q.r \in p.r - 3 .. p.r
            /\ q.g \in p.g - 2 .. p.g + 2
            /\ q.b \in p.b - 4 .. p.b + 1
            /\ Tolerance \in Nat /\ Tolerance >= 4 => Close(q, p)
<1> DEFINE C == Luma(p) - 16
           D == Cb(p) - 128
           E == Cr(p) - 128
           red == (298 * C + 409 * E + 128) \div 256
           green == (298 * C - 100 * D - 208 * E + 128) \div 256
           blue == (298 * C + 516 * D + 128) \div 256
           q == Rgb(Luma(p), Cb(p), Cr(p))
<1>1. p.r \in 0 .. 255 /\ p.g \in 0 .. 255 /\ p.b \in 0 .. 255
  BY DEF Colours
<1>2. q = [r |-> Clamp(red), g |-> Clamp(green), b |-> Clamp(blue)]
  BY Zenon DEF Rgb
<1>3. Luma(p) \in 16 .. 235 /\ Cb(p) \in 16 .. 239 /\ Cr(p) \in 16 .. 239
  BY BytesAreSums
<1>4. /\ C = (66 * p.r + 129 * p.g + 25 * p.b) \div 256
      /\ D = (-38 * p.r - 74 * p.g + 112 * p.b) \div 256
      /\ E = (112 * p.r - 94 * p.g - 18 * p.b) \div 256
  BY BytesAreSums
<1>5. C \in Int /\ D \in Int /\ E \in Int
  BY <1>3
<1> DEFINE r == p.r
           g == p.g
           b == p.b
<1> HIDE DEF C, D, E
<1>6. /\ red \in r - 3 .. r
      /\ green \in g - 2 .. g + 2
      /\ blue \in b - 4 .. b + 1
  <2>1. r \in 0 .. 255 /\ g \in 0 .. 255 /\ b \in 0 .. 255
    BY <1>1
  <2>2. /\ C = (66 * r + 129 * g + 25 * b) \div 256
        /\ D = (-38 * r - 74 * g + 112 * b) \div 256
        /\ E = (112 * r - 94 * g - 18 * b) \div 256
    BY <1>4, Zenon
  <2> HIDE DEF r, g, b
  <2>3. ASSUME NEW n \in Int, NEW m \in Int, m = n \div 256
        PROVE  256 * m <= n /\ n <= 256 * m + 255
    BY <2>3
  <2>4. 256 * C <= 66 * r + 129 * g + 25 * b /\ 66 * r + 129 * g + 25 * b <= 256 * C + 255
    BY <2>1, <2>2, <2>3, <1>5
  <2>5. 256 * D <= -38 * r - 74 * g + 112 * b /\ -38 * r - 74 * g + 112 * b <= 256 * D + 255
    BY <2>1, <2>2, <2>3, <1>5
  <2>6. 256 * E <= 112 * r - 94 * g - 18 * b /\ 112 * r - 94 * g - 18 * b <= 256 * E + 255
    BY <2>1, <2>2, <2>3, <1>5
  <2>7. ASSUME NEW n \in Int, NEW m \in Int, 256 * m <= n, n < 256 * m + 256
        PROVE  /\ n = 298 * C + 409 * E + 128 => m \in r - 3 .. r
               /\ n = 298 * C - 100 * D - 208 * E + 128 => m \in g - 2 .. g + 2
               /\ n = 298 * C + 516 * D + 128 => m \in b - 4 .. b + 1
    BY <2>1, <2>4, <2>5, <2>6, <2>7, <1>5
  <2>8. ASSUME NEW n \in Int
        PROVE  /\ n = 298 * C + 409 * E + 128 => n \div 256 \in r - 3 .. r
               /\ n = 298 * C - 100 * D - 208 * E + 128 => n \div 256 \in g - 2 .. g + 2
               /\ n = 298 * C + 516 * D + 128 => n \div 256 \in b - 4 .. b + 1
    BY <2>7, Shifted
  <2>9. red \in r - 3 .. r
    BY <2>8, <1>5
  <2>10. green \in g - 2 .. g + 2
    BY <2>8, <1>5
  <2>11. blue \in b - 4 .. b + 1
    BY <2>8, <1>5
  <2> QED
    BY <2>9, <2>10, <2>11
<1> HIDE DEF red, green, blue, q
<1>7. q.r \in p.r - 3 .. p.r /\ q.r \in 0 .. 255
  <2>1. q.r = Clamp(red)
    BY <1>2
  <2>2. r - 3 \in Int /\ r \in Int /\ r - 3 <= 255 /\ 0 <= r /\ red \in Int
    BY <1>1, <1>6
  <2> QED
    BY <2>1, <2>2, <1>6, ClampSame
<1>8. q.g \in p.g - 2 .. p.g + 2 /\ q.g \in 0 .. 255
  <2>1. q.g = Clamp(green)
    BY <1>2
  <2>2. g - 2 \in Int /\ g + 2 \in Int /\ g - 2 <= 255 /\ 0 <= g + 2 /\ green \in Int
    BY <1>1, <1>6
  <2> QED
    BY <2>1, <2>2, <1>6, ClampSame
<1>9. q.b \in p.b - 4 .. p.b + 1 /\ q.b \in 0 .. 255
  <2>1. q.b = Clamp(blue)
    BY <1>2
  <2>2. b - 4 \in Int /\ b + 1 \in Int /\ b - 4 <= 255 /\ 0 <= b + 1 /\ blue \in Int
    BY <1>1, <1>6
  <2> QED
    BY <2>1, <2>2, <1>6, ClampSame
<1>10. q \in Colours
  BY <1>2, <1>7, <1>8, <1>9 DEF Colours
<1>11. ASSUME Tolerance \in Nat, Tolerance >= 4 PROVE Close(q, p)
  <2>1. ASSUME NEW m \in Int, NEW n \in Int, n \in m - 4 .. m + 4
        PROVE  n - m \in -Tolerance .. Tolerance
    BY <2>1, <1>11
  <2>2. p.r \in Int /\ q.r \in Int /\ q.r \in p.r - 4 .. p.r + 4
    BY <1>1, <1>7
  <2>3. p.g \in Int /\ q.g \in Int /\ q.g \in p.g - 4 .. p.g + 4
    BY <1>1, <1>8
  <2>4. p.b \in Int /\ q.b \in Int /\ q.b \in p.b - 4 .. p.b + 4
    BY <1>1, <1>9
  <2> QED
    BY <2>1, <2>2, <2>3, <2>4 DEF Close
<1> QED
  BY <1>3, <1>7, <1>8, <1>9, <1>10, <1>11, Zenon DEF q

-----------------------------------------------------------------------------
(* The memory of the bit writer.                                           *)

(* The buffer has words, and the one that is written next is among them.   *)
InMemory(bs) ==
  /\ bs = [buffer |-> bs.buffer, bit_offset |-> bs.bit_offset, junk |-> bs.junk]
  /\ bs.bit_offset \in Nat
  /\ \E n \in Nat : DOMAIN bs.buffer = 0 .. n - 1 /\ bs.bit_offset \div 32 < n

HInv ==
  job.task = "header" => job \in Headers /\ done \in Nat /\ InMemory(out)

LEMMA RoomOf ==
  ASSUME NEW bs, NEW n \in Nat, DOMAIN bs.buffer = 0 .. n - 1
  PROVE  Room(bs) = n
<1>1. Cardinality(0 .. n - 1) = IF 0 > n - 1 THEN 0 ELSE (n - 1) - 0 + 1
  BY FS_Interval
<1>2. Cardinality(0 .. n - 1) = n
  BY <1>1
<1> QED
  BY <1>2 DEF Room

(* Where an offset is in the words, and where the next one is.             *)
LEMMA Offsets ==
  ASSUME NEW o \in Nat
  PROVE  /\ o \div 32 \in Nat /\ 32 - (o % 32) \in 1 .. 32
         /\ o = 32 * (o \div 32) + 32 - (32 - (o % 32))
         /\ 8 - (o % 8) \in 0 .. 32
  OBVIOUS

LEMMA NextOffset ==
  ASSUME NEW o \in Nat, NEW pos \in Nat, NEW left \in 1 .. 32, NEW size \in 0 .. 32,
         o = 32 * pos + 32 - left
  PROVE  /\ o + size \in Nat
         /\ left > size => (o + size) \div 32 = pos
         /\ ~(left > size) => (o + size) \div 32 = pos + 1
  OBVIOUS

(* A word that spills over goes to a word that realloc() has made room for *)
(* if need be, and is the next one that is written.                        *)
LEMMA PutUiStays ==
  ASSUME NEW bs, InMemory(bs), NEW val, NEW size \in 0 .. 32
  PROVE  InMemory(PutUi(bs, val, size))
<1> DEFINE pos == bs.bit_offset \div 32
           left == 32 - (bs.bit_offset % 32)
           low == Or(ShiftLeft(bs.buffer[pos], size, bs.junk), Bits(val, 32))
           full == va_swap32(Or(ShiftLeft(bs.buffer[pos], left, bs.junk),
                                ShiftRight(Bits(val, 32), size - left)))
           grown == [Grown(bs, pos) EXCEPT ![pos] = full]
<1>1. PICK n \in Nat : DOMAIN bs.buffer = 0 .. n - 1 /\ pos < n
  BY DEF InMemory
<1>2. bs.bit_offset \in Nat /\ pos \in Nat /\ left \in 1 .. 32
        /\ bs.bit_offset = 32 * pos + 32 - left
  <2>1. bs.bit_offset \in Nat
    BY DEF InMemory
  <2> QED
    BY <2>1, Offsets
<1>3. CASE size = 0
  BY <1>3 DEF PutUi
<1>4. CASE size # 0 /\ left > size
  <2>1. PutUi(bs, val, size) =
          [bs EXCEPT !.bit_offset = @ + size, !.buffer = [@ EXCEPT ![pos] = low]]
    BY <1>4, Zenon DEF PutUi
  <2> HIDE DEF low
  <2>2. PutUi(bs, val, size) = [buffer |-> [bs.buffer EXCEPT ![pos] = low],
                                bit_offset |-> bs.bit_offset + size, junk |-> bs.junk]
    BY <2>1 DEF InMemory
  <2> HIDE DEF pos, left
  <2>3. bs.bit_offset + size \in Nat /\ (bs.bit_offset + size) \div 32 = pos
    BY <1>2, <1>4, NextOffset
  <2>4. DOMAIN [bs.buffer EXCEPT ![pos] = low] = 0 .. n - 1
    BY <1>1
  <2> HIDE DEF low
  <2> QED
    BY <2>2, <2>3, <2>4, <1>1 DEF InMemory
<1>5. CASE size # 0 /\ ~(left > size)
  <2>1. PutUi(bs, val, size) =
          [bs EXCEPT !.bit_offset = @ + size, !.buffer = Spilled(grown, pos, val)]
    BY <1>5, Zenon DEF PutUi
  <2>2. \E m \in Nat : DOMAIN Grown(bs, pos) = 0 .. m - 1 /\ pos + 1 < m
    <3>1. Room(bs) = n
      BY <1>1, RoomOf
    <3>2. CASE pos + 1 = n
      <4>1. DOMAIN Grown(bs, pos) = 0 .. n + Stepping - 1
        BY <3>1, <3>2, Zenon DEF Grown
      <4>2. /\ n + Stepping \in Nat /\ pos + 1 < n + Stepping
            /\ n + Stepping - 1 = (n + Stepping) - 1
        BY <3>2, SteppingAssumption
      <4> QED
        BY <4>1, <4>2, Zenon
    <3>3. CASE pos + 1 # n
      <4>1. Grown(bs, pos) = bs.buffer
        BY <3>1, <3>3 DEF Grown
      <4> QED
        <5>1. pos + 1 < n
          BY <3>3, <1>1, <1>2
        <5> QED
          BY <5>1, <4>1, <1>1, Zenon
    <3> QED
      BY <3>2, <3>3
  <2>3. DOMAIN Spilled(grown, pos, val) = DOMAIN Grown(bs, pos)
    BY DEF Spilled
  <2> HIDE DEF grown
  <2>4. PutUi(bs, val, size) = [buffer |-> Spilled(grown, pos, val),
                                bit_offset |-> bs.bit_offset + size, junk |-> bs.junk]
    BY <2>1 DEF InMemory
  <2> HIDE DEF pos, left
  <2>5. bs.bit_offset + size \in Nat /\ (bs.bit_offset + size) \div 32 = pos + 1
    BY <1>2, <1>5, NextOffset
  <2> QED
    BY <2>2, <2>3, <2>4, <2>5 DEF InMemory
<1> QED
  BY <1>3, <1>4, <1>5

(* bitstream_put_ue() counts from 1 to 31 bits.                            *)
LEMMA BitLengthFits ==
  ASSUME NEW n \in Nat, n > 0
  PROVE  BitLength(n) \in 1 .. 31
<1> DEFINE bits == {i \in 0 .. 30 : 2^i <= n}
<1>1. IsFiniteSet(0 .. 30) /\ Cardinality(0 .. 30) = 31
  <2>1. 0 \in Int /\ 30 \in Int /\ ~(0 > 30) /\ 30 - 0 + 1 = 31
    OBVIOUS
  <2> QED
    BY <2>1, FS_Interval, Zenon
<1>2. bits \subseteq 0 .. 30
  OBVIOUS
<1>3. 0 \in bits
  <2>1. 2^0 = 1
    OBVIOUS
  <2> QED
    BY <2>1
<1> HIDE DEF bits
<1>4. IsFiniteSet(bits) /\ Cardinality(bits) <= 31
  BY <1>1, <1>2, FS_Subset
<1>5. Cardinality(bits) \in Nat /\ Cardinality(bits) # 0
  BY <1>3, <1>4, FS_CardinalityType, FS_EmptySet
<1>6. BitLength(n) = Cardinality(bits)
  BY DEF BitLength, bits
<1> QED
  BY <1>4, <1>5, <1>6

LEMMA PutUeStays ==
  ASSUME NEW bs, InMemory(bs), NEW val \in Nat
  PROVE  InMemory(PutUe(bs, val))
<1> DEFINE size == BitLength(val + 1)
<1>1. size \in 0 .. 32 /\ size - 1 \in 0 .. 32
  BY BitLengthFits
<1> HIDE DEF size
<1>2. InMemory(PutUi(PutUi(bs, 0, size - 1), val + 1, size))
  BY <1>1, PutUiStays
<1> QED
  BY <1>2 DEF PutUe, size

LEMMA PutStays ==
  ASSUME NEW bs, InMemory(bs), NEW e \in Elements
  PROVE  InMemory(Put(bs, e))
<1>1. /\ e.type \in {"u", "ue", "se", "align"} /\ e.value \in Int /\ e.size \in 0 .. 32
      /\ e.type = "ue" => e.value >= 0
  BY DEF Elements
<1>2. CASE e.type = "u"
  BY <1>1, <1>2, PutUiStays DEF Put
<1>3. CASE e.type = "ue"
  BY <1>1, <1>3, PutUeStays DEF Put
<1>4. CASE e.type = "se"
  <2>1. (IF e.value <= 0 THEN -2 * e.value ELSE 2 * e.value - 1) \in Nat
    BY <1>1
  <2>2. InMemory(PutSe(bs, e.value))
    BY <2>1, PutUeStays DEF PutSe
  <2> QED
    BY <1>4, <2>2 DEF Put
<1>5. CASE e.type = "align"
  <2>1. bs.bit_offset \in Nat
    BY DEF InMemory
  <2>2. InMemory(ByteAlign(bs, e.value))
    BY <2>1, Offsets, PutUiStays DEF ByteAlign
  <2> QED
    BY <1>5, <2>2 DEF Put
<1> QED
  BY <1>1, <1>2, <1>3, <1>4, <1>5

LEMMA StartInMemory ==
  ASSUME NEW junk
  PROVE  InMemory(Start(junk))
<1>1. Start(junk) = [buffer |-> [i \in 0 .. Stepping - 1 |-> Repeat(0, 32)],
                     bit_offset |-> 0, junk |-> junk]
  BY DEF Start
<1>2. Stepping \in Nat /\ 0 \div 32 < Stepping
  BY SteppingAssumption
<1> QED
  BY <1>1, <1>2 DEF InMemory

LEMMA EndStays ==
  ASSUME NEW bs, InMemory(bs)
  PROVE  InMemory(End(bs))
  BY DEF End, InMemory

(* Whatever headers are written, in elements of at most 32 bits: the word  *)
(* that is written next is in the memory that was allocated, also behind   *)
(* the word that was filled last (VaBitstream::bitstream_put_ui grows the  *)
(* buffer one word before it is needed).                                   *)
WriterInMemory ==
  job.task = "header" =>
    /\ DOMAIN out.buffer = 0 .. Room(out) - 1
    /\ out.bit_offset \div 32 \in DOMAIN out.buffer

THEOREM WriterStaysInMemory == Spec => []WriterInMemory
<1>1. Init => HInv
  <2> SUFFICES ASSUME Init PROVE HInv
    OBVIOUS
  <2>1. CASE job \in Headers /\ out = Start(job.junk)
    BY <2>1, StartInMemory DEF Init, HInv
  <2>2. CASE job \notin Headers
    BY <2>2, JobsAssumption DEF Init, HInv
  <2> QED
    BY <2>1, <2>2, JobsAssumption DEF Init
<1>2. HInv /\ [Next]_vars => HInv'
  <2> SUFFICES ASSUME HInv, [Next]_vars PROVE HInv'
    OBVIOUS
  <2>1. CASE WriteElement
    <3>1. job \in Headers /\ done \in Nat /\ InMemory(out)
      BY <2>1 DEF HInv, WriteElement
    <3>2. HeaderOf \in Seq(Elements)
      BY <3>1, HeadersAssumption DEF HeaderOf
    <3>3. done < Len(HeaderOf)
      BY <2>1 DEF WriteElement
    <3> HIDE DEF HeaderOf
    <3>4. HeaderOf[done + 1] \in Elements
      BY <3>1, <3>2, <3>3
    <3>5. InMemory(out')
      BY <2>1, <3>1, <3>4, PutStays DEF WriteElement
    <3> QED
      BY <2>1, <3>1, <3>5 DEF HInv, WriteElement, InMemory
  <2>2. CASE EndHeader
    BY <2>2, EndStays DEF HInv, EndHeader, InMemory
  <2>3. CASE job.task # "header" /\ UNCHANGED job
    BY <2>3 DEF HInv
  <2>4. CASE UNCHANGED vars
    BY <2>4 DEF HInv, InMemory, vars
  <2>5. WriteElement \/ EndHeader \/ (job.task # "header" /\ UNCHANGED job) \/ UNCHANGED vars
    BY DEF Next, Convert, MoveBox, StartPointer, MovePointer, StopPointer, StartKeys,
           TypeKey, StopKeys, ChangeCursor, SendCursor
  <2> QED
    BY <2>1, <2>2, <2>3, <2>4, <2>5
<1>3. HInv => WriterInMemory
  <2> SUFFICES ASSUME HInv, job.task = "header" PROVE WriterInMemory
    BY DEF WriterInMemory
  <2>1. InMemory(out)
    BY DEF HInv
  <2>2. PICK n \in Nat : DOMAIN out.buffer = 0 .. n - 1 /\ out.bit_offset \div 32 < n
    BY <2>1 DEF InMemory
  <2>3. Room(out) = n
    BY <2>2, RoomOf
  <2> QED
    BY <2>1, <2>2, <2>3 DEF WriterInMemory, InMemory
<1> QED
  BY <1>1, <1>2, <1>3, PTL DEF Spec

-----------------------------------------------------------------------------
(* What the bit writer wrote, read again.                                *)

(* Induction, with a set for the property. *)
LEMMA Induction ==
  ASSUME NEW S, 0 \in S, \A n \in Nat : n \in S => n + 1 \in S
  PROVE  Nat \subseteq S
<1> DEFINE R == {ss \in Nat \X Nat : ss[1] < ss[2]}
           gaps == Nat \ S
<1>1. IsWellFoundedOn(R, Nat)
  BY NatLessThanWellFounded, Zenon DEF OpToRel
<1>2. SUFFICES ASSUME gaps # {} PROVE FALSE
  OBVIOUS
<1>3. PICK x \in gaps : \A y \in gaps : << y, x >> \notin R
  <2>1. gaps \subseteq Nat
    OBVIOUS
  <2> HIDE DEF R, gaps
  <2> QED
    BY <1>1, <1>2, <2>1, WFMin
<1>4. x \in Nat /\ x # 0 /\ x - 1 \in Nat
  BY <1>3
<1>5. x - 1 \in S
  <2>1. << x - 1, x >> \in R
    BY <1>4
  <2> HIDE DEF R
  <2> QED
    BY <1>3, <1>4, <2>1
<1> QED
  BY <1>3, <1>4, <1>5

(* The powers of two that are used; the provers know them number by number. *)
LEMMA PowerDoubles ==
  ASSUME NEW n \in 0 .. 30
  PROVE  2^n \in Nat /\ 2^n >= 1 /\ 2^(n + 1) = 2 * 2^n
<1>0. n \in Int /\ 0 <= n /\ n <= 30
  OBVIOUS
<1>1. CASE n = 0 BY <1>1
<1>2. CASE n = 1 BY <1>2
<1>3. CASE n = 2 BY <1>3
<1>4. CASE n = 3 BY <1>4
<1>5. CASE n = 4 BY <1>5
<1>6. CASE n = 5 BY <1>6
<1>7. CASE n = 6 BY <1>7
<1>8. CASE n = 7 BY <1>8
<1>9. CASE n = 8 BY <1>9
<1>10. CASE n = 9 BY <1>10
<1>11. CASE n = 10 BY <1>11
<1>12. CASE n = 11 BY <1>12
<1>13. CASE n = 12 BY <1>13
<1>14. CASE n = 13 BY <1>14
<1>15. CASE n = 14 BY <1>15
<1>16. CASE n = 15 BY <1>16
<1>17. CASE n = 16 BY <1>17
<1>18. CASE n = 17 BY <1>18
<1>19. CASE n = 18 BY <1>19
<1>20. CASE n = 19 BY <1>20
<1>21. CASE n = 20 BY <1>21
<1>22. CASE n = 21 BY <1>22
<1>23. CASE n = 22 BY <1>23
<1>24. CASE n = 23 BY <1>24
<1>25. CASE n = 24 BY <1>25
<1>26. CASE n = 25 BY <1>26
<1>27. CASE n = 26 BY <1>27
<1>28. CASE n = 27 BY <1>28
<1>29. CASE n = 28 BY <1>29
<1>30. CASE n = 29 BY <1>30
<1>31. CASE n = 30 BY <1>31
<1> QED
  BY <1>0, <1>1, <1>2, <1>3, <1>4, <1>5, <1>6, <1>7, <1>8, <1>9, <1>10, 
     <1>11, <1>12, <1>13, <1>14, <1>15, <1>16, <1>17, <1>18, <1>19, 
     <1>20, <1>21, <1>22, <1>23, <1>24, <1>25, <1>26, <1>27, <1>28, 
     <1>29, <1>30, <1>31

(* Halving a quotient. *)
LEMMA Halved ==
  ASSUME NEW v \in Nat, NEW d \in Nat, d >= 1
  PROVE  /\ v \div d \in Nat /\ v \div (2 * d) \in Nat
         /\ v \div d = 2 * (v \div (2 * d)) + ((v \div d) % 2)
<1> DEFINE q == v \div d
           h == q \div 2
<1>1. q \in Nat /\ q * d <= v /\ v < q * d + d
  OBVIOUS
<1>2. h \in Nat /\ 2 * h <= q /\ q <= 2 * h + 1 /\ q = 2 * h + (q % 2)
  BY <1>1
<1> HIDE DEF q, h
<1>3. 2 * d \in Nat /\ 2 * d >= 1 
  OBVIOUS
<1>4. h * (2 * d) <= v
  BY <1>1, <1>2
<1>5. v < h * (2 * d) + 2 * d
  BY <1>1, <1>2
<1>6. v \div (2 * d) = h
  BY <1>2, <1>3, <1>4, <1>5
<1> QED
  BY <1>1, <1>2, <1>6 DEF q

LEMMA PowersGrow ==
  ASSUME NEW m \in Nat, NEW k \in Nat, k <= m, m <= 31
  PROVE  2^k <= 2^m /\ 2^k \in Nat /\ 2^m \in Nat /\ 2^k >= 1
<1> DEFINE S == {n \in Nat : k + n <= 31 => 2^(k + n) \in Nat /\ 2^k <= 2^(k + n)}
<1>1. 2^k \in Nat /\ 2^k >= 1
  <2>1. CASE k <= 30
    <3>1. k \in 0 .. 30
      BY <2>1
    <3> QED
      BY <3>1, PowerDoubles
  <2>2. CASE k = 31
    BY <2>2
  <2> QED
    BY <2>1, <2>2
<1>2. 0 \in S
  <2>1. k + 0 = k
    OBVIOUS
  <2> QED
    BY <1>1, <2>1
<1>3. ASSUME NEW n \in Nat, n \in S PROVE n + 1 \in S
  <2> SUFFICES ASSUME k + (n + 1) <= 31
               PROVE  2^(k + (n + 1)) \in Nat /\ 2^k <= 2^(k + (n + 1))
    OBVIOUS
  <2>1. k + n \in 0 .. 30 /\ k + (n + 1) = (k + n) + 1
    OBVIOUS
  <2>2. 2^((k + n) + 1) = 2 * 2^(k + n) /\ 2^(k + n) \in Nat
    BY <2>1, PowerDoubles
  <2>3. 2^k <= 2^(k + n)
    BY <1>3, <2>1
  <2> QED
    BY <1>1, <2>1, <2>2, <2>3
<1> HIDE DEF S
<1>4. Nat \subseteq S
  BY <1>2, <1>3, Induction
<1>5. m - k \in Nat /\ k + (m - k) = m
  OBVIOUS
<1>6. m - k \in S
  BY <1>4, <1>5
<1> QED
  BY <1>1, <1>5, <1>6 DEF S

(* Bits of a number below 2^31, and of one that has fewer. *)
Values == 0 .. MaxInt

LEMMA BitIs ==
  ASSUME NEW v \in Values, NEW k \in Nat
  PROVE  Bit(v, k) \in 0 .. 1
<1>1. CASE k > 30
  BY <1>1 DEF Bit
<1>2. CASE k <= 30
  <2>0. k \in 0 .. 30 /\ v \in Nat
    BY <1>2 DEF Values
  <2>1. 2^k \in Nat /\ 2^k >= 1
    BY <2>0, PowerDoubles
  <2>2. v \div 2^k \in Nat
    BY <2>0, <2>1, Halved
  <2> QED
    BY <1>2, <2>2 DEF Bit
<1> QED
  BY <1>1, <1>2

LEMMA HighBits ==
  ASSUME NEW v \in Values, NEW size \in 0 .. 32, size < 31 => v < 2^size,
         NEW k \in Nat, size <= k
  PROVE  Bit(v, k) = 0
<1>1. CASE k > 30
  BY <1>1 DEF Bit
<1>2. CASE k <= 30
  <2>0. k \in Nat /\ size \in Nat /\ size <= k /\ k <= 31 /\ size < 31
    BY <1>2
  <2>1. 2^size <= 2^k /\ 2^size \in Nat /\ 2^k \in Nat /\ 2^k >= 1
    BY <2>0, PowersGrow
  <2>2. v \in Nat /\ v < 2^k
    BY <2>0, <2>1 DEF Values
  <2>3. ASSUME NEW d \in Nat, v < d PROVE v \div d = 0
    BY <2>2, <2>3
  <2>4. v \div 2^k = 0
    BY <2>1, <2>2, <2>3
  <2> QED
    BY <1>2, <2>4 DEF Bit
<1> QED
  BY <1>1, <1>2

(* What the bits from number k on stand for. *)
Rest(v, k) == IF k > 30 THEN 0 ELSE v \div 2^k

LEMMA RestIs ==
  ASSUME NEW v \in Values, NEW k \in Nat
  PROVE  /\ Rest(v, k) \in Nat /\ Rest(v, k + 1) \in Nat
         /\ Rest(v, k) = 2 * Rest(v, k + 1) + Bit(v, k)
<1>1. CASE k > 30
  BY <1>1 DEF Rest, Bit
<1>2. CASE k = 30
  <2>1. v \div 2^30 \in 0 .. 1
    BY DEF Values, MaxInt
  <2>2. 2^k = 2^30
    BY <1>2
  <2> QED
    BY <1>2, <2>1, <2>2 DEF Rest, Bit
<1>3. CASE k < 30
  <2>0. k \in 0 .. 30 /\ v \in Nat
    BY <1>3 DEF Values
  <2>1. 2^k \in Nat /\ 2^k >= 1 /\ 2^(k + 1) = 2 * 2^k
    BY <2>0, PowerDoubles
  <2>2. /\ v \div 2^k \in Nat /\ v \div 2^(k + 1) \in Nat
        /\ v \div 2^k = 2 * (v \div 2^(k + 1)) + ((v \div 2^k) % 2)
    BY <2>0, <2>1, Halved
  <2> QED
    BY <1>3, <2>2 DEF Rest, Bit
<1> QED
  BY <1>1, <1>2, <1>3

(* The reader's number, from what it should be after every bit. *)
LEMMA NumberIs ==
  ASSUME NEW bits, Len(bits) \in Nat, NEW g, DOMAIN g = 0 .. Len(bits), g[0] = 0,
         g = [i \in 0 .. Len(bits) |-> g[i]],
         \A i \in 1 .. Len(bits) : g[i] = 2 * g[i - 1] + bits[i]
  PROVE  Number(bits) = g[Len(bits)]
<1> DEFINE Body(n) == [i \in 0 .. Len(bits) |-> IF i = 0 THEN 0 ELSE 2 * n[i - 1] + bits[i]]
           n == CHOOSE n : n = Body(n)
           S == {i \in Nat : i <= Len(bits) => n[i] = g[i]}
<1>1. g = Body(g)
  <2>1. \A i \in 0 .. Len(bits) : g[i] = IF i = 0 THEN 0 ELSE 2 * g[i - 1] + bits[i]
    OBVIOUS
  <2> QED
    BY <2>1
<1>2. n = Body(n)
  BY <1>1, Zenon
<1>3. Number(bits) = n[Len(bits)]
  BY DEF Number
<1>4. n[0] = 0 /\ \A i \in 1 .. Len(bits) : n[i] = 2 * n[i - 1] + bits[i]
  <2>1. \A i \in 0 .. Len(bits) : n[i] = IF i = 0 THEN 0 ELSE 2 * n[i - 1] + bits[i]
    <3> HIDE DEF n
    <3> QED
      BY <1>2
  <2> HIDE DEF n
  <2> QED
    BY <2>1
<1> HIDE DEF n
<1>5. 0 \in S
  BY <1>4
<1>6. ASSUME NEW i \in Nat, i \in S PROVE i + 1 \in S
  <2> SUFFICES ASSUME i + 1 <= Len(bits) PROVE n[i + 1] = g[i + 1]
    OBVIOUS
  <2>1. i + 1 \in 1 .. Len(bits) /\ (i + 1) - 1 = i /\ n[i] = g[i]
    BY <1>6
  <2> QED
    BY <1>4, <2>1
<1> HIDE DEF S
<1>7. Nat \subseteq S
  BY <1>5, <1>6, Induction
<1> QED
  BY <1>3, <1>7 DEF S

-----------------------------------------------------------------------------
(* Words, bit by bit.                                                      *)

Words == [1 .. 32 -> 0 .. 1]

LEMMA SubWord ==
  ASSUME NEW w \in Words, NEW a \in 1 .. 33, NEW b \in 0 .. 32, NEW n \in Nat, b + 1 = a + n
  PROVE  /\ SubSeq(w, a, b) \in [1 .. n -> 0 .. 1]
         /\ \A k \in 1 .. n : SubSeq(w, a, b)[k] = w[a + k - 1]
<1>1. a \in Int /\ b \in Int /\ \A i \in a .. b : w[i] \in 0 .. 1
  BY DEF Words
<1>2. (IF a <= b THEN b - a + 1 ELSE 0) = n /\ b - a + 1 = n
  OBVIOUS
<1>3. /\ SubSeq(w, a, b) \in Seq(0 .. 1) /\ Len(SubSeq(w, a, b)) = n
      /\ \A k \in 1 .. n : SubSeq(w, a, b)[k] = w[a + k - 1]
  BY <1>1, <1>2
<1> QED
  BY <1>3, LenProperties, Zenon

LEMMA ZerosAre ==
  ASSUME NEW n \in Nat
  PROVE  Repeat(0, n) \in [1 .. n -> 0 .. 1] /\ \A k \in 1 .. n : Repeat(0, n)[k] = 0
  BY DEF Repeat

LEMMA IsSeq ==
  ASSUME NEW S, NEW n \in Nat, NEW s \in [1 .. n -> S]
  PROVE  s \in Seq(S) /\ Len(s) = n
<1>1. s \in Seq(S)
  BY SeqDef
<1>2. DOMAIN s = 1 .. n /\ DOMAIN s = 1 .. Len(s) /\ Len(s) \in Nat
  BY <1>1, LenProperties
<1> QED
  BY <1>1, <1>2

(* One sequence behind another. *)
InTurn(st, a, s, b, t) ==
  (\A k \in 1 .. a : st[k] = s[k]) /\ (\A k \in 1 .. b : st[a + k] = t[k])

LEMMA Joined ==
  ASSUME NEW S, NEW a \in Nat, NEW b \in Nat, NEW n, a + b = n,
         NEW s \in [1 .. a -> S], NEW t \in [1 .. b -> S]
  PROVE  s \o t \in [1 .. n -> S] /\ InTurn(s \o t, a, s, b, t)
<1>1. s \in Seq(S) /\ Len(s) = a /\ t \in Seq(S) /\ Len(t) = b
  BY IsSeq
<1>2. /\ s \o t \in Seq(S) /\ Len(s \o t) = a + b
      /\ \A i \in 1 .. a + b : (s \o t)[i] = IF i <= a THEN s[i] ELSE t[i - a]
  BY <1>1
<1>3. s \o t \in [1 .. n -> S]
  BY <1>2, LenProperties, Zenon
<1> DEFINE st == s \o t
<1>4. \A i \in 1 .. a + b : st[i] = IF i <= a THEN s[i] ELSE t[i - a]
  BY <1>2
<1> HIDE DEF st
<1>5. ASSUME NEW k \in 1 .. b PROVE st[a + k] = t[k]
  <2>1. a + k \in 1 .. a + b /\ ~(a + k <= a) /\ (a + k) - a = k
    OBVIOUS
  <2> QED
    BY <1>4, <2>1
<1>6. ASSUME NEW k \in 1 .. a PROVE st[k] = s[k]
  BY <1>4
<1> QED
  BY <1>3, <1>5, <1>6, Zenon DEF st, InTurn

(* A word that was shifted up by n; by 32, it may be the same. *)
ShiftedUp(s, w, n) ==
  /\ s \in Words
  /\ \A k \in 1 .. 32 : k + n <= 32 => s[k] = w[k + n]
  /\ \A k \in 1 .. 32 : k + n > 32 => s[k] = 0 \/ (n = 32 /\ s[k] = w[k])

LEMMA ShiftLeftIs ==
  ASSUME NEW w \in Words, NEW n \in 1 .. 32, NEW junk \in 0 .. 1
  PROVE  ShiftedUp(ShiftLeft(w, n, junk), w, n)
<1>1. CASE n = 32 /\ junk = 1
  BY <1>1 DEF ShiftLeft, ShiftedUp, Words
<1>2. CASE n = 32 /\ junk # 1
  <2>1. ShiftLeft(w, n, junk) = Repeat(0, 32)
    BY <1>2 DEF ShiftLeft
  <2>2. Repeat(0, 32) \in Words /\ \A k \in 1 .. 32 : Repeat(0, 32)[k] = 0
    BY DEF Repeat, Words
  <2> QED
    BY <1>2, <2>1, <2>2 DEF ShiftedUp
<1>3. CASE n # 32
  <2> DEFINE m == 32 - n
             s == SubSeq(w, n + 1, 32)
             t == Repeat(0, n)
  <2>1. ShiftLeft(w, n, junk) = s \o t
    BY <1>3 DEF ShiftLeft
  <2>2. m \in Nat /\ n \in Nat /\ m + n = 32
    BY <1>3
  <2>3. s \in [1 .. m -> 0 .. 1] /\ \A k \in 1 .. m : s[k] = w[k + n]
    <3>1. n + 1 \in 1 .. 33 /\ 32 \in 0 .. 32 /\ 32 + 1 = (n + 1) + m
      OBVIOUS
    <3>2. s \in [1 .. m -> 0 .. 1] /\ \A k \in 1 .. m : s[k] = w[(n + 1) + k - 1]
      BY <2>2, <3>1, SubWord
    <3> HIDE DEF s
    <3> QED
      BY <3>2
  <2>4. t \in [1 .. n -> 0 .. 1] /\ \A k \in 1 .. n : t[k] = 0
    BY ZerosAre, <2>2
  <2> HIDE DEF s, t, m
  <2> DEFINE st == s \o t
  <2>5. st \in [1 .. 32 -> 0 .. 1] /\ InTurn(st, m, s, n, t)
    BY <2>2, <2>3, <2>4, Joined
  <2> HIDE DEF st
  <2>6. ASSUME NEW k \in 1 .. 32 PROVE st[k] = IF k + n <= 32 THEN w[k + n] ELSE 0
    <3>2. CASE k <= m
      <4>1. k \in 1 .. m /\ k + n <= 32
        BY <3>2, <2>2
      <4>2. st[k] = s[k]
        BY <4>1, <2>5 DEF InTurn
      <4> QED
        BY <4>1, <4>2, <2>3
    <3>3. CASE ~(k <= m)
      <4>1. k - m \in 1 .. n /\ m + (k - m) = k /\ ~(k + n <= 32)
        BY <3>3, <2>2
      <4>2. st[m + (k - m)] = t[k - m]
        BY <4>1, <2>5 DEF InTurn
      <4> QED
        BY <4>1, <4>2, <2>4
    <3> QED
      BY <3>2, <3>3
  <2>7. ShiftLeft(w, n, junk) = st
    BY <2>1 DEF st
  <2> QED
    BY <1>3, <2>5, <2>6, <2>7 DEF Words, ShiftedUp
<1> QED
  BY <1>1, <1>2, <1>3

LEMMA ShiftRightIs ==
  ASSUME NEW w \in Words, NEW n \in 0 .. 31
  PROVE  /\ ShiftRight(w, n) \in Words
         /\ \A k \in 1 .. 32 : ShiftRight(w, n)[k] = IF k <= n THEN 0 ELSE w[k - n]
<1> DEFINE m == 32 - n
           s == Repeat(0, n)
           t == SubSeq(w, 1, 32 - n)
<1>1. ShiftRight(w, n) = s \o t
  BY DEF ShiftRight
<1>2. m \in Nat /\ n \in Nat /\ n + m = 32
  OBVIOUS
<1>3. t \in [1 .. m -> 0 .. 1] /\ \A k \in 1 .. m : t[k] = w[k]
  <2>1. 1 \in 1 .. 33 /\ 32 - n \in 0 .. 32 /\ (32 - n) + 1 = 1 + m
    OBVIOUS
  <2>2. t \in [1 .. m -> 0 .. 1] /\ \A k \in 1 .. m : t[k] = w[1 + k - 1]
    BY <1>2, <2>1, SubWord
  <2> HIDE DEF t
  <2> QED
    BY <2>2
<1>4. s \in [1 .. n -> 0 .. 1] /\ \A k \in 1 .. n : s[k] = 0
  BY ZerosAre, <1>2
<1> HIDE DEF s, t, m
<1> DEFINE st == s \o t
<1>5. st \in [1 .. 32 -> 0 .. 1] /\ InTurn(st, n, s, m, t)
  BY <1>2, <1>3, <1>4, Joined
<1> HIDE DEF st
<1>6. ASSUME NEW k \in 1 .. 32 PROVE st[k] = IF k <= n THEN 0 ELSE w[k - n]
  <2>2. CASE k <= n
    <3>1. k \in 1 .. n
      BY <2>2
    <3>2. st[k] = s[k]
      BY <3>1, <1>5 DEF InTurn
    <3> QED
      BY <3>1, <3>2, <2>2, <1>4
  <2>3. CASE ~(k <= n)
    <3>1. k - n \in 1 .. m /\ n + (k - n) = k
      BY <1>2, <2>3
    <3>2. st[n + (k - n)] = t[k - n]
      BY <3>1, <1>5 DEF InTurn
    <3> QED
      BY <3>1, <3>2, <2>3, <1>3
  <2> QED
    BY <2>2, <2>3
<1>7. ShiftRight(w, n) = st
  BY <1>1 DEF st
<1> QED
  BY <1>5, <1>6, <1>7 DEF Words

LEMMA OrIs ==
  ASSUME NEW w \in Words, NEW x \in Words
  PROVE  /\ Or(w, x) \in Words
         /\ \A k \in 1 .. 32 : Or(w, x)[k] = IF w[k] = 1 THEN 1 ELSE x[k]
  BY DEF Or, Words

LEMMA BitsIs ==
  ASSUME NEW v \in Values
  PROVE  Bits(v, 32) \in Words /\ \A k \in 1 .. 32 : Bits(v, 32)[k] = Bit(v, 32 - k)
  BY BitIs DEF Bits, Words

(* Swapping twice gives the word back. *)
LEMMA SwapIs ==
  ASSUME NEW w \in Words
  PROVE  /\ va_swap32(w) \in Words
         /\ \A k \in 1 .. 32 : va_swap32(w)[k] =
              IF k <= 8 THEN w[k + 24] ELSE IF k <= 16 THEN w[k + 8]
              ELSE IF k <= 24 THEN w[k - 8] ELSE w[k - 24]
<1> DEFINE a == SubSeq(w, 25, 32)
           b == SubSeq(w, 17, 24)
           c == SubSeq(w, 9, 16)
           d == SubSeq(w, 1, 8)
           ab == a \o b
           abc == ab \o c
<1>1. ASSUME NEW from \in {1, 9, 17, 25}
      PROVE  /\ SubSeq(w, from, from + 7) \in [1 .. 8 -> 0 .. 1]
             /\ \A k \in 1 .. 8 : SubSeq(w, from, from + 7)[k] = w[from + k - 1]
  <2>1. from \in 1 .. 33 /\ from + 7 \in 0 .. 32 /\ 8 \in Nat /\ (from + 7) + 1 = from + 8
    OBVIOUS
  <2> QED
    BY <2>1, SubWord
<1>2. a \in [1 .. 8 -> 0 .. 1] /\ \A k \in 1 .. 8 : a[k] = w[k + 24]
  BY <1>1
<1>3. b \in [1 .. 8 -> 0 .. 1] /\ \A k \in 1 .. 8 : b[k] = w[k + 16]
  BY <1>1
<1>4. c \in [1 .. 8 -> 0 .. 1] /\ \A k \in 1 .. 8 : c[k] = w[k + 8]
  BY <1>1
<1>5. d \in [1 .. 8 -> 0 .. 1] /\ \A k \in 1 .. 8 : d[k] = w[k]
  BY <1>1
<1>6. va_swap32(w) = abc \o d
  BY DEF va_swap32
<1> HIDE DEF a, b, c, d
<1>7. ab \in [1 .. 16 -> 0 .. 1] /\ InTurn(ab, 8, a, 8, b)
  <2>1. 8 \in Nat /\ 8 + 8 = 16
    OBVIOUS
  <2> QED
    BY <1>2, <1>3, <2>1, Joined
<1> HIDE DEF ab
<1>8. abc \in [1 .. 24 -> 0 .. 1] /\ InTurn(abc, 16, ab, 8, c)
  <2>1. 8 \in Nat /\ 16 \in Nat /\ 16 + 8 = 24
    OBVIOUS
  <2> QED
    BY <1>4, <1>7, <2>1, Joined
<1> HIDE DEF abc
<1> DEFINE word == abc \o d
<1>9. word \in [1 .. 32 -> 0 .. 1] /\ InTurn(word, 24, abc, 8, d)
  <2>1. 8 \in Nat /\ 24 \in Nat /\ 24 + 8 = 32
    OBVIOUS
  <2> QED
    BY <1>5, <1>8, <2>1, Joined
<1>10. va_swap32(w) = word
  BY <1>6
<1> HIDE DEF word
<1>11. /\ \A k \in 1 .. 8 : word[k] = w[k + 24] /\ word[8 + k] = w[k + 16]
       /\ \A k \in 1 .. 8 : word[16 + k] = w[k + 8] /\ word[24 + k] = w[k]
  <2> SUFFICES ASSUME NEW k \in 1 .. 8
               PROVE  /\ word[k] = w[k + 24] /\ word[8 + k] = w[k + 16]
                      /\ word[16 + k] = w[k + 8] /\ word[24 + k] = w[k]
    OBVIOUS
  <2>1. /\ word[k] = abc[k] /\ word[8 + k] = abc[8 + k]
        /\ word[16 + k] = abc[16 + k] /\ word[24 + k] = d[k]
    BY <1>9 DEF InTurn
  <2>2. abc[k] = ab[k] /\ abc[8 + k] = ab[8 + k] /\ abc[16 + k] = c[k]
    BY <1>8 DEF InTurn
  <2>3. ab[k] = a[k] /\ ab[8 + k] = b[k]
    BY <1>7 DEF InTurn
  <2> QED
    BY <2>1, <2>2, <2>3, <1>2, <1>3, <1>4, <1>5
<1>12. ASSUME NEW k \in 1 .. 32
       PROVE  word[k] = IF k <= 8 THEN w[k + 24] ELSE IF k <= 16 THEN w[k + 8]
                        ELSE IF k <= 24 THEN w[k - 8] ELSE w[k - 24]
  <2>1. CASE k <= 8
    BY <1>11, <2>1
  <2>2. CASE 8 < k /\ k <= 16
    <3>1. k - 8 \in 1 .. 8 /\ 8 + (k - 8) = k /\ (k - 8) + 16 = k + 8
      BY <2>2
    <3> QED
      BY <1>11, <2>2, <3>1
  <2>3. CASE 16 < k /\ k <= 24
    <3>1. k - 16 \in 1 .. 8 /\ 16 + (k - 16) = k /\ (k - 16) + 8 = k - 8
      BY <2>3
    <3> QED
      BY <1>11, <2>3, <3>1
  <2>4. CASE 24 < k
    <3>1. k - 24 \in 1 .. 8 /\ 24 + (k - 24) = k
      BY <2>4
    <3> QED
      BY <1>11, <2>4, <3>1
  <2> QED
    BY <2>1, <2>2, <2>3, <2>4
<1> QED
  BY <1>9, <1>10, <1>12 DEF Words

LEMMA SwapBack ==
  ASSUME NEW w \in Words
  PROVE  \A k \in 1 .. 32 : va_swap32(va_swap32(w))[k] = w[k]
<1>1. va_swap32(w) \in Words
  BY SwapIs
<1> SUFFICES ASSUME NEW k \in 1 .. 32 PROVE va_swap32(va_swap32(w))[k] = w[k]
  OBVIOUS
<1> QED
  BY <1>1, SwapIs

FitsIn(v, size) == v \in Values /\ (size < 31 => v < 2^size)

(* A word moved up by size bits with those of v behind it, and one that is *)
(* filled with the first left of the size bits of v.                       *)
LowOf(low, word, v, size) ==
  /\ low \in Words
  /\ \A j \in 1 .. 32 : j + size <= 32 => low[j] = word[j + size]
  /\ \A j \in 1 .. 32 : j + size > 32 => low[j] = Bit(v, 32 - j)

FullOf(full, word, v, size, left) ==
  /\ full \in Words
  /\ \A j \in 1 .. 32 : j + left <= 32 => full[j] = word[j + left]
  /\ \A j \in 1 .. 32 : j + left > 32 => full[j] = Bit(v, 32 - j + size - left)

(* The current word behind the bits of a number that it still holds. *)
LEMMA LowIs ==
  ASSUME NEW word \in Words, NEW junk \in 0 .. 1, NEW v, NEW size \in 1 .. 31, FitsIn(v, size)
  PROVE  LowOf(Or(ShiftLeft(word, size, junk), Bits(v, 32)), word, v, size)
<1> DEFINE shifted == ShiftLeft(word, size, junk)
           bits == Bits(v, 32)
           low == Or(shifted, bits)
<1>1. /\ size \in 1 .. 32 /\ size \in 0 .. 32 /\ size # 32
      /\ v \in Values /\ (size < 31 => v < 2^size)
  BY DEF FitsIn
<1>2. /\ shifted \in Words
      /\ \A k \in 1 .. 32 : k + size <= 32 => shifted[k] = word[k + size]
      /\ \A k \in 1 .. 32 : k + size > 32 =>
           shifted[k] = 0 \/ (size = 32 /\ shifted[k] = word[k])
  BY <1>1, ShiftLeftIs DEF ShiftedUp
<1>3. bits \in Words /\ \A k \in 1 .. 32 : bits[k] = Bit(v, 32 - k)
  BY <1>1, BitsIs
<1> HIDE DEF shifted, bits
<1>4. low \in Words /\ \A k \in 1 .. 32 : low[k] = IF shifted[k] = 1 THEN 1 ELSE bits[k]
  BY <1>2, <1>3, OrIs
<1> HIDE DEF low
<1>5. ASSUME NEW j \in 1 .. 32, j + size <= 32 PROVE low[j] = word[j + size]
  <2>1. shifted[j] = word[j + size]
    BY <1>2, <1>5
  <2>2. word[j + size] \in 0 .. 1
    BY <1>5 DEF Words
  <2>3. 32 - j \in Nat /\ size <= 32 - j
    BY <1>5
  <2>4. Bit(v, 32 - j) = 0
    BY <1>1, <2>3, HighBits
  <2> QED
    BY <1>3, <1>4, <2>1, <2>2, <2>4
<1>6. ASSUME NEW j \in 1 .. 32, j + size > 32 PROVE low[j] = Bit(v, 32 - j)
  <2>1. shifted[j] = 0
    BY <1>1, <1>2, <1>6
  <2> QED
    BY <1>3, <1>4, <2>1
<1> QED
  BY <1>4, <1>5, <1>6, Zenon DEF LowOf, low, shifted, bits

(* The current word when it is filled, before it is swapped. *)
LEMMA FullIs ==
  ASSUME NEW word \in Words, NEW junk \in 0 .. 1, NEW v, NEW size \in 1 .. 32, FitsIn(v, size),
         NEW left \in 1 .. 32, left <= size, left = 32 => word = Repeat(0, 32)
  PROVE  FullOf(Or(ShiftLeft(word, left, junk), ShiftRight(Bits(v, 32), size - left)),
                word, v, size, left)
<1> DEFINE shifted == ShiftLeft(word, left, junk)
           bits == Bits(v, 32)
           n == size - left
           right == ShiftRight(bits, n)
           full == Or(shifted, right)
<1>1. size \in 0 .. 32 /\ v \in Values /\ (size < 31 => v < 2^size) /\ n \in 0 .. 31
  BY DEF FitsIn
<1>2. /\ shifted \in Words
      /\ \A k \in 1 .. 32 : k + left <= 32 => shifted[k] = word[k + left]
      /\ \A k \in 1 .. 32 : k + left > 32 =>
           shifted[k] = 0 \/ (left = 32 /\ shifted[k] = word[k])
  BY ShiftLeftIs DEF ShiftedUp
<1>3. bits \in Words /\ \A k \in 1 .. 32 : bits[k] = Bit(v, 32 - k)
  BY <1>1, BitsIs
<1> HIDE DEF shifted, bits
<1>4. right \in Words /\ \A k \in 1 .. 32 : right[k] = IF k <= n THEN 0 ELSE bits[k - n]
  BY <1>1, <1>3, ShiftRightIs
<1> HIDE DEF right
<1>5. full \in Words /\ \A k \in 1 .. 32 : full[k] = IF shifted[k] = 1 THEN 1 ELSE right[k]
  BY <1>2, <1>4, OrIs
<1> HIDE DEF full
<1>6. ASSUME NEW j \in 1 .. 32, j + left <= 32 PROVE full[j] = word[j + left]
  <2>1. shifted[j] = word[j + left]
    BY <1>2, <1>6
  <2>2. word[j + left] \in 0 .. 1
    BY <1>6 DEF Words
  <2>3. right[j] = 0
    <3>1. CASE j <= n
      BY <1>4, <3>1
    <3>2. CASE ~(j <= n)
      <4>1. /\ j - n \in 1 .. 32 /\ 32 - (j - n) \in Nat /\ size <= 32 - (j - n)
        BY <1>6, <3>2
      <4>2. Bit(v, 32 - (j - n)) = 0
        BY <1>1, <4>1, HighBits
      <4>3. right[j] = bits[j - n]
        BY <1>4, <3>2
      <4> HIDE DEF n
      <4> QED
        BY <1>3, <4>1, <4>2, <4>3
    <3> QED
      BY <3>1, <3>2
  <2> QED
    BY <1>5, <2>1, <2>2, <2>3
<1>7. ASSUME NEW j \in 1 .. 32, j + left > 32 PROVE full[j] = Bit(v, 32 - j + size - left)
  <2>1. shifted[j] = 0
    <3>1. CASE left = 32
      <4>1. word[j] = 0
        BY <3>1 DEF Repeat
      <4> QED
        BY <1>2, <1>7, <4>1
    <3>2. CASE left # 32
      BY <1>2, <1>7, <3>2
    <3> QED
      BY <3>1, <3>2
  <2>2. ~(j <= n) /\ j - n \in 1 .. 32 /\ 32 - (j - n) = 32 - j + size - left
    BY <1>1, <1>7
  <2>3. right[j] = bits[j - n]
    BY <1>4, <2>2
  <2> HIDE DEF n
  <2> QED
    BY <1>3, <1>5, <2>1, <2>2, <2>3
<1> QED
  BY <1>5, <1>6, <1>7, Zenon DEF FullOf, full, shifted, right, bits, n

(* The words are words, and an empty buffer starts with zeros. *)
Sound(bs) ==
  /\ InMemory(bs)
  /\ bs.junk \in 0 .. 1
  /\ \A w \in DOMAIN bs.buffer : bs.buffer[w] \in Words
  /\ bs.bit_offset = 0 => bs.buffer[0] = Repeat(0, 32)

(* Bit k of word w in memory, while words are filled. *)
At(bs, w, k) ==
  IF w < bs.bit_offset \div 32 THEN va_swap32(bs.buffer[w])[k]
  ELSE bs.buffer[w][32 - (bs.bit_offset % 32) + k]

(* after is bs with the size low bits of v behind it. *)
Behind(after, bs, v, size) ==
  /\ after.bit_offset = bs.bit_offset + size
  /\ \A w \in Nat, k \in 1 .. 32 :
       32 * w + k <= bs.bit_offset => At(after, w, k) = At(bs, w, k)
  /\ \A w \in Nat, k \in 1 .. 32, m \in 1 .. size :
       32 * w + k = bs.bit_offset + m => At(after, w, k) = Bit(v, size - m)

LEMMA InWord ==
  ASSUME NEW o \in Nat, NEW pos \in Nat, NEW left \in 1 .. 32, o = 32 * pos + 32 - left
  PROVE  o \div 32 = pos /\ o % 32 = 32 - left
  OBVIOUS

(* Where the words of a sound stream are. *)
LEMMA SoundWord ==
  ASSUME NEW bs, Sound(bs)
  PROVE  LET pos == bs.bit_offset \div 32
             left == 32 - (bs.bit_offset % 32)
         IN /\ bs.bit_offset \in Nat /\ pos \in Nat /\ left \in 1 .. 32
            /\ bs.bit_offset = 32 * pos + 32 - left
            /\ bs.buffer[pos] \in Words /\ pos \in DOMAIN bs.buffer
            /\ bs.junk \in 0 .. 1
<1>1. bs.bit_offset \in Nat
  BY DEF Sound, InMemory
<1>2. PICK n \in Nat : DOMAIN bs.buffer = 0 .. n - 1 /\ bs.bit_offset \div 32 < n
  BY DEF Sound, InMemory
<1>3. bs.bit_offset \div 32 \in 0 .. n - 1
  BY <1>1, <1>2, Offsets
<1> QED
  BY <1>1, <1>2, <1>3, Offsets DEF Sound

LEMMA PutLow ==
  ASSUME NEW bs, Sound(bs), NEW v, NEW size \in 1 .. 31, FitsIn(v, size),
         32 - (bs.bit_offset % 32) > size
  PROVE  Sound(PutUi(bs, v, size)) /\ Behind(PutUi(bs, v, size), bs, v, size)
<1> DEFINE o == bs.bit_offset
           pos == o \div 32
           left == 32 - (o % 32)
           word == bs.buffer[pos]
           low == Or(ShiftLeft(word, size, bs.junk), Bits(v, 32))
           buffer == [bs.buffer EXCEPT ![pos] = low]
           after == PutUi(bs, v, size)
<1>1. /\ o \in Nat /\ pos \in Nat /\ left \in 1 .. 32 /\ o = 32 * pos + 32 - left
      /\ word \in Words /\ pos \in DOMAIN bs.buffer /\ bs.junk \in 0 .. 1
  BY SoundWord, Zenon
<1>2. after = [bs EXCEPT !.bit_offset = @ + size, !.buffer = buffer]
  <2>1. size # 0 /\ left > size
    OBVIOUS
  <2> QED
    BY <2>1, Zenon DEF PutUi
<1>3. LowOf(low, word, v, size)
  <2> HIDE DEF o, pos, left, word
  <2> QED
    BY <1>1, LowIs
<1> HIDE DEF low, after
<1>4. /\ after.bit_offset = o + size /\ after.buffer = buffer /\ after.junk = bs.junk
  BY <1>2 DEF Sound, InMemory
<1>5. DOMAIN buffer = DOMAIN bs.buffer /\ buffer[pos] = low
      /\ \A w \in DOMAIN bs.buffer : w # pos => buffer[w] = bs.buffer[w]
  BY <1>1
<1> HIDE DEF buffer
<1>6. Sound(after)
  <2>1. InMemory(after)
    <3>1. size \in 0 .. 32
      OBVIOUS
    <3> QED
      BY <3>1, PutUiStays DEF Sound, after
  <2>2. o + size # 0
    BY <1>1
  <2> HIDE DEF o, pos
  <2> QED
    BY <1>1, <1>3, <1>4, <1>5, <2>1, <2>2 DEF Sound, LowOf
<1>7. left > size
  OBVIOUS
<1>9. (o + size) \div 32 = pos /\ (o + size) % 32 = 32 - (left - size)
  <2> HIDE DEF o, pos, left
  <2>1. o + size \in Nat /\ left - size \in 1 .. 32 /\ o + size = 32 * pos + 32 - (left - size)
    BY <1>1, <1>7
  <2> QED
    BY <2>1, <1>1, InWord
<1>10. o \div 32 = pos /\ o % 32 = 32 - left
  BY <1>1
<1>11. ASSUME NEW w \in Nat, NEW k \in 1 .. 32
       PROVE  /\ At(bs, w, k) = IF w < pos THEN va_swap32(bs.buffer[w])[k]
                                ELSE bs.buffer[w][32 - (32 - left) + k]
              /\ At(after, w, k) = IF w < pos THEN va_swap32(buffer[w])[k]
                                   ELSE buffer[w][32 - (32 - (left - size)) + k]
  <2> HIDE DEF o, pos, left
  <2> QED
    BY <1>4, <1>9, <1>10 DEF At, o
<1> HIDE DEF pos, left, word
<1>12. \A w \in Nat : w < pos => w \in DOMAIN bs.buffer
  <2>1. PICK n \in Nat : DOMAIN bs.buffer = 0 .. n - 1
    BY DEF Sound, InMemory
  <2> QED
    BY <1>1, <2>1
<1>13. ASSUME NEW w \in Nat, NEW k \in 1 .. 32, 32 * w + k <= o
       PROVE  At(after, w, k) = At(bs, w, k)
  <2>1. CASE w < pos
    <3>1. buffer[w] = bs.buffer[w]
      BY <2>1, <1>1, <1>5, <1>12
    <3> QED
      BY <2>1, <3>1, <1>11
  <2>2. CASE ~(w < pos)
    <3>1. w = pos /\ k <= 32 - left
      BY <2>2, <1>1, <1>13
    <3> DEFINE j == left - size + k
    <3>2. j \in 1 .. 32 /\ j + size <= 32 /\ j + size = left + k
      BY <3>1, <1>1, <1>7
    <3>3. 32 - (32 - left) + k = left + k /\ 32 - (32 - (left - size)) + k = j
      BY <1>1
    <3> HIDE DEF j
    <3>4. At(bs, w, k) = word[left + k]
      BY <2>2, <3>1, <3>3, <1>11 DEF word
    <3>5. At(after, w, k) = low[j]
      BY <2>2, <3>1, <3>3, <1>5, <1>11
    <3> QED
      BY <3>2, <3>4, <3>5, <1>3 DEF LowOf
  <2> QED
    BY <2>1, <2>2
<1>14. ASSUME NEW w \in Nat, NEW k \in 1 .. 32, NEW m \in 1 .. size, 32 * w + k = o + m
       PROVE  At(after, w, k) = Bit(v, size - m)
  <2>1. w = pos /\ k = 32 - left + m
    BY <1>1, <1>7, <1>14
  <2> DEFINE j == left - size + k
  <2>2. j \in 1 .. 32 /\ j + size > 32 /\ 32 - j = size - m
    BY <2>1, <1>1, <1>7
  <2>3. 32 - (32 - (left - size)) + k = j
    BY <1>1
  <2> HIDE DEF j
  <2>4. At(after, w, k) = low[j]
    BY <2>1, <2>3, <1>1, <1>5, <1>11
  <2>5. low[j] = Bit(v, 32 - j)
    BY <2>2, <1>3 DEF LowOf
  <2> QED
    BY <2>2, <2>4, <2>5
<1> QED
  BY <1>4, <1>6, <1>13, <1>14 DEF Behind, o, after

LEMMA GrownIs ==
  ASSUME NEW bs, Sound(bs)
  PROVE  LET grown == Grown(bs, bs.bit_offset \div 32)
         IN /\ bs.bit_offset \div 32 + 1 \in DOMAIN grown
            /\ DOMAIN bs.buffer \subseteq DOMAIN grown
            /\ \A w \in DOMAIN bs.buffer : grown[w] = bs.buffer[w]
            /\ \A w \in DOMAIN grown : grown[w] \in Words
<1> DEFINE pos == bs.bit_offset \div 32
           grown == Grown(bs, pos)
<1>1. PICK n \in Nat : DOMAIN bs.buffer = 0 .. n - 1 /\ pos < n
  BY DEF Sound, InMemory
<1>2. pos \in Nat
  BY SoundWord, Zenon
<1>3. Room(bs) = n
  BY <1>1, RoomOf
<1>4. \A w \in DOMAIN bs.buffer : bs.buffer[w] \in Words
  BY DEF Sound
<1>5. Repeat(bs.junk, 32) \in Words
  BY SoundWord DEF Repeat, Words
<1> HIDE DEF pos
<1>6. CASE pos + 1 = n
  <2>1. grown = [i \in 0 .. n + Stepping - 1 |->
                   IF i < n THEN bs.buffer[i] ELSE Repeat(bs.junk, 32)]
    BY <1>3, <1>6, Zenon DEF Grown
  <2>2. pos + 1 \in 0 .. n + Stepping - 1 /\ 0 .. n - 1 \subseteq 0 .. n + Stepping - 1
    BY <1>2, <1>6, SteppingAssumption
  <2>3. \A w \in 0 .. n - 1 : grown[w] = bs.buffer[w]
    BY <2>1, <2>2
  <2>4. ASSUME NEW w \in 0 .. n + Stepping - 1 PROVE grown[w] \in Words
    <3>1. CASE w < n
      <4>1. w \in 0 .. n - 1
        BY <3>1
      <4> QED
        BY <4>1, <2>3, <1>1, <1>4
    <3>2. CASE ~(w < n)
      BY <2>1, <3>2, <1>5
    <3> QED
      BY <3>1, <3>2
  <2>5. DOMAIN grown = 0 .. n + Stepping - 1
    BY <2>1
  <2> HIDE DEF grown
  <2> QED
    BY <2>2, <2>3, <2>4, <2>5, <1>1, Zenon DEF pos, grown
<1>7. CASE pos + 1 # n
  <2>1. grown = bs.buffer
    BY <1>3, <1>7 DEF Grown
  <2>2. pos + 1 \in 0 .. n - 1
    BY <1>1, <1>2, <1>7
  <2> HIDE DEF grown
  <2> QED
    BY <2>1, <2>2, <1>1, <1>4, Zenon DEF pos, grown
<1> QED
  BY <1>6, <1>7

LEMMA PutFull ==
  ASSUME NEW bs, Sound(bs), NEW v, NEW size \in 1 .. 32, FitsIn(v, size),
         size = 32 => bs.bit_offset = 0, 32 - (bs.bit_offset % 32) <= size
  PROVE  Sound(PutUi(bs, v, size)) /\ Behind(PutUi(bs, v, size), bs, v, size)
<1> DEFINE o == bs.bit_offset
           pos == o \div 32
           left == 32 - (o % 32)
           word == bs.buffer[pos]
           full == Or(ShiftLeft(word, left, bs.junk), ShiftRight(Bits(v, 32), size - left))
           grown == Grown(bs, pos)
           buffer == Spilled([grown EXCEPT ![pos] = va_swap32(full)], pos, v)
           after == PutUi(bs, v, size)
<1>1. /\ o \in Nat /\ pos \in Nat /\ left \in 1 .. 32 /\ o = 32 * pos + 32 - left
      /\ word \in Words /\ pos \in DOMAIN bs.buffer /\ bs.junk \in 0 .. 1
  BY SoundWord, Zenon
<1>2. after = [bs EXCEPT !.bit_offset = @ + size, !.buffer = buffer]
  <2>1. size # 0 /\ ~(left > size)
    BY <1>1
  <2> QED
    BY <2>1, Zenon DEF PutUi
<1>3. left <= size /\ (left = 32 => word = Repeat(0, 32))
  <2>1. left <= size
    OBVIOUS
  <2>2. ASSUME left = 32 PROVE word = Repeat(0, 32)
    <3>1. size = 32 /\ o = 0
      BY <2>1, <2>2
    <3>2. pos = 0
      BY <3>1
    <3> QED
      BY <3>1, <3>2 DEF Sound
  <2> QED
    BY <2>1, <2>2
<1>4. FullOf(full, word, v, size, left)
  <2> HIDE DEF o, pos, left, word
  <2> QED
    BY <1>1, <1>3, FullIs
<1>5. /\ pos + 1 \in DOMAIN grown /\ DOMAIN bs.buffer \subseteq DOMAIN grown
      /\ \A w \in DOMAIN bs.buffer : grown[w] = bs.buffer[w]
      /\ \A w \in DOMAIN grown : grown[w] \in Words
  BY GrownIs, Zenon
<1>6. /\ after.bit_offset = o + size /\ after.buffer = buffer /\ after.junk = bs.junk
  <2> HIDE DEF buffer, after
  <2> QED
    BY <1>2 DEF Sound, InMemory
<1>7. InMemory(after)
  <2>1. size \in 0 .. 32
    OBVIOUS
  <2> QED
    BY <2>1, PutUiStays DEF Sound
<1> HIDE DEF full, after, grown
<1>8. buffer = [[grown EXCEPT ![pos] = va_swap32(full)] EXCEPT ![pos + 1] = Bits(v, 32)]
  BY DEF Spilled
<1> HIDE DEF buffer
<1>9. /\ DOMAIN buffer = DOMAIN grown /\ buffer[pos] = va_swap32(full)
      /\ buffer[pos + 1] = Bits(v, 32)
      /\ \A w \in DOMAIN grown : w # pos /\ w # pos + 1 => buffer[w] = grown[w]
  <2> HIDE DEF pos
  <2> QED
    BY <1>1, <1>5, <1>8
<1> HIDE DEF left, word, pos
<1>10. full \in Words /\ va_swap32(full) \in Words /\ Bits(v, 32) \in Words
  BY <1>4, SwapIs, BitsIs DEF FullOf, FitsIn
<1>11. Sound(after)
  <2>1. \A w \in DOMAIN buffer : buffer[w] \in Words
    BY <1>1, <1>5, <1>9, <1>10
  <2>2. o + size # 0
    BY <1>1
  <2> HIDE DEF o
  <2> QED
    BY <1>1, <1>6, <1>7, <2>1, <2>2 DEF Sound
<1> HIDE DEF o
<1>12. o \div 32 = pos /\ o % 32 = 32 - left
  BY <1>1, InWord
<1>13. (o + size) \div 32 = pos + 1 /\ (o + size) % 32 = size - left
  <2>1. /\ o + size \in Nat /\ 32 - (size - left) \in 1 .. 32 /\ pos + 1 \in Nat
        /\ o + size = 32 * (pos + 1) + 32 - (32 - (size - left))
    BY <1>1, <1>3
  <2>2. (o + size) \div 32 = pos + 1 /\ (o + size) % 32 = 32 - (32 - (size - left))
    BY <2>1, InWord
  <2> QED
    BY <1>1, <2>2
<1>14. ASSUME NEW w \in Nat, NEW k \in 1 .. 32
       PROVE  /\ At(bs, w, k) = IF w < pos THEN va_swap32(bs.buffer[w])[k]
                                ELSE bs.buffer[w][32 - (32 - left) + k]
              /\ At(after, w, k) = IF w < pos + 1 THEN va_swap32(buffer[w])[k]
                                   ELSE buffer[w][32 - (size - left) + k]
  BY <1>6, <1>12, <1>13 DEF At, o
<1>15. \A k \in 1 .. 32 : va_swap32(va_swap32(full))[k] = full[k]
  BY <1>10, SwapBack
<1>16. ASSUME NEW w \in Nat, w < pos PROVE buffer[w] = bs.buffer[w]
  <2>1. PICK n \in Nat : DOMAIN bs.buffer = 0 .. n - 1
    BY DEF Sound, InMemory
  <2>2. w \in DOMAIN bs.buffer /\ w # pos /\ w # pos + 1
    BY <1>1, <1>16, <2>1
  <2> QED
    BY <2>2, <1>5, <1>9
<1>17. ASSUME NEW w \in Nat, NEW k \in 1 .. 32, 32 * w + k <= o
       PROVE  At(after, w, k) = At(bs, w, k)
  <2>1. CASE w < pos
    <3>1. w < pos + 1
      BY <2>1, <1>1
    <3> QED
      BY <2>1, <3>1, <1>14, <1>16
  <2>2. CASE ~(w < pos)
    <3>1. w = pos /\ k <= 32 - left /\ w < pos + 1
      BY <2>2, <1>1, <1>17
    <3>2. 32 - (32 - left) + k = k + left /\ k + left <= 32
      BY <1>1, <3>1
    <3>3. At(bs, w, k) = word[k + left]
      BY <2>2, <3>1, <3>2, <1>14 DEF word
    <3>4. At(after, w, k) = full[k]
      BY <3>1, <1>9, <1>14, <1>15
    <3> QED
      BY <3>2, <3>3, <3>4, <1>4 DEF FullOf
  <2> QED
    BY <2>1, <2>2
<1>18. ASSUME NEW w \in Nat, NEW k \in 1 .. 32, NEW m \in 1 .. size, 32 * w + k = o + m
       PROVE  At(after, w, k) = Bit(v, size - m)
  <2>1. CASE m <= left
    <3>1. w = pos /\ k = 32 - left + m /\ w < pos + 1
      BY <1>1, <1>18, <2>1
    <3>2. k + left > 32 /\ 32 - k + size - left = size - m
      BY <1>1, <3>1
    <3>3. At(after, w, k) = full[k]
      BY <3>1, <1>9, <1>14, <1>15
    <3> QED
      BY <3>2, <3>3, <1>4 DEF FullOf
  <2>2. CASE ~(m <= left)
    <3>1. w = pos + 1 /\ k = m - left /\ ~(w < pos + 1)
      BY <1>1, <1>3, <1>18, <2>2
    <3> DEFINE j == 32 - (size - left) + k
    <3>2. j \in 1 .. 32 /\ 32 - j = size - m
      BY <1>1, <1>3, <3>1
    <3>3. At(after, w, k) = buffer[w][j]
      BY <3>1, <1>14
    <3> HIDE DEF j
    <3>4. At(after, w, k) = Bits(v, 32)[j]
      BY <3>1, <3>3, <1>9
    <3>5. Bits(v, 32)[j] = Bit(v, 32 - j)
      BY <3>2, BitsIs DEF FitsIn
    <3> QED
      BY <3>2, <3>4, <3>5
  <2> QED
    BY <2>1, <2>2
<1> QED
  BY <1>6, <1>11, <1>17, <1>18 DEF Behind, o, after

LEMMA PutUiAppends ==
  ASSUME NEW bs, Sound(bs), NEW v, NEW size \in 0 .. 32, FitsIn(v, size),
         size = 32 => bs.bit_offset = 0
  PROVE  Sound(PutUi(bs, v, size)) /\ Behind(PutUi(bs, v, size), bs, v, size)
<1>1. CASE size = 0
  <2>1. PutUi(bs, v, size) = bs
    BY <1>1 DEF PutUi
  <2>2. bs.bit_offset = bs.bit_offset + size
    BY <1>1 DEF Sound, InMemory
  <2>3. 1 .. size = {}
    BY <1>1
  <2> QED
    BY <2>1, <2>2, <2>3, Zenon DEF Behind
<1>2. 32 - (bs.bit_offset % 32) \in 1 .. 32
  BY SoundWord, Zenon
<1>3. CASE size # 0 /\ 32 - (bs.bit_offset % 32) > size
  <2>1. size \in 1 .. 31
    BY <1>2, <1>3
  <2> QED
    BY <1>3, <2>1, PutLow
<1>4. CASE size # 0 /\ ~(32 - (bs.bit_offset % 32) > size)
  <2>1. size \in 1 .. 32 /\ 32 - (bs.bit_offset % 32) <= size
    BY <1>2, <1>4
  <2> QED
    BY <2>1, PutFull
<1> QED
  BY <1>1, <1>3, <1>4

-----------------------------------------------------------------------------
(* The same for the bits in memory.                                        *)

(* The n bits of old, and the size low bits of v behind them.              *)
Followed(new, old, n, v, size) ==
  /\ new \in [1 .. n + size -> 0 .. 1]
  /\ \A i \in 1 .. n : new[i] = old[i]
  /\ \A m \in 1 .. size : new[n + m] = Bit(v, size - m)

LEMMA WordOf ==
  ASSUME NEW i \in Nat, i >= 1
  PROVE  /\ (i - 1) \div 32 \in Nat /\ 1 + ((i - 1) % 32) \in 1 .. 32
         /\ i = 32 * ((i - 1) \div 32) + (1 + ((i - 1) % 32))
  OBVIOUS

(* No bit that was written is in a word behind the current one. *)
LEMMA StoredIs ==
  ASSUME NEW bs, Sound(bs)
  PROVE  /\ Stored(bs, FALSE) =
              [i \in 1 .. bs.bit_offset |-> At(bs, (i - 1) \div 32, 1 + ((i - 1) % 32))]
         /\ Stored(bs, FALSE) \in [1 .. bs.bit_offset -> 0 .. 1]
<1> DEFINE o == bs.bit_offset
           pos == o \div 32
           left == 32 - (o % 32)
           bits == Stored(bs, FALSE)
<1>1. bits = [i \in 1 .. o |-> At(bs, (i - 1) \div 32, 1 + ((i - 1) % 32))]
  BY Zenon DEF Stored, At
<1>2. /\ o \in Nat /\ pos \in Nat /\ left \in 1 .. 32 /\ o = 32 * pos + 32 - left
      /\ bs.buffer[pos] \in Words /\ pos \in DOMAIN bs.buffer /\ bs.junk \in 0 .. 1
  BY SoundWord, Zenon
<1> HIDE DEF bits
<1>3. ASSUME NEW i \in 1 .. o
      PROVE  At(bs, (i - 1) \div 32, 1 + ((i - 1) % 32)) \in 0 .. 1
  <2> DEFINE w == (i - 1) \div 32
             k == 1 + ((i - 1) % 32)
  <2>1. w \in Nat /\ k \in 1 .. 32 /\ i = 32 * w + k
    BY <1>2, WordOf
  <2> HIDE DEF w, k
  <2>2. CASE w < pos
    <3>1. PICK n \in Nat : DOMAIN bs.buffer = 0 .. n - 1
      BY DEF Sound, InMemory
    <3>2. w \in DOMAIN bs.buffer
      BY <1>2, <2>1, <2>2, <3>1
    <3>3. va_swap32(bs.buffer[w]) \in Words
      BY <3>2, SwapIs DEF Sound
    <3> QED
      BY <2>1, <2>2, <3>3 DEF At, Words, w, k
  <2>3. CASE ~(w < pos)
    <3>1. o % 32 = 32 - left
      BY <1>2, InWord
    <3> HIDE DEF left
    <3> HIDE DEF pos
    <3>2. w = pos /\ 32 - (o % 32) + k \in 1 .. 32
      BY <1>2, <2>1, <2>3, <3>1
    <3>3. At(bs, w, k) = bs.buffer[w][32 - (o % 32) + k]
      BY <2>3 DEF At, pos
    <3> QED
      BY <1>2, <3>2, <3>3 DEF Words, w, k
  <2> QED
    BY <2>2, <2>3
<1> QED
  BY <1>1, <1>3 DEF bits

LEMMA StoredFollows ==
  ASSUME NEW bs, Sound(bs), NEW after, Sound(after), NEW v, NEW size \in 0 .. 32,
         Behind(after, bs, v, size)
  PROVE  Followed(Stored(after, FALSE), Stored(bs, FALSE), bs.bit_offset, v, size)
<1> DEFINE o == bs.bit_offset
           old == Stored(bs, FALSE)
           new == Stored(after, FALSE)
<1>1. o \in Nat /\ after.bit_offset = o + size
  BY DEF Behind, Sound, InMemory
<1>2. /\ new = [i \in 1 .. o + size |-> At(after, (i - 1) \div 32, 1 + ((i - 1) % 32))]
      /\ new \in [1 .. o + size -> 0 .. 1]
  BY <1>1, StoredIs, Zenon
<1>3. old = [i \in 1 .. o |-> At(bs, (i - 1) \div 32, 1 + ((i - 1) % 32))]
  BY StoredIs, Zenon
<1> HIDE DEF old, new, o
<1>4. ASSUME NEW i \in 1 .. o PROVE new[i] = old[i]
  <2>1. i \in Nat /\ i >= 1 /\ i \in 1 .. o + size
    BY <1>1
  <2> DEFINE w == (i - 1) \div 32
             k == 1 + ((i - 1) % 32)
  <2>2. w \in Nat /\ k \in 1 .. 32 /\ 32 * w + k <= o
    BY <1>1, <2>1, WordOf
  <2>3. new[i] = At(after, w, k) /\ old[i] = At(bs, w, k)
    BY <1>2, <1>3, <2>1
  <2> HIDE DEF w, k
  <2> QED
    BY <2>2, <2>3 DEF Behind, o
<1>5. ASSUME NEW m \in 1 .. size PROVE new[o + m] = Bit(v, size - m)
  <2> DEFINE i == o + m
             w == (i - 1) \div 32
             k == 1 + ((i - 1) % 32)
  <2>1. i \in Nat /\ i >= 1 /\ i \in 1 .. o + size
    BY <1>1
  <2>2. i = o + m
    OBVIOUS
  <2> HIDE DEF i
  <2>3. w \in Nat /\ k \in 1 .. 32 /\ 32 * w + k = o + m
    BY <2>1, <2>2, WordOf
  <2>4. new[i] = At(after, w, k)
    BY <1>2, <2>1
  <2> HIDE DEF w, k
  <2> QED
    BY <2>2, <2>3, <2>4 DEF Behind, o
<1> QED
  BY <1>2, <1>4, <1>5 DEF Followed, o, old, new

(* The end of the stream changes no bit. *)
LEMMA EndKeeps ==
  ASSUME NEW bs, Sound(bs)
  PROVE  /\ Stored(End(bs), TRUE) = Stored(bs, FALSE)
         /\ End(bs).bit_offset = bs.bit_offset
<1> DEFINE o == bs.bit_offset
           pos == o \div 32
           left == 32 - (o % 32)
           word == bs.buffer[pos]
           swapped == va_swap32(ShiftLeft(word, left, bs.junk))
           after == End(bs)
<1>1. /\ o \in Nat /\ pos \in Nat /\ left \in 1 .. 32 /\ o = 32 * pos + 32 - left
      /\ word \in Words /\ pos \in DOMAIN bs.buffer /\ bs.junk \in 0 .. 1
  BY SoundWord, Zenon
<1>2. o % 32 = 32 - left
  BY <1>1
<1>3. after.bit_offset = o /\
      \A w \in Nat : w < pos => after.buffer[w] = bs.buffer[w]
  <2>1. CASE o % 32 = 0
    BY <2>1 DEF End
  <2>2. CASE o % 32 # 0
    <3>1. after = [bs EXCEPT !.buffer = [bs.buffer EXCEPT ![pos] = swapped]]
      BY <2>2 DEF End
    <3>2. after.bit_offset = o /\ after.buffer = [bs.buffer EXCEPT ![pos] = swapped]
      BY <3>1 DEF Sound, InMemory
    <3> HIDE DEF pos, after, swapped
    <3> QED
      BY <1>1, <3>2
  <2> QED
    BY <2>1, <2>2
<1>4. ASSUME left # 32, NEW k \in 1 .. 32 - left
      PROVE  va_swap32(after.buffer[pos])[k] = word[left + k]
  <2>1. o % 32 # 0
    BY <1>2, <1>4
  <2>2. after = [bs EXCEPT !.buffer = [bs.buffer EXCEPT ![pos] = swapped]]
    BY <2>1 DEF End
  <2>3. after.buffer = [bs.buffer EXCEPT ![pos] = swapped]
    BY <2>2 DEF Sound, InMemory
  <2> DEFINE shifted == ShiftLeft(word, left, bs.junk)
  <2> HIDE DEF pos, after, left, word, o
  <2>4. after.buffer[pos] = va_swap32(shifted)
    BY <1>1, <2>3
  <2>5. k \in 1 .. 32 /\ k + left <= 32 /\ k + left = left + k
    BY <1>1, <1>4
  <2>6. ShiftedUp(shifted, word, left)
    BY <1>1, ShiftLeftIs
  <2> HIDE DEF shifted
  <2> QED
    BY <2>4, <2>5, <2>6, SwapBack DEF ShiftedUp
<1> HIDE DEF pos, left, after
<1>5. ASSUME NEW i \in 1 .. o
      PROVE  va_swap32(after.buffer[(i - 1) \div 32])[1 + ((i - 1) % 32)] =
               At(bs, (i - 1) \div 32, 1 + ((i - 1) % 32))
  <2> DEFINE w == (i - 1) \div 32
             k == 1 + ((i - 1) % 32)
  <2>1. w \in Nat /\ k \in 1 .. 32 /\ i = 32 * w + k /\ i <= o
    BY <1>1, WordOf
  <2> HIDE DEF w, k
  <2>2. At(bs, w, k) = IF w < pos THEN va_swap32(bs.buffer[w])[k]
                       ELSE bs.buffer[w][32 - (o % 32) + k]
    BY DEF At, pos
  <2>3. CASE w < pos
    BY <1>3, <2>1, <2>2, <2>3 DEF w, k
  <2>4. CASE ~(w < pos)
    <3>1. w = pos /\ left # 32 /\ k \in 1 .. 32 - left /\ 32 - (o % 32) + k = left + k
      BY <1>1, <1>2, <2>1, <2>4
    <3> QED
      BY <1>4, <2>2, <2>4, <3>1 DEF w, k
  <2> QED
    BY <2>3, <2>4
<1>6. Stored(after, TRUE) =
        [i \in 1 .. o |-> va_swap32(after.buffer[(i - 1) \div 32])[1 + ((i - 1) % 32)]]
  BY <1>3, Zenon DEF Stored
<1>7. Stored(bs, FALSE) = [i \in 1 .. o |-> At(bs, (i - 1) \div 32, 1 + ((i - 1) % 32))]
  BY StoredIs, Zenon
<1>8. Stored(after, TRUE) = Stored(bs, FALSE)
  BY <1>5, <1>6, <1>7
<1> QED
  BY <1>3, <1>8, Zenon DEF after, o

LEMMA Part ==
  ASSUME NEW len \in Nat, NEW bits \in [1 .. len -> 0 .. 1], NEW at \in Nat, NEW n \in Nat,
         at + n <= len
  PROVE  /\ SubSeq(bits, at + 1, at + n) \in [1 .. n -> 0 .. 1]
         /\ Len(SubSeq(bits, at + 1, at + n)) = n
         /\ \A k \in 1 .. n : SubSeq(bits, at + 1, at + n)[k] = bits[at + k]
<1> DEFINE s == SubSeq(bits, at + 1, at + n)
<1>1. at + 1 \in Int /\ at + n \in Int /\ \A i \in at + 1 .. at + n : bits[i] \in 0 .. 1
  OBVIOUS
<1>2. /\ (IF at + 1 <= at + n THEN (at + n) - (at + 1) + 1 ELSE 0) = n
      /\ (at + n) - (at + 1) + 1 = n
  OBVIOUS
<1>3. /\ s \in Seq(0 .. 1) /\ Len(s) = n
      /\ \A k \in 1 .. n : s[k] = bits[(at + 1) + k - 1]
  BY <1>1, <1>2
<1>4. s \in [1 .. n -> 0 .. 1]
  BY <1>3, LenProperties, Zenon
<1> HIDE DEF s
<1>5. \A k \in 1 .. n : s[k] = bits[at + k]
  <2> SUFFICES ASSUME NEW k \in 1 .. n PROVE s[k] = bits[at + k]
    OBVIOUS
  <2>1. (at + 1) + k - 1 = at + k
    OBVIOUS
  <2> QED
    BY <1>3, <2>1
<1> QED
  BY <1>3, <1>4, <1>5, Zenon DEF s

(* The n bits of s are the low ones of v; p doubles n times.               *)
LowBits(s, n, v) == Len(s) = n /\ \A i \in 1 .. n : s[i] = Bit(v, n - i)
Doubles(p, n) == p \in [0 .. n -> Nat] /\ \A i \in 1 .. n : p[i] = 2 * p[i - 1]

(* The number of the low bits of v; p is what those above them stand for.  *)
LEMMA NumberOfBits ==
  ASSUME NEW v \in Values, NEW n \in Nat, NEW s, LowBits(s, n, v),
         NEW p, Doubles(p, n), p[0] = Rest(v, n)
  PROVE  Number(s) = v - p[n]
<1>0. /\ Len(s) = n /\ \A i \in 1 .. n : s[i] = Bit(v, n - i)
      /\ p \in [0 .. n -> Nat] /\ \A i \in 1 .. n : p[i] = 2 * p[i - 1]
  BY DEF LowBits, Doubles
<1> DEFINE g == [i \in 0 .. n |-> Rest(v, n - i) - p[i]]
<1>1. g[0] = 0
  <2>1. 0 \in 0 .. n /\ n - 0 = n /\ Rest(v, n) \in Nat
    BY RestIs
  <2> QED
    BY <2>1
<1>2. ASSUME NEW i \in 1 .. n PROVE g[i] = 2 * g[i - 1] + s[i]
  <2>1. n - i \in Nat /\ (n - i) + 1 = n - (i - 1) /\ i \in 0 .. n /\ i - 1 \in 0 .. n
    OBVIOUS
  <2>2. /\ Rest(v, n - i) \in Nat /\ Rest(v, (n - i) + 1) \in Nat
        /\ Rest(v, n - i) = 2 * Rest(v, (n - i) + 1) + Bit(v, n - i)
    BY <2>1, RestIs
  <2>3. Bit(v, n - i) \in 0 .. 1
    BY <2>1, BitIs
  <2>4. p[i] = 2 * p[i - 1] /\ p[i] \in Nat /\ p[i - 1] \in Nat
    BY <2>1, <1>0
  <2>5. g[i] = Rest(v, n - i) - p[i] /\ g[i - 1] = Rest(v, (n - i) + 1) - p[i - 1]
    BY <2>1
  <2>6. s[i] = Bit(v, n - i)
    BY <1>0
  <2> HIDE DEF g
  <2> DEFINE rest == Rest(v, n - i)
             above == Rest(v, (n - i) + 1)
             bit == Bit(v, n - i)
  <2>7. /\ rest \in Nat /\ above \in Nat /\ rest = 2 * above + bit /\ bit \in 0 .. 1
        /\ s[i] = bit /\ g[i] = rest - p[i] /\ g[i - 1] = above - p[i - 1]
    BY <2>2, <2>3, <2>5, <2>6, Zenon
  <2> HIDE DEF rest, above, bit
  <2> QED
    BY <2>4, <2>7
<1>3. DOMAIN g = 0 .. Len(s) /\ g = [i \in 0 .. Len(s) |-> g[i]] /\ Len(s) \in Nat
  BY <1>0
<1>4. g[n] = v - p[n]
  <2>1. n \in 0 .. n /\ n - n = 0
    OBVIOUS
  <2>2. Rest(v, 0) = v
    <3>1. 2^0 = 1 /\ v \in Nat
      BY DEF Values
    <3> QED
      BY <3>1 DEF Rest
  <2> QED
    BY <2>1, <2>2
<1> HIDE DEF g
<1>5. Number(s) = g[Len(s)]
  BY <1>0, <1>1, <1>2, <1>3, NumberIs
<1> QED
  BY <1>0, <1>4, <1>5

(* A number that fits has nothing above its bits. *)
LEMMA NoRest ==
  ASSUME NEW v, NEW size \in 0 .. 32, FitsIn(v, size)
  PROVE  Rest(v, size) = 0
<1>1. CASE size > 30
  BY <1>1 DEF Rest
<1>2. CASE size <= 30
  <2>1. size \in 0 .. 30 /\ v \in Nat /\ v < 2^size
    BY <1>2 DEF FitsIn, Values
  <2>2. 2^size \in Nat
    BY <2>1, PowerDoubles
  <2>3. ASSUME NEW d \in Nat, v < d PROVE v \div d = 0
    BY <2>1, <2>3
  <2> QED
    BY <1>2, <2>1, <2>2, <2>3 DEF Rest
<1> QED
  BY <1>1, <1>2

(* The size bits behind at are the low ones of v. *)
Coded(bits, at, v, size) == \A m \in 1 .. size : bits[at + m] = Bit(v, size - m)

LEMMA ReadUIs ==
  ASSUME NEW len \in Nat, NEW bits \in [1 .. len -> 0 .. 1], NEW at \in Nat,
         NEW v, NEW size \in 0 .. 32, FitsIn(v, size), at + size <= len,
         Coded(bits, at, v, size)
  PROVE  ReadU(bits, at, size) = [ok |-> TRUE, at |-> at + size, value |-> v]
<1> DEFINE s == SubSeq(bits, at + 1, at + size)
           p == [i \in 0 .. size |-> 0]
<1>1. v \in Values /\ size \in Nat /\ Len(bits) = len
  BY IsSeq DEF FitsIn
<1>2. Len(s) = size /\ \A m \in 1 .. size : s[m] = bits[at + m]
  BY <1>1, Part
<1>3. \A m \in 1 .. size : s[m] = Bit(v, size - m)
  BY <1>2 DEF Coded
<1>4. Doubles(p, size) /\ p[0] = Rest(v, size) /\ p[size] = 0
  BY NoRest DEF Doubles
<1> HIDE DEF s, p
<1>5. Number(s) = v - p[size]
  <2>1. LowBits(s, size, v)
    BY <1>2, <1>3 DEF LowBits
  <2> QED
    BY <1>1, <1>4, <2>1, NumberOfBits
<1>6. Number(s) = v
  BY <1>1, <1>4, <1>5 DEF Values, MaxInt
<1> QED
  BY <1>1, <1>6 DEF ReadU, s

(* What bitstream_put_ue() counts. *)
LEMMA BitLengthIs ==
  ASSUME NEW n \in 1 .. MaxInt
  PROVE  /\ BitLength(n) \in 1 .. 31
         /\ 2^(BitLength(n) - 1) <= n
         /\ FitsIn(n, BitLength(n))
<1> DEFINE S == {i \in 0 .. 30 : 2^i <= n}
           L == BitLength(n)
<1>1. n \in Nat /\ n > 0 /\ n \in Values /\ n \in Int
  BY DEF MaxInt, Values
<1>2. L \in 1 .. 31 /\ Cardinality(S) = L
  BY <1>1, BitLengthFits, Zenon DEF BitLength
<1> HIDE DEF L
<1>3. S \subseteq 0 .. 30 /\ IsFiniteSet(S)
  <2>1. IsFiniteSet(0 .. 30)
    <3>1. 0 \in Int /\ 30 \in Int
      OBVIOUS
    <3> QED
      BY <3>1, FS_Interval, Zenon
  <2>2. S \subseteq 0 .. 30
    BY DEF S
  <2> QED
    BY <2>1, <2>2, FS_Subset
<1>4. ASSUME NEW m \in 0 .. 30, 2^m <= n PROVE m + 1 <= L
  <2>1. 0 .. m \subseteq S
    <3> SUFFICES ASSUME NEW i \in 0 .. m PROVE i \in 0 .. 30 /\ 2^i <= n
      OBVIOUS
    <3>1. i \in Nat /\ m \in Nat /\ i <= m /\ m <= 31 /\ i \in 0 .. 30
      OBVIOUS
    <3>2. 2^i <= 2^m /\ 2^i \in Nat /\ 2^m \in Nat
      BY <3>1, PowersGrow
    <3> QED
      BY <1>1, <1>4, <3>1, <3>2
  <2>2. Cardinality(0 .. m) = m + 1
    <3>1. Cardinality(0 .. m) = IF 0 > m THEN 0 ELSE m - 0 + 1
      BY FS_Interval
    <3> QED
      BY <3>1
  <2>3. Cardinality(0 .. m) <= Cardinality(S)
    BY <1>3, <2>1, FS_Subset
  <2> QED
    BY <1>2, <2>2, <2>3
<1>5. ASSUME NEW m \in 0 .. 31, \A i \in 0 .. 30 : m <= i => ~(2^i <= n) PROVE L <= m
  <2>1. S \subseteq 0 .. m - 1
    <3> SUFFICES ASSUME NEW i \in 0 .. 30, 2^i <= n PROVE i \in 0 .. m - 1
      BY DEF S
    <3>1. ~(m <= i)
      BY <1>5
    <3> QED
      BY <3>1
  <2>2. IsFiniteSet(0 .. m - 1) /\ Cardinality(0 .. m - 1) = m
    <3>1. /\ IsFiniteSet(0 .. m - 1)
          /\ Cardinality(0 .. m - 1) = IF 0 > m - 1 THEN 0 ELSE (m - 1) - 0 + 1
      BY FS_Interval
    <3> QED
      BY <3>1
  <2>3. Cardinality(S) <= Cardinality(0 .. m - 1)
    BY <2>1, <2>2, FS_Subset
  <2> QED
    BY <1>2, <2>2, <2>3
<1> HIDE DEF S
<1>6. 2^(L - 1) <= n
  <2> SUFFICES ASSUME ~(2^(L - 1) <= n) PROVE FALSE
    OBVIOUS
  <2>1. L - 1 \in 0 .. 30 /\ L - 1 \in 0 .. 31
    BY <1>2
  <2>2. \A i \in 0 .. 30 : L - 1 <= i => ~(2^i <= n)
    <3> SUFFICES ASSUME NEW i \in 0 .. 30, L - 1 <= i PROVE ~(2^i <= n)
      OBVIOUS
    <3>1. L - 1 \in Nat /\ i \in Nat /\ i <= 31
      BY <2>1
    <3>2. 2^(L - 1) <= 2^i /\ 2^(L - 1) \in Nat /\ 2^i \in Nat
      BY <3>1, PowersGrow
    <3> QED
      BY <1>1, <3>2
  <2>3. L <= L - 1
    BY <1>5, <2>1, <2>2
  <2> QED
    BY <1>2, <2>3
<1>7. ASSUME L < 31 PROVE n < 2^L
  <2>1. L \in 0 .. 30
    BY <1>2, <1>7
  <2>2. 2^L \in Nat
    BY <2>1, PowerDoubles
  <2>3. ~(2^L <= n)
    <3> SUFFICES ASSUME 2^L <= n PROVE FALSE
      OBVIOUS
    <3>1. L + 1 <= L
      BY <1>4, <2>1
    <3> QED
      BY <1>2, <3>1
  <2> QED
    BY <1>1, <2>2, <2>3
<1> QED
  BY <1>1, <1>2, <1>6, <1>7 DEF FitsIn, L

LEMMA MinIs ==
  ASSUME NEW S, S \subseteq Int, NEW m \in S, \A y \in S : m <= y
  PROVE  Min(S) = m
<1> DEFINE x == CHOOSE x \in S : \A y \in S : x <= y
<1>1. x \in S /\ \A y \in S : x <= y
  OBVIOUS
<1>2. Min(S) = x
  BY Zenon DEF Min
<1> HIDE DEF x
<1>3. x <= m /\ m <= x /\ x \in Int /\ m \in Int
  BY <1>1
<1> QED
  BY <1>2, <1>3

(* The highest bit that is counted is set. *)
LEMMA TopBit ==
  ASSUME NEW n \in 1 .. MaxInt
  PROVE  Bit(n, BitLength(n) - 1) = 1 /\ Rest(n, BitLength(n) - 1) = 1
<1> DEFINE L == BitLength(n)
<1>1. L \in 1 .. 31 /\ 2^(L - 1) <= n /\ FitsIn(n, L)
  BY BitLengthIs
<1> HIDE DEF L
<1>2. /\ n \in Values /\ n \in Nat
      /\ L - 1 \in Nat /\ (L - 1) + 1 = L /\ L - 1 \in 0 .. 30 /\ L \in 0 .. 32
  BY <1>1 DEF Values, MaxInt
<1>3. Rest(n, L) = 0
  BY <1>1, <1>2, NoRest
<1>4. Rest(n, L - 1) = 2 * Rest(n, L) + Bit(n, L - 1) /\ Bit(n, L - 1) \in 0 .. 1
  BY <1>2, RestIs, BitIs
<1>5. 2^(L - 1) \in Nat /\ 2^(L - 1) >= 1
  BY <1>2, PowerDoubles
<1>6. ASSUME NEW d \in Nat, d >= 1, d <= n PROVE n \div d >= 1
  BY <1>2, <1>6
<1>7. Rest(n, L - 1) >= 1
  <2>1. Rest(n, L - 1) = n \div 2^(L - 1)
    BY <1>2 DEF Rest
  <2> QED
    BY <2>1, <1>1, <1>5, <1>6
<1> QED
  BY <1>3, <1>4, <1>7 DEF L

(* The code of ue(v): zeros, a one, and as many bits as there are zeros.   *)
Golomb(bits, at, v, next) ==
  LET size == BitLength(v + 1)
  IN /\ next = at + 2 * size - 1
     /\ \A m \in 1 .. size - 1 : bits[at + m] = 0
     /\ \A m \in 1 .. size : bits[at + size - 1 + m] = Bit(v + 1, size - m)

LEMMA ReadUeIs ==
  ASSUME NEW len \in Nat, NEW bits \in [1 .. len -> 0 .. 1], NEW at \in Nat,
         NEW v \in 0 .. MaxInt - 1, NEW next \in Nat, next <= len, Golomb(bits, at, v, next)
  PROVE  ReadUe(bits, at) = [ok |-> TRUE, at |-> next, value |-> v]
<1> DEFINE L == BitLength(v + 1)
           k == v + 1
           n == L - 1
           ones == {i \in at + 1 .. Len(bits) : bits[i] = 1}
           zeros == Min(ones) - at - 1
           info == ReadU(bits, Min(ones), zeros)
           s == SubSeq(bits, at + L + 1, at + L + n)
           p == [i \in 0 .. n |-> 2^i]
<1>1. k \in 1 .. MaxInt /\ k \in Values /\ v \in Nat /\ k = v + 1
  BY DEF Values, MaxInt
<1>2. L \in 1 .. 31 /\ FitsIn(k, L) /\ Bit(k, L - 1) = 1 /\ Rest(k, L - 1) = 1
  BY <1>1, BitLengthIs, TopBit
<1>3. /\ next = at + 2 * L - 1
      /\ \A m \in 1 .. L - 1 : bits[at + m] = 0
      /\ \A m \in 1 .. L : bits[at + L - 1 + m] = Bit(k, L - m)
  BY Zenon DEF Golomb
<1> HIDE DEF L, k
<1>4. Len(bits) = len
  BY IsSeq
<1>5. Min(ones) = at + L
  <2>1. at + L \in ones
    <3>1. at + L \in at + 1 .. Len(bits)
      BY <1>2, <1>3, <1>4
    <3>2. 1 \in 1 .. L /\ at + L - 1 + 1 = at + L
      BY <1>2
    <3>3. bits[at + L] = 1
      BY <1>2, <1>3, <3>2
    <3> QED
      BY <3>1, <3>3
  <2>2. ASSUME NEW y \in ones PROVE at + L <= y
    <3> SUFFICES ASSUME ~(at + L <= y) PROVE FALSE
      OBVIOUS
    <3>1. y - at \in 1 .. L - 1 /\ at + (y - at) = y
      BY <1>2
    <3>2. bits[at + (y - at)] = 0
      BY <1>3, <3>1
    <3> QED
      BY <3>1, <3>2
  <2>3. ones \subseteq Int
    OBVIOUS
  <2> HIDE DEF ones
  <2> QED
    BY <2>1, <2>2, <2>3, MinIs
<1>6. n \in 0 .. 30 /\ n \in Nat /\ L = n + 1 /\ at + L \in Nat /\ at + L + n = next
  BY <1>2, <1>3
<1>7. zeros = n
  <2> HIDE DEF ones
  <2> QED
    BY <1>2, <1>5
<1>8. info = [ok |-> TRUE, at |-> next, value |-> Number(s)]
  <2>1. info = ReadU(bits, at + L, n)
    BY <1>5, <1>7
  <2>2. at + L + n <= Len(bits)
    BY <1>4, <1>6
  <2> QED
    BY <2>1, <2>2, <1>6, Zenon DEF ReadU
<1>9. Number(s) = k - 2^n
  <2> HIDE DEF n
  <2>1. Len(s) = n /\ \A m \in 1 .. n : s[m] = bits[at + L + m]
    BY <1>6, Part
  <2> HIDE DEF s
  <2>2. ASSUME NEW m \in 1 .. n PROVE s[m] = Bit(k, n - m)
    <3>1. m + 1 \in 1 .. L /\ at + L - 1 + (m + 1) = at + L + m /\ L - (m + 1) = n - m
      BY <1>6
    <3>2. bits[at + L - 1 + (m + 1)] = Bit(k, L - (m + 1))
      BY <1>3, <3>1
    <3> QED
      BY <2>1, <3>1, <3>2
  <2>3. LowBits(s, n, k)
    BY <2>1, <2>2 DEF LowBits
  <2>4. Doubles(p, n)
    <3>1. ASSUME NEW i \in 0 .. n PROVE p[i] \in Nat
      <4>1. i \in 0 .. 30
        BY <1>6
      <4> QED
        BY <4>1, PowerDoubles
    <3>2. ASSUME NEW i \in 1 .. n PROVE p[i] = 2 * p[i - 1]
      <4>1. i - 1 \in 0 .. 30 /\ (i - 1) + 1 = i /\ i \in 0 .. n /\ i - 1 \in 0 .. n
        BY <1>6
      <4>2. 2^((i - 1) + 1) = 2 * 2^(i - 1)
        BY <4>1, PowerDoubles
      <4> QED
        BY <4>1, <4>2
    <3> QED
      BY <3>1, <3>2 DEF Doubles
  <2>5. p[0] = Rest(k, n) /\ p[n] = 2^n
    <3>1. 0 \in 0 .. n /\ n \in 0 .. n /\ 2^0 = 1
      BY <1>6
    <3>2. Rest(k, n) = 1
      BY <1>2 DEF n
    <3> QED
      BY <3>1, <3>2
  <2> HIDE DEF p
  <2> QED
    BY <1>1, <1>6, <2>3, <2>4, <2>5, NumberOfBits
<1>10. ones # {}
  <2>1. at + L \in at + 1 .. Len(bits)
    BY <1>2, <1>3, <1>4
  <2>2. 1 \in 1 .. L /\ at + L - 1 + 1 = at + L
    BY <1>2
  <2>3. bits[at + L] = 1
    BY <1>2, <1>3, <2>2
  <2> QED
    BY <2>1, <2>3
<1>11. ReadUe(bits, at) = [info EXCEPT !.value = 2^zeros - 1 + @]
  BY <1>10, Zenon DEF ReadUe
<1> HIDE DEF ones, info, zeros, n, s
<1>12. 2^n \in Nat
  BY <1>6, PowerDoubles
<1>13. ReadUe(bits, at) = [ok |-> TRUE, at |-> next, value |-> 2^n - 1 + Number(s)]
  BY <1>7, <1>8, <1>11
<1>14. 2^n - 1 + Number(s) = v
  BY <1>1, <1>9, <1>12
<1> QED
  BY <1>13, <1>14

Bitstring(bs) == Stored(bs, FALSE)

(* new has m bits, the first n of them those of old. *)
Extends(new, old, n, m) ==
  /\ new \in [1 .. m -> 0 .. 1] /\ n <= m
  /\ \A i \in 1 .. n : new[i] = old[i]

(* What the bits from at to next say. *)
Mapped(v) == IF v <= 0 THEN -2 * v ELSE 2 * v - 1

Encodes(bits, at, e, next) ==
  /\ e.type = "u" => /\ next = at + e.size
                     /\ Coded(bits, at, e.value, e.size)
  /\ e.type = "ue" => Golomb(bits, at, e.value, next)
  /\ e.type = "se" => Golomb(bits, at, Mapped(e.value), next)
  /\ e.type = "align" => /\ at <= next /\ next < at + 8 /\ next % 8 = 0
                         /\ \A i \in at + 1 .. next : bits[i] = e.value

LEMMA PutUiFollows ==
  ASSUME NEW bs, Sound(bs), NEW v, NEW size \in 0 .. 32, FitsIn(v, size),
         size = 32 => bs.bit_offset = 0
  PROVE  /\ Sound(PutUi(bs, v, size))
         /\ PutUi(bs, v, size).bit_offset = bs.bit_offset + size
         /\ Followed(Bitstring(PutUi(bs, v, size)), Bitstring(bs), bs.bit_offset, v, size)
<1>1. Sound(PutUi(bs, v, size)) /\ Behind(PutUi(bs, v, size), bs, v, size)
  BY PutUiAppends
<1> QED
  BY <1>1, StoredFollows DEF Behind, Bitstring

LEMMA NoBits ==
  ASSUME NEW k \in Nat
  PROVE  Bit(0, k) = 0
<1>1. 0 \in Values /\ 0 \in 0 .. 32 /\ (0 < 31 => 0 < 2^0) /\ 0 <= k
  BY DEF Values, MaxInt
<1> QED
  BY <1>1, HighBits

LEMMA ZeroFits ==
  ASSUME NEW size \in 0 .. 32
  PROVE  FitsIn(0, size)
<1>1. ASSUME size < 31 PROVE 0 < 2^size
  <2>1. size \in 0 .. 30
    BY <1>1
  <2>2. 2^size \in Nat /\ 2^size >= 1
    BY <2>1, PowerDoubles
  <2> QED
    BY <2>2
<1>2. 0 \in Values
  BY DEF Values, MaxInt
<1> QED
  BY <1>1, <1>2 DEF FitsIn

LEMMA PutUeEncodes ==
  ASSUME NEW bs, Sound(bs), NEW v \in 0 .. MaxInt - 1
  PROVE  LET after == PutUe(bs, v)
         IN /\ Sound(after)
            /\ Extends(Bitstring(after), Bitstring(bs), bs.bit_offset, after.bit_offset)
            /\ Golomb(Bitstring(after), bs.bit_offset, v, after.bit_offset)
<1> DEFINE o == bs.bit_offset
           k == v + 1
           L == BitLength(v + 1)
           n == L - 1
           mid == PutUi(bs, 0, n)
           after == PutUi(mid, k, L)
           s0 == Bitstring(bs)
           s1 == Bitstring(mid)
           s2 == Bitstring(after)
<1>1. PutUe(bs, v) = after
  BY Zenon DEF PutUe
<1>2. k \in 1 .. MaxInt /\ o \in Nat
  BY DEF MaxInt, Sound, InMemory
<1>3. L \in 1 .. 31 /\ FitsIn(k, L)
  BY <1>2, BitLengthIs
<1> HIDE DEF L
<1>4. /\ n \in 0 .. 32 /\ n # 32 /\ FitsIn(0, n)
      /\ L \in 0 .. 32 /\ L # 32 /\ n \in Nat /\ L = n + 1
  <2>1. n \in 0 .. 32 /\ n # 32 /\ L \in 0 .. 32 /\ L # 32 /\ n \in Nat /\ L = n + 1
    BY <1>3
  <2> QED
    BY <2>1, ZeroFits
<1> HIDE DEF n, k
<1>5. Sound(mid) /\ mid.bit_offset = o + n /\ Followed(s1, s0, o, 0, n)
  BY <1>4, PutUiFollows
<1> HIDE DEF mid
<1>6. /\ Sound(after) /\ after.bit_offset = mid.bit_offset + L
      /\ Followed(s2, s1, mid.bit_offset, k, L)
  BY <1>3, <1>4, <1>5, PutUiFollows
<1> HIDE DEF after, s0, s1, s2, o
<1>7. /\ after.bit_offset = o + 2 * L - 1
      /\ Followed(s2, s1, o + n, k, L)
  BY <1>2, <1>4, <1>5, <1>6
<1>8. s2 \in [1 .. o + n + L -> 0 .. 1]
  BY <1>7 DEF Followed
<1>9. o + n + L = o + 2 * L - 1 /\ o <= o + 2 * L - 1
  BY <1>2, <1>3, <1>4
<1>10. ASSUME NEW i \in 1 .. o PROVE s2[i] = s0[i]
  <2>1. i \in 1 .. o + n
    BY <1>2, <1>4
  <2> QED
    BY <2>1, <1>5, <1>7 DEF Followed
<1>11. ASSUME NEW m \in 1 .. n PROVE s2[o + m] = 0
  <2>1. o + m \in 1 .. o + n /\ n - m \in Nat
    BY <1>2, <1>4
  <2>2. s2[o + m] = s1[o + m] /\ s1[o + m] = Bit(0, n - m)
    BY <2>1, <1>5, <1>7 DEF Followed
  <2> QED
    BY <2>1, <2>2, NoBits
<1>12. ASSUME NEW m \in 1 .. L PROVE s2[o + L - 1 + m] = Bit(k, L - m)
  <2>1. o + L - 1 + m = (o + n) + m
    BY <1>2, <1>4
  <2>2. s2[(o + n) + m] = Bit(k, L - m)
    BY <1>7 DEF Followed
  <2> QED
    BY <2>1, <2>2
<1>13. Extends(s2, s0, o, after.bit_offset)
  BY <1>7, <1>8, <1>9, <1>10 DEF Extends
<1>14. Golomb(s2, o, v, after.bit_offset)
  BY <1>7, <1>11, <1>12, Zenon DEF Golomb, n, k, L
<1> QED
  BY <1>1, <1>6, <1>13, <1>14, Zenon DEF s0, s2, o

(* Filling with ones or zeros. *)
LEMMA SmallPowers ==
  ASSUME NEW l \in 0 .. 7
  PROVE  /\ 2^l \in {1, 2, 4, 8, 16, 32, 64, 128}
         /\ l < 7 => 2^l \in {1, 2, 4, 8, 16, 32, 64}
         /\ l > 0 => 2^l \in {2, 4, 8, 16, 32, 64, 128}
<1>0. l \in Int /\ 0 <= l /\ l <= 7
  OBVIOUS
<1>1. CASE l = 0 BY <1>1
<1>2. CASE l = 1 BY <1>2
<1>3. CASE l = 2 BY <1>3
<1>4. CASE l = 3 BY <1>4
<1>5. CASE l = 4 BY <1>5
<1>6. CASE l = 5 BY <1>6
<1>7. CASE l = 6 BY <1>7
<1>8. CASE l = 7 BY <1>8
<1> QED
  BY <1>0, <1>1, <1>2, <1>3, <1>4, <1>5, <1>6, <1>7, <1>8

LEMMA AllOnes ==
  ASSUME NEW l \in 1 .. 7, NEW k \in Nat, k < l
  PROVE  Bit(2^l - 1, k) = 1
<1>2. k \in 0 .. 7 /\ k < 7 /\ l \in 0 .. 7 /\ l > 0 /\ ~(k > 30)
  OBVIOUS
<1>3. ASSUME NEW d \in {1, 2, 4, 8, 16, 32, 64}, NEW n \in {1, 3, 7, 15, 31, 63, 127}, d <= n
      PROVE (n \div d) % 2 = 1
  BY <1>3
<1>4. 2^k \in {1, 2, 4, 8, 16, 32, 64} /\ 2^l - 1 \in {1, 3, 7, 15, 31, 63, 127}
  <2>1. 2^k \in {1, 2, 4, 8, 16, 32, 64} /\ 2^l \in {2, 4, 8, 16, 32, 64, 128}
    BY <1>2, SmallPowers
  <2> QED
    BY <2>1
<1>5. 2^k <= 2^l - 1
  <2>1. k \in Nat /\ k + 1 \in Nat /\ l \in Nat /\ k + 1 <= l /\ l <= 31 /\ k \in 0 .. 30
    OBVIOUS
  <2>2. 2^(k + 1) <= 2^l /\ 2^l \in Nat /\ 2^(k + 1) = 2 * 2^k /\ 2^k \in Nat /\ 2^k >= 1
    BY <2>1, PowersGrow, PowerDoubles
  <2> QED
    BY <2>2
<1> QED
  BY <1>2, <1>3, <1>4, <1>5 DEF Bit

LEMMA AlignEncodes ==
  ASSUME NEW bs, Sound(bs), NEW bit \in 0 .. 1
  PROVE  LET after == ByteAlign(bs, bit)
         IN /\ Sound(after)
            /\ Extends(Bitstring(after), Bitstring(bs), bs.bit_offset, after.bit_offset)
            /\ bs.bit_offset <= after.bit_offset /\ after.bit_offset < bs.bit_offset + 8
            /\ after.bit_offset % 8 = 0
            /\ \A i \in bs.bit_offset + 1 .. after.bit_offset : Bitstring(after)[i] = bit
<1> DEFINE o == bs.bit_offset
           left == 8 - (o % 8)
           fill == IF bit = 1 THEN 2^left - 1 ELSE 0
           after == ByteAlign(bs, bit)
<1>1. o \in Nat /\ left \in 1 .. 8 /\ (o + left) % 8 = 0 /\ (left = 8 => o % 8 = 0)
  <2>1. o \in Nat
    BY DEF Sound, InMemory
  <2> HIDE DEF o
  <2> QED
    BY <2>1
<1>2. CASE left = 8
  <2>1. after = bs
    BY <1>2 DEF ByteAlign
  <2>2. Bitstring(bs) \in [1 .. o -> 0 .. 1]
    BY StoredIs DEF Bitstring
  <2> HIDE DEF after
  <2>3. Extends(Bitstring(bs), Bitstring(bs), o, o)
    BY <1>1, <2>2 DEF Extends
  <2>4. o + 1 .. o = {} /\ o <= o /\ o < o + 8
    BY <1>1
  <2> QED
    BY <1>1, <1>2, <2>1, <2>3, <2>4 DEF after
<1>3. CASE left # 8
  <2>1. after = PutUi(bs, fill, left)
    BY <1>3, Zenon DEF ByteAlign
  <2>2. left \in 1 .. 7 /\ left \in 0 .. 32 /\ left # 32 /\ left < 31
    BY <1>1, <1>3
  <2> HIDE DEF left, after
  <2>3. FitsIn(fill, left)
    <3>1. CASE bit = 1
      <4>1. 2^left \in {2, 4, 8, 16, 32, 64, 128}
        <5>1. left \in 0 .. 7 /\ left > 0
          BY <2>2
        <5> QED
          BY <5>1, SmallPowers
      <4> QED
        BY <3>1, <4>1 DEF FitsIn, Values, MaxInt
    <3>2. CASE bit # 1
      BY <2>2, <3>2, ZeroFits
    <3> QED
      BY <3>1, <3>2
  <2>4. ASSUME NEW m \in 1 .. left PROVE Bit(fill, left - m) = bit
    <3>1. left - m \in Nat /\ left - m < left
      BY <2>2
    <3>2. CASE bit = 1
      BY <2>2, <3>1, <3>2, AllOnes
    <3>3. CASE bit = 0
      BY <3>1, <3>3, NoBits
    <3> QED
      BY <3>2, <3>3
  <2> HIDE DEF fill
  <2>5. Sound(after) /\ after.bit_offset = o + left
        /\ Followed(Bitstring(after), Bitstring(bs), o, fill, left)
    BY <2>1, <2>2, <2>3, PutUiFollows
  <2> HIDE DEF o
  <2>6. Extends(Bitstring(after), Bitstring(bs), o, o + left)
    BY <1>1, <2>2, <2>5 DEF Followed, Extends
  <2>7. ASSUME NEW i \in o + 1 .. o + left PROVE Bitstring(after)[i] = bit
    <3>1. i - o \in 1 .. left /\ o + (i - o) = i
      BY <1>1, <2>2
    <3>2. Bitstring(after)[o + (i - o)] = Bit(fill, left - (i - o))
      BY <2>5, <3>1 DEF Followed
    <3> QED
      BY <2>4, <3>1, <3>2
  <2>8. o <= o + left /\ o + left < o + 8
    BY <1>1, <2>2
  <2> QED
    BY <1>1, <2>5, <2>6, <2>7, <2>8 DEF o, after
<1> QED
  BY <1>2, <1>3

LEMMA MappedFits ==
  ASSUME NEW v \in -(2^30 - 1) .. 2^30 - 1
  PROVE  /\ Mapped(v) \in 0 .. MaxInt - 1 /\ v \in Int
         /\ v = IF Mapped(v) % 2 = 1 THEN (Mapped(v) + 1) \div 2 ELSE -(Mapped(v) \div 2)
<1> DEFINE b == 2^30
<1>1. b \in Int /\ MaxInt = b + (b - 1) /\ v \in -(b - 1) .. b - 1
  BY DEF MaxInt
<1> HIDE DEF b
<1>2. CASE v <= 0
  <2>1. Mapped(v) = -2 * v /\ v \in Int
    BY <1>1, <1>2 DEF Mapped
  <2>2. Mapped(v) = 2 * (-v) /\ -v \in Int
    BY <2>1
  <2>3. Mapped(v) % 2 = 0 /\ Mapped(v) \div 2 = -v
    BY <2>2
  <2> QED
    BY <1>1, <1>2, <2>1, <2>3
<1>3. CASE v > 0
  <2>1. Mapped(v) = 2 * v - 1 /\ v \in Int
    BY <1>1, <1>3 DEF Mapped
  <2>2. Mapped(v) % 2 = 1 /\ (Mapped(v) + 1) \div 2 = v
    BY <2>1
  <2> QED
    BY <1>1, <1>3, <2>1, <2>2
<1> QED
  BY <1>1, <1>2, <1>3

(* Every element is put as its code. *)
LEMMA PutEncodes ==
  ASSUME NEW bs, Sound(bs), NEW e \in Elements, Fits(e), e.size = 32 => bs.bit_offset = 0
  PROVE  LET after == Put(bs, e)
         IN /\ Sound(after)
            /\ Extends(Bitstring(after), Bitstring(bs), bs.bit_offset, after.bit_offset)
            /\ Encodes(Bitstring(after), bs.bit_offset, e, after.bit_offset)
<1>1. e.type \in {"u", "ue", "se", "align"} /\ e.size \in 0 .. 32
  BY DEF Elements
<1>2. CASE e.type = "u"
  <2> DEFINE after == PutUi(bs, e.value, e.size)
             s0 == Bitstring(bs)
             s1 == Bitstring(after)
             o == bs.bit_offset
  <2>1. Put(bs, e) = after
    BY <1>2 DEF Put
  <2>2. FitsIn(e.value, e.size)
    BY <1>2 DEF Fits, FitsIn, Values
  <2>3. Sound(after) /\ after.bit_offset = o + e.size /\ Followed(s1, s0, o, e.value, e.size)
    BY <1>1, <2>2, PutUiFollows
  <2>4. o \in Nat
    BY DEF Sound, InMemory
  <2> HIDE DEF after, s0, s1, o
  <2>5. Extends(s1, s0, o, after.bit_offset)
    <3> DEFINE size == e.size
    <3>1. size \in 0 .. 32 /\ after.bit_offset = o + size /\ Followed(s1, s0, o, e.value, size)
      BY <1>1, <2>3
    <3> HIDE DEF size
    <3>2. o <= o + size
      BY <2>4, <3>1
    <3> QED
      BY <3>1, <3>2, Zenon DEF Followed, Extends
  <2>6. Encodes(s1, o, e, after.bit_offset)
    BY <1>2, <2>3, Zenon DEF Followed, Encodes, Coded
  <2> QED
    BY <2>1, <2>3, <2>5, <2>6, Zenon DEF s0, s1, o
<1>3. CASE e.type = "ue"
  <2>1. Put(bs, e) = PutUe(bs, e.value)
    BY <1>3 DEF Put
  <2>2. e.value \in 0 .. MaxInt - 1
    BY <1>3 DEF Fits
  <2>3. /\ Sound(PutUe(bs, e.value))
        /\ Extends(Bitstring(PutUe(bs, e.value)), Bitstring(bs), bs.bit_offset,
                   PutUe(bs, e.value).bit_offset)
        /\ Golomb(Bitstring(PutUe(bs, e.value)), bs.bit_offset, e.value,
                  PutUe(bs, e.value).bit_offset)
    BY <2>2, PutUeEncodes, Zenon
  <2>4. Encodes(Bitstring(PutUe(bs, e.value)), bs.bit_offset, e, PutUe(bs, e.value).bit_offset)
    BY <1>3, <2>3, Zenon DEF Encodes
  <2> QED
    BY <2>1, <2>3, <2>4, Zenon
<1>4. CASE e.type = "se"
  <2> DEFINE v == Mapped(e.value)
  <2>1. Put(bs, e) = PutUe(bs, v)
    BY <1>4 DEF Put, PutSe, Mapped
  <2>2. v \in 0 .. MaxInt - 1
    BY <1>4, MappedFits DEF Fits
  <2> HIDE DEF v
  <2>3. /\ Sound(PutUe(bs, v))
        /\ Extends(Bitstring(PutUe(bs, v)), Bitstring(bs), bs.bit_offset, PutUe(bs, v).bit_offset)
        /\ Golomb(Bitstring(PutUe(bs, v)), bs.bit_offset, v, PutUe(bs, v).bit_offset)
    BY <2>2, PutUeEncodes, Zenon
  <2>4. Encodes(Bitstring(PutUe(bs, v)), bs.bit_offset, e, PutUe(bs, v).bit_offset)
    BY <1>4, <2>3, Zenon DEF Encodes, v
  <2> QED
    BY <2>1, <2>3, <2>4, Zenon
<1>5. CASE e.type = "align"
  <2> DEFINE after == ByteAlign(bs, e.value)
             o == bs.bit_offset
  <2>1. Put(bs, e) = after
    BY <1>5 DEF Put
  <2>2. e.value \in 0 .. 1
    BY <1>5 DEF Fits
  <2>3. /\ Sound(after)
        /\ Extends(Bitstring(after), Bitstring(bs), o, after.bit_offset)
        /\ o <= after.bit_offset /\ after.bit_offset < o + 8 /\ after.bit_offset % 8 = 0
        /\ \A i \in o + 1 .. after.bit_offset : Bitstring(after)[i] = e.value
    BY <2>2, AlignEncodes, Zenon
  <2> HIDE DEF after, o
  <2>4. Encodes(Bitstring(after), o, e, after.bit_offset)
    BY <1>5, <2>3, Zenon DEF Encodes
  <2> QED
    BY <2>1, <2>3, <2>4, Zenon DEF o
<1> QED
  BY <1>1, <1>2, <1>3, <1>4, <1>5

(* Every code is read as its element. *)
LEMMA CodeReads ==
  ASSUME NEW len \in Nat, NEW bits \in [1 .. len -> 0 .. 1], NEW at \in Nat, NEW e \in Elements,
         Fits(e), NEW next \in Nat, next <= len, Encodes(bits, at, e, next)
  PROVE  Read(bits, at, e) = [ok |-> TRUE, at |-> next, value |-> e.value]
<1>1. e.type \in {"u", "ue", "se", "align"} /\ e.size \in 0 .. 32
  BY DEF Elements
<1>2. CASE e.type = "u"
  <2>1. Read(bits, at, e) = ReadU(bits, at, e.size)
    BY <1>2 DEF Read
  <2>2. FitsIn(e.value, e.size)
    BY <1>2 DEF Fits, FitsIn, Values
  <2>3. next = at + e.size /\ Coded(bits, at, e.value, e.size)
    BY <1>2 DEF Encodes
  <2> DEFINE v == e.value
             size == e.size
  <2>4. size \in 0 .. 32 /\ FitsIn(v, size) /\ at + size <= len
        /\ Coded(bits, at, v, size)
    BY <1>1, <2>2, <2>3
  <2> HIDE DEF v, size
  <2>5. ReadU(bits, at, size) = [ok |-> TRUE, at |-> at + size, value |-> v]
    BY <2>4, ReadUIs
  <2> QED
    BY <2>1, <2>3, <2>5 DEF v, size
<1>3. CASE e.type = "ue"
  <2>1. Read(bits, at, e) = ReadUe(bits, at)
    BY <1>3 DEF Read
  <2>2. e.value \in 0 .. MaxInt - 1
    BY <1>3 DEF Fits
  <2>3. Golomb(bits, at, e.value, next)
    BY <1>3 DEF Encodes
  <2> QED
    BY <2>1, <2>2, <2>3, ReadUeIs
<1>4. CASE e.type = "se"
  <2> DEFINE v == Mapped(e.value)
  <2>1. Read(bits, at, e) = ReadSe(bits, at)
    BY <1>4 DEF Read
  <2>2. v \in 0 .. MaxInt - 1
        /\ e.value = IF v % 2 = 1 THEN (v + 1) \div 2 ELSE -(v \div 2)
    BY <1>4, MappedFits DEF Fits
  <2>3. Golomb(bits, at, v, next)
    BY <1>4 DEF Encodes
  <2> HIDE DEF v
  <2>4. ReadUe(bits, at) = [ok |-> TRUE, at |-> next, value |-> v]
    BY <2>2, <2>3, ReadUeIs
  <2>5. ReadSe(bits, at) = [[ok |-> TRUE, at |-> next, value |-> v] EXCEPT
                              !.value = IF @ % 2 = 1 THEN (@ + 1) \div 2 ELSE -(@ \div 2)]
    BY <2>4, Zenon DEF ReadSe
  <2> QED
    BY <2>1, <2>2, <2>5
<1>5. CASE e.type = "align"
  <2>1. Read(bits, at, e) = ReadAlign(bits, at, e.value)
    BY <1>5 DEF Read
  <2>2. /\ at <= next /\ next < at + 8 /\ next % 8 = 0
        /\ \A i \in at + 1 .. next : bits[i] = e.value
    BY <1>5 DEF Encodes
  <2>3. 8 * ((at + 7) \div 8) = next
    BY <2>2
  <2>4. Len(bits) = len
    BY IsSeq
  <2> QED
    BY <2>1, <2>2, <2>3, <2>4, Zenon DEF ReadAlign
<1> QED
  BY <1>1, <1>2, <1>3, <1>4, <1>5

-----------------------------------------------------------------------------
(* The bits are the codes of the first n elements, one behind the other;   *)
(* pos is where each of them ends.                                         *)
Placed(bits, len, es, n, pos) ==
  /\ pos \in [0 .. n -> 0 .. len] /\ pos[0] = 0 /\ pos[n] = len
  /\ \A k \in 1 .. n : pos[k - 1] <= pos[k] /\ Encodes(bits, pos[k - 1], es[k], pos[k])

(* Bits that are added behind change no code. *)
LEMMA GolombMore ==
  ASSUME NEW len \in Nat, NEW m \in Nat, NEW old, NEW new, Extends(new, old, len, m),
         NEW at \in Nat, NEW next \in 0 .. len, NEW v \in 0 .. MaxInt - 1, Golomb(old, at, v, next)
  PROVE  Golomb(new, at, v, next)
<1>1. \A i \in 1 .. next - at : new[at + i] = old[at + i]
  BY DEF Extends
<1> DEFINE L == BitLength(v + 1)
           k == v + 1
<1>2. L \in 1 .. 31
  <2>1. v + 1 \in 1 .. MaxInt
    BY DEF MaxInt
  <2> QED
    BY <2>1, BitLengthIs
<1>3. /\ next = at + 2 * L - 1
      /\ \A i \in 1 .. L - 1 : old[at + i] = 0
      /\ \A i \in 1 .. L : old[at + L - 1 + i] = Bit(k, L - i)
  BY Zenon DEF Golomb
<1> HIDE DEF L, k
<1>4. ASSUME NEW i \in 1 .. L - 1 PROVE new[at + i] = 0
  <2>1. i \in 1 .. next - at
    BY <1>2, <1>3
  <2> QED
    BY <1>1, <1>3, <2>1
<1>5. ASSUME NEW i \in 1 .. L PROVE new[at + L - 1 + i] = Bit(k, L - i)
  <2>1. L - 1 + i \in 1 .. next - at /\ at + (L - 1 + i) = at + L - 1 + i
    BY <1>2, <1>3
  <2> QED
    BY <1>1, <1>3, <2>1
<1> QED
  BY <1>3, <1>4, <1>5, Zenon DEF Golomb, L, k

LEMMA EncodesMore ==
  ASSUME NEW len \in Nat, NEW m \in Nat, NEW old, NEW new, Extends(new, old, len, m),
         NEW at \in Nat, NEW next \in 0 .. len, NEW e \in Elements, Fits(e),
         Encodes(old, at, e, next)
  PROVE  Encodes(new, at, e, next)
<1>1. \A i \in 1 .. len : new[i] = old[i]
  BY DEF Extends
<1>2. e.type \in {"u", "ue", "se", "align"} /\ e.size \in 0 .. 32
  BY DEF Elements
<1>3. CASE e.type = "u"
  <2> DEFINE size == e.size
  <2>1. next = at + size /\ Coded(old, at, e.value, size) /\ size \in 0 .. 32
    BY <1>2, <1>3 DEF Encodes
  <2> HIDE DEF size
  <2>2. ASSUME NEW i \in 1 .. size PROVE new[at + i] = old[at + i]
    <3>1. at + i \in 1 .. len
      BY <2>1
    <3> QED
      BY <1>1, <3>1
  <2>3. Coded(new, at, e.value, size)
    BY <2>1, <2>2 DEF Coded
  <2> QED
    BY <1>3, <2>1, <2>3 DEF Encodes, size
<1>4. CASE e.type = "ue"
  <2>1. e.value \in 0 .. MaxInt - 1 /\ Golomb(old, at, e.value, next)
    BY <1>4 DEF Fits, Encodes
  <2>2. Golomb(new, at, e.value, next)
    BY <2>1, GolombMore
  <2> QED
    BY <1>4, <2>2 DEF Encodes
<1>5. CASE e.type = "se"
  <2>1. Mapped(e.value) \in 0 .. MaxInt - 1 /\ Golomb(old, at, Mapped(e.value), next)
    BY <1>5, MappedFits DEF Fits, Encodes
  <2>2. Golomb(new, at, Mapped(e.value), next)
    BY <2>1, GolombMore
  <2> QED
    BY <1>5, <2>2 DEF Encodes
<1>6. CASE e.type = "align"
  <2>1. /\ at <= next /\ next < at + 8 /\ next % 8 = 0
        /\ \A i \in at + 1 .. next : old[i] = e.value
    BY <1>6 DEF Encodes
  <2>2. ASSUME NEW i \in at + 1 .. next PROVE new[i] = e.value
    <3>1. i \in 1 .. len
      OBVIOUS
    <3> QED
      BY <1>1, <2>1, <3>1
  <2> QED
    BY <1>6, <2>1, <2>2 DEF Encodes
<1> QED
  BY <1>2, <1>3, <1>4, <1>5, <1>6

(* One element more. *)
LEMMA PlacedMore ==
  ASSUME NEW len \in Nat, NEW m \in Nat, NEW old, NEW new, Extends(new, old, len, m),
         NEW es, NEW n \in Nat, \A k \in 1 .. n + 1 : es[k] \in Elements /\ Fits(es[k]),
         NEW pos, Placed(old, len, es, n, pos), Encodes(new, len, es[n + 1], m)
  PROVE  Placed(new, m, es, n + 1, [k \in 0 .. n + 1 |-> IF k <= n THEN pos[k] ELSE m])
<1> DEFINE next == [k \in 0 .. n + 1 |-> IF k <= n THEN pos[k] ELSE m]
<1>1. /\ pos \in [0 .. n -> 0 .. len] /\ pos[0] = 0 /\ pos[n] = len
      /\ \A k \in 1 .. n : pos[k - 1] <= pos[k] /\ Encodes(old, pos[k - 1], es[k], pos[k])
  BY DEF Placed
<1>2. len <= m
  BY DEF Extends
<1>3. /\ next[0] = 0 /\ next[n + 1] = m /\ next[n] = len
      /\ DOMAIN next = 0 .. n + 1 /\ next = [k \in 0 .. n + 1 |-> next[k]]
      /\ \A k \in 0 .. n : next[k] = pos[k] /\ next[k] \in 0 .. len
  BY <1>1
<1> HIDE DEF next
<1>4. next \in [0 .. n + 1 -> 0 .. m]
  <2>1. ASSUME NEW k \in 0 .. n + 1 PROVE next[k] \in 0 .. m
    <3>1. CASE k = n + 1
      BY <3>1, <1>3
    <3>2. CASE k # n + 1
      <4>1. k \in 0 .. n
        BY <3>2
      <4> QED
        BY <4>1, <1>2, <1>3
    <3> QED
      BY <3>1, <3>2
  <2> QED
    BY <2>1, <1>3
<1>5. ASSUME NEW k \in 1 .. n + 1
      PROVE  next[k - 1] <= next[k] /\ Encodes(new, next[k - 1], es[k], next[k])
  <2>1. CASE k = n + 1
    <3>1. k - 1 = n
      BY <2>1
    <3> QED
      BY <2>1, <3>1, <1>2, <1>3
  <2>2. CASE k # n + 1
    <3>1. k \in 1 .. n /\ k \in 0 .. n /\ k - 1 \in 0 .. n
      BY <2>2
    <3>2. pos[k - 1] <= pos[k] /\ Encodes(old, pos[k - 1], es[k], pos[k])
      BY <1>1, <3>1
    <3>3. pos[k - 1] \in Nat /\ pos[k] \in 0 .. len /\ es[k] \in Elements /\ Fits(es[k])
      BY <1>1, <3>1
    <3>4. Encodes(new, pos[k - 1], es[k], pos[k])
      BY <3>2, <3>3, EncodesMore
    <3> QED
      BY <1>3, <3>1, <3>2, <3>4
  <2> QED
    BY <2>1, <2>2
<1> QED
  BY <1>3, <1>4, <1>5, Zenon DEF Placed, next

(* The reader is where the elements end. *)
LEMMA PlacedReads ==
  ASSUME NEW len \in Nat, NEW bits \in [1 .. len -> 0 .. 1], NEW n \in Nat,
         NEW es, Len(es) = n, \A k \in 1 .. n : es[k] \in Elements /\ Fits(es[k]),
         NEW pos, Placed(bits, len, es, n, pos)
  PROVE  ReadsAs(bits, es)
<1> DEFINE Step(r, e) ==
             LET v == Read(bits, r.at, e)
             IN [ok |-> r.ok /\ v.ok /\ v.value = e.value, at |-> v.at]
           Body(r) == [k \in 0 .. Len(es) |->
                         IF k = 0 THEN [ok |-> TRUE, at |-> 0] ELSE Step(r[k - 1], es[k])]
           g == [k \in 0 .. n |-> [ok |-> TRUE, at |-> pos[k]]]
           reading == CHOOSE r : r = Body(r)
           S == {k \in Nat : k <= n => reading[k] = g[k]}
<1>1. /\ pos \in [0 .. n -> 0 .. len] /\ pos[0] = 0 /\ pos[n] = len
      /\ \A k \in 1 .. n : pos[k - 1] <= pos[k] /\ Encodes(bits, pos[k - 1], es[k], pos[k])
  BY DEF Placed
<1>2. Reading(bits, es) = reading
  BY Zenon DEF Reading
<1>3. ASSUME NEW k \in 1 .. n PROVE Step(g[k - 1], es[k]) = g[k]
  <2>1. k \in 0 .. n /\ k - 1 \in 0 .. n
    OBVIOUS
  <2> DEFINE at == pos[k - 1]
             next == pos[k]
             e == es[k]
             v == Read(bits, at, e)
  <2>2. /\ at \in Nat /\ next \in Nat /\ next <= len /\ e \in Elements /\ Fits(e)
        /\ Encodes(bits, at, e, next)
    BY <1>1, <2>1
  <2>3. g[k - 1].at = at /\ g[k - 1].ok = TRUE /\ g[k] = [ok |-> TRUE, at |-> next]
    BY <2>1
  <2>4. Step(g[k - 1], es[k]) =
          [ok |-> g[k - 1].ok /\ v.ok /\ v.value = e.value, at |-> v.at]
    BY <2>3, Zenon
  <2> HIDE DEF at, next, e, g, Step
  <2>5. v = [ok |-> TRUE, at |-> next, value |-> e.value]
    BY <2>2, CodeReads
  <2>6. (g[k - 1].ok /\ v.ok /\ v.value = e.value) = TRUE /\ v.at = next
    BY <2>3, <2>5
  <2> QED
    BY <2>3, <2>4, <2>6, Zenon
<1> HIDE DEF Step
<1>4. g[0] = [ok |-> TRUE, at |-> 0] /\ g[n] = [ok |-> TRUE, at |-> len]
  <2>1. 0 \in 0 .. n /\ n \in 0 .. n
    OBVIOUS
  <2> QED
    BY <1>1, <2>1
<1>5. g = Body(g)
  <2>1. \A k \in 0 .. n : g[k] = IF k = 0 THEN [ok |-> TRUE, at |-> 0] ELSE Step(g[k - 1], es[k])
    <3> SUFFICES ASSUME NEW k \in 0 .. n
                 PROVE  g[k] = IF k = 0 THEN [ok |-> TRUE, at |-> 0] ELSE Step(g[k - 1], es[k])
      OBVIOUS
    <3> HIDE DEF g
    <3>1. CASE k = 0
      BY <3>1, <1>4
    <3>2. CASE k # 0
      <4>1. k \in 1 .. n
        BY <3>2
      <4> QED
        BY <3>2, <4>1, <1>3
    <3> QED
      BY <3>1, <3>2
  <2>2. g = [k \in 0 .. n |-> g[k]]
    OBVIOUS
  <2> HIDE DEF g
  <2> QED
    BY <2>1, <2>2
<1>6. reading = Body(reading)
  BY <1>5, Zenon
<1> HIDE DEF reading
<1>7. ASSUME NEW k \in 0 .. n
      PROVE  reading[k] = IF k = 0 THEN [ok |-> TRUE, at |-> 0] ELSE Step(reading[k - 1], es[k])
  BY <1>6
<1> HIDE DEF Body, g
<1>8. 0 \in S
  BY <1>4, <1>7
<1>9. ASSUME NEW k \in Nat, k \in S PROVE k + 1 \in S
  <2> SUFFICES ASSUME k + 1 <= n PROVE reading[k + 1] = g[k + 1]
    OBVIOUS
  <2>1. /\ k + 1 \in 0 .. n /\ k + 1 \in 1 .. n /\ (k + 1) - 1 = k /\ k + 1 # 0
        /\ reading[k] = g[k]
    BY <1>9
  <2>2. reading[k + 1] = Step(reading[k], es[k + 1])
    BY <1>7, <2>1
  <2>3. Step(g[k], es[k + 1]) = g[k + 1]
    BY <1>3, <2>1
  <2> QED
    BY <2>1, <2>2, <2>3
<1>10. n \in S
  <2> HIDE DEF S
  <2>1. Nat \subseteq S
    BY <1>8, <1>9, Induction
  <2> QED
    BY <2>1
<1>11. reading[n] = g[n]
  BY <1>10
<1>12. Len(bits) = len
  BY IsSeq
<1> QED
  BY <1>2, <1>4, <1>11, <1>12, Zenon DEF ReadsAs

(* The first elements of a header. *)
LEMMA FirstElements ==
  ASSUME NEW S, NEW es \in Seq(S), NEW n \in 0 .. Len(es)
  PROVE  /\ Len(SubSeq(es, 1, n)) = n
         /\ \A k \in 1 .. n : SubSeq(es, 1, n)[k] = es[k]
<1>1. Len(es) \in Nat /\ \A i \in 1 .. n : es[i] \in S
  BY LenProperties
<1>2. 1 \in Int /\ n \in Int
  BY <1>1
<1> DEFINE s == SubSeq(es, 1, n)
<1>3. /\ Len(s) = IF 1 <= n THEN n - 1 + 1 ELSE 0
      /\ \A i \in 1 .. n - 1 + 1 : s[i] = es[1 + i - 1]
  BY <1>1, <1>2
<1> HIDE DEF s
<1>4. Len(s) = n /\ \A k \in 1 .. n : s[k] = es[k]
  <2>1. n - 1 + 1 = n /\ \A k \in 1 .. n : 1 + k - 1 = k
    BY <1>1
  <2> QED
    BY <1>1, <1>3, <2>1
<1> QED
  BY <1>4 DEF s

LEMMA PlacedFirst ==
  ASSUME NEW bits, NEW len, NEW es, NEW n \in Nat, NEW pos, Placed(bits, len, es, n, pos),
         NEW first, \A k \in 1 .. n : first[k] = es[k]
  PROVE  Placed(bits, len, first, n, pos)
  BY DEF Placed

LEMMA ElementsRead ==
  ASSUME NEW len \in Nat, NEW bits \in [1 .. len -> 0 .. 1], NEW es \in Seq(Elements),
         \A k \in 1 .. Len(es) : Fits(es[k]), NEW n \in 0 .. Len(es),
         NEW pos, Placed(bits, len, es, n, pos)
  PROVE  ReadsAs(bits, SubSeq(es, 1, n))
<1> DEFINE first == SubSeq(es, 1, n)
<1>1. n \in Nat /\ Len(es) \in Nat /\ \A k \in 1 .. n : k \in 1 .. Len(es)
  BY LenProperties
<1>2. Len(first) = n /\ \A k \in 1 .. n : first[k] = es[k]
  BY FirstElements
<1> HIDE DEF first
<1>3. \A k \in 1 .. n : first[k] \in Elements /\ Fits(first[k])
  <2>1. ASSUME NEW k \in 1 .. n PROVE es[k] \in Elements /\ Fits(es[k])
    <3>1. k \in 1 .. Len(es)
      BY <1>1
    <3> QED
      BY <3>1, ElementOfSeq
  <2> QED
    BY <2>1, <1>2
<1>4. Placed(bits, len, first, n, pos)
  BY <1>1, <1>2, PlacedFirst
<1>5. ReadsAs(bits, first)
  BY <1>1, <1>2, <1>3, <1>4, PlacedReads
<1> QED
  BY <1>5 DEF first

-----------------------------------------------------------------------------
(* Sequence and picture headers end with the filling up to a byte.         *)
IsSequence(s) == \E S : s \in Seq(S)

LEMMA ConcatLasts ==
  ASSUME NEW s, IsSequence(s), NEW t, IsSequence(t)
  PROVE  /\ IsSequence(s \o t) /\ Len(s) \in Nat /\ Len(t) \in Nat
         /\ Len(s \o t) = Len(s) + Len(t)
         /\ Len(t) > 0 => (s \o t)[Len(s \o t)] = t[Len(t)]
<1>1. PICK S : s \in Seq(S)
  BY DEF IsSequence
<1>2. PICK T : t \in Seq(T)
  BY DEF IsSequence
<1> DEFINE U == S \cup T
<1>3. s \in Seq(U) /\ t \in Seq(U)
  BY <1>1, <1>2, SeqMonotonic
<1> HIDE DEF U
<1> DEFINE st == s \o t
<1>4. /\ st \in Seq(U) /\ Len(st) = Len(s) + Len(t)
      /\ \A i \in 1 .. Len(s) + Len(t) : st[i] = IF i <= Len(s) THEN s[i] ELSE t[i - Len(s)]
  BY <1>3, ConcatProperties
<1>5. Len(s) \in Nat /\ Len(t) \in Nat
  BY <1>3, LenProperties
<1> HIDE DEF st
<1>6. ASSUME Len(t) > 0 PROVE st[Len(st)] = t[Len(t)]
  <2>1. /\ Len(st) \in 1 .. Len(s) + Len(t) /\ ~(Len(st) <= Len(s))
        /\ Len(st) - Len(s) = Len(t)
    BY <1>4, <1>5, <1>6
  <2> QED
    BY <1>4, <2>1
<1> QED
  BY <1>4, <1>5, <1>6 DEF IsSequence, st

LEMMA OneIs == ASSUME NEW a PROVE IsSequence(<< a >>)
<1>1. << a >> \in Seq({a})
  OBVIOUS
<1> QED
  BY <1>1, Zenon DEF IsSequence

LEMMA TrailingBits ==
  /\ IsSequence(rbsp_trailing_bits) /\ Len(rbsp_trailing_bits) = 2
  /\ rbsp_trailing_bits[Len(rbsp_trailing_bits)].type = "align"
<1> DEFINE a == u(1, 1)
           b == Align(0)
<1>1. rbsp_trailing_bits = << a, b >> /\ b.type = "align"
  BY DEF rbsp_trailing_bits, Align
<1> HIDE DEF a, b
<1>2. << a, b >> \in Seq({a, b}) /\ Len(<< a, b >>) = 2 /\ << a, b >>[2] = b
  OBVIOUS
<1> QED
  BY <1>1, <1>2 DEF IsSequence

LEMMA NalIs == ASSUME NEW a, NEW b PROVE IsSequence(Nal(a, b))
<1> DEFINE w == u(1, 32)
           x == u(0, 1)
           y == u(a, 2)
           z == u(b, 5)
<1>1. Nal(a, b) = << w, x, y, z >>
  BY DEF Nal
<1> HIDE DEF w, x, y, z
<1>2. << w, x, y, z >> \in Seq({w, x, y, z})
  OBVIOUS
<1> QED
  BY <1>1, <1>2 DEF IsSequence

(* Whatever a header begins with. *)
LEMMA EndsFilled ==
  ASSUME NEW nal, IsSequence(nal), NEW s, IsSequence(s)
  PROVE  LET h == nal \o (s \o rbsp_trailing_bits)
         IN Len(h) \in Nat /\ Len(h) > 0 /\ h[Len(h)].type = "align"
<1> DEFINE r == rbsp_trailing_bits
           sr == s \o r
           h == nal \o sr
<1>1. IsSequence(r) /\ Len(r) = 2 /\ r[Len(r)].type = "align"
  BY TrailingBits
<1> HIDE DEF r
<1>2. /\ IsSequence(sr) /\ Len(s) \in Nat /\ Len(sr) = Len(s) + Len(r)
      /\ sr[Len(sr)] = r[Len(r)]
  <2>1. Len(r) > 0
    BY <1>1
  <2> QED
    BY <1>1, <2>1, ConcatLasts
<1>3. Len(sr) \in Nat /\ Len(sr) > 0
  BY <1>1, <1>2
<1> HIDE DEF sr
<1>4. Len(nal) \in Nat /\ Len(h) = Len(nal) + Len(sr) /\ h[Len(h)] = sr[Len(sr)]
  BY <1>2, <1>3, ConcatLasts
<1>5. Len(h) \in Nat /\ Len(h) > 0
  BY <1>3, <1>4
<1> HIDE DEF h
<1> QED
  BY <1>1, <1>2, <1>4, <1>5 DEF h, sr, r

LEMMA ppsFilled ==
  ASSUME NEW p
  PROVE  LET h == Header("pps", p)
         IN Len(h) \in Nat /\ Len(h) > 0 /\ h[Len(h)].type = "align"
<1> DEFINE a01 == ue(p.pic_parameter_set_id)
           a02 == ue(p.seq_parameter_set_id)
           a03 == Flag(p.cabac)
           a04 == u(0, 1)
           a05 == ue(0)
           a06 == ue(p.num_ref_idx_l0_active_minus1)
           a07 == ue(p.num_ref_idx_l1_active_minus1)
           a09 == u(p.weighted_bipred_idc, 2)
           a10 == se(p.pic_init_qp - 26)
           a11 == se(0)
           a13 == Flag(p.deblocking)
           a16 == Flag(p.transform_8x8_mode_flag)
           a18 == se(p.second_chroma_qp_index_offset)
           s == << a01, a02, a03, a04, a05, a06, a07, a04, a09, a10, a11, a11, a13, a04, a04,
                   a16, a04, a18 >>
<1>1. Header("pps", p) = Nal(3, 8) \o (s \o rbsp_trailing_bits)
  BY DEF Header, pps_rbsp
<1> HIDE DEF a01, a02, a03, a04, a05, a06, a07, a09, a10, a11, a13, a16, a18
<1>2. s \in Seq({a01, a02, a03, a04, a05, a06, a07, a09, a10, a11, a13, a16, a18})
  OBVIOUS
<1>3. IsSequence(s)
  BY <1>2 DEF IsSequence
<1> HIDE DEF s
<1> DEFINE nal == Nal(3, 8)
           h == nal \o (s \o rbsp_trailing_bits)
<1>4. IsSequence(nal)
  BY NalIs
<1>5. Header("pps", p) = h
  BY <1>1
<1> HIDE DEF nal
<1>6. Len(h) \in Nat /\ Len(h) > 0 /\ h[Len(h)].type = "align"
  BY <1>3, <1>4, EndsFilled
<1> HIDE DEF h
<1> QED
  BY <1>5, <1>6

LEMMA JoinedSequence ==
  ASSUME NEW s, IsSequence(s), NEW t, IsSequence(t)
  PROVE  IsSequence(s \o t)
  BY ConcatLasts

LEMMA spsFilled ==
  ASSUME NEW s, s.crop \in Seq(Nat)
  PROVE  LET h == Header("sps", s)
         IN Len(h) \in Nat /\ Len(h) > 0 /\ h[Len(h)].type = "align"
<1> DEFINE profile == << u(s.profile_idc, 8) >>
           constraints == [i \in 1 .. 4 |-> u((s.constraintSetFlag \div 2^(i - 1)) % 2, 1)]
           level == << u(0, 4), u(s.level_idc, 8), ue(s.seq_parameter_set_id) >>
           high == << ue(1), ue(0), ue(0), u(0, 1), u(0, 1) >>
           chroma == If(s.profile_idc = 100, high)
           frames == << ue(s.log2_max_frame_num_minus4), ue(0),
                        ue(s.log2_max_pic_order_cnt_lsb_minus4),
                        ue(s.max_num_ref_frames), u(0, 1), ue(s.picture_width_in_mbs - 1),
                        ue(s.picture_height_in_mbs - 1), u(1, 1),
                        Flag(s.direct_8x8_inference_flag), Flag(s.crop # << >>) >>
           crops == [i \in DOMAIN s.crop |-> ue(s.crop[i])]
           vui == << u(0, 1) >>
           all == profile \o constraints \o level \o chroma \o frames \o crops \o vui
<1>1. Header("sps", s) = Nal(3, 7) \o (all \o rbsp_trailing_bits)
  BY Zenon DEF Header, sps_rbsp
<1>2. IsSequence(profile) /\ IsSequence(vui)
  BY OneIs, Zenon
<1>3. IsSequence(constraints)
  <2> DEFINE T == {constraints[i] : i \in 1 .. 4}
  <2>1. constraints \in [1 .. 4 -> T] /\ 4 \in Nat
    OBVIOUS
  <2> HIDE DEF constraints, T
  <2>2. constraints \in Seq(T)
    BY <2>1, IsSeq
  <2> QED
    BY <2>2 DEF IsSequence
<1>4. IsSequence(level)
  <2> DEFINE a == u(0, 4)
             b == u(s.level_idc, 8)
             c == ue(s.seq_parameter_set_id)
  <2>1. level = << a, b, c >>
    OBVIOUS
  <2> HIDE DEF a, b, c, level
  <2>2. << a, b, c >> \in Seq({a, b, c})
    OBVIOUS
  <2> QED
    BY <2>1, <2>2 DEF IsSequence
<1>5. IsSequence(chroma)
  <2> DEFINE a == ue(1)
             b == ue(0)
             c == u(0, 1)
  <2>1. high = << a, b, b, c, c >>
    OBVIOUS
  <2> HIDE DEF a, b, c, high
  <2>2. << a, b, b, c, c >> \in Seq({a, b, c}) /\ << >> \in Seq({a})
    OBVIOUS
  <2>3. chroma = high \/ chroma = << >>
    BY DEF If
  <2> HIDE DEF chroma
  <2> QED
    BY <2>1, <2>2, <2>3 DEF IsSequence
<1>6. IsSequence(frames)
  <2> DEFINE a == ue(s.log2_max_frame_num_minus4)
             b == ue(0)
             c == ue(s.log2_max_pic_order_cnt_lsb_minus4)
             d == ue(s.max_num_ref_frames)
             e == u(0, 1)
             f == ue(s.picture_width_in_mbs - 1)
             g == ue(s.picture_height_in_mbs - 1)
             h == u(1, 1)
             i == Flag(s.direct_8x8_inference_flag)
             j == Flag(s.crop # << >>)
  <2>1. frames = << a, b, c, d, e, f, g, h, i, j >>
    BY Zenon
  <2> HIDE DEF a, b, c, d, e, f, g, h, i, j, frames
  <2>2. << a, b, c, d, e, f, g, h, i, j >> \in Seq({a, b, c, d, e, f, g, h, i, j})
    OBVIOUS
  <2> QED
    BY <2>1, <2>2 DEF IsSequence
<1>7. IsSequence(crops)
  <2> DEFINE T == {crops[i] : i \in DOMAIN s.crop}
             n == Len(s.crop)
  <2>1. n \in Nat /\ DOMAIN s.crop = 1 .. n
    BY LenProperties
  <2>2. crops \in [1 .. n -> T]
    <3> HIDE DEF n
    <3> QED
      BY <2>1
  <2> HIDE DEF crops, T, n
  <2>3. crops \in Seq(T)
    BY <2>1, <2>2, IsSeq
  <2> QED
    BY <2>3 DEF IsSequence
<1> HIDE DEF profile, constraints, level, chroma, frames, crops, vui
<1>8. IsSequence(profile \o constraints)
  BY <1>2, <1>3, JoinedSequence
<1>9. IsSequence(profile \o constraints \o level)
  BY <1>4, <1>8, JoinedSequence
<1>10. IsSequence(profile \o constraints \o level \o chroma)
  BY <1>5, <1>9, JoinedSequence
<1>11. IsSequence(profile \o constraints \o level \o chroma \o frames)
  BY <1>6, <1>10, JoinedSequence
<1>12. IsSequence(profile \o constraints \o level \o chroma \o frames \o crops)
  BY <1>7, <1>11, JoinedSequence
<1>13. IsSequence(all)
  BY <1>2, <1>12, JoinedSequence
<1> HIDE DEF all
<1> DEFINE nal == Nal(3, 7)
           h == nal \o (all \o rbsp_trailing_bits)
<1>14. IsSequence(nal)
  BY NalIs
<1>15. Header("sps", s) = h
  BY <1>1
<1> HIDE DEF nal
<1>16. Len(h) \in Nat /\ Len(h) > 0 /\ h[Len(h)].type = "align"
  BY <1>13, <1>14, EndsFilled
<1> HIDE DEF h
<1> QED
  BY <1>15, <1>16

-----------------------------------------------------------------------------
(* The header that is written: what is in memory is the codes of the       *)
(* elements so far, and while it goes on the stream is sound.              *)
Ended == done > Len(HeaderOf)
Memory == Stored(out, Ended)

ReaderInv ==
  job.task = "header" =>
    /\ job \in Headers /\ done \in Nat /\ done <= Len(HeaderOf) + 1
    /\ ~Ended => Sound(out)
    /\ out.bit_offset \in Nat
    /\ Memory \in [1 .. out.bit_offset -> 0 .. 1]
    /\ \E pos : Placed(Memory, out.bit_offset, HeaderOf, Smaller(done, Len(HeaderOf)), pos)

LEMMA ElementsOf ==
  ASSUME NEW j \in Headers
  PROVE  LET es == Header(j.kind, j.header)
         IN /\ j.task = "header" /\ j.kind \in {"sps", "pps", "slice"} /\ j.junk \in 0 .. 1
            /\ es \in Seq(Elements) /\ Len(es) \in Nat
            /\ \A k \in 1 .. Len(es) :
                 es[k] \in Elements /\ Fits(es[k]) /\ (es[k].size = 32 => k = 1)
            /\ j.kind # "slice" => Len(es) > 0 /\ es[Len(es)].type = "align"
<1> DEFINE es == Header(j.kind, j.header)
<1>1. /\ j.task = "header" /\ j.kind \in {"sps", "pps", "slice"} /\ j.junk \in 0 .. 1
      /\ j.kind = "sps" => j.header.crop \in Seq(Nat)
      /\ es \in Seq(Elements)
      /\ \A k \in DOMAIN es : Fits(es[k]) /\ (es[k].size = 32 => k = 1)
  BY JobsAssumption, HeadersAssumption, ElementsAssumption, Zenon
<1>2. CASE j.kind = "sps"
  <2>1. es = Header("sps", j.header)
    BY <1>2
  <2> HIDE DEF es
  <2>2. Len(es) > 0 /\ es[Len(es)].type = "align"
    BY <1>1, <1>2, <2>1, spsFilled
  <2>3. /\ Len(es) \in Nat /\ DOMAIN es = 1 .. Len(es)
        /\ \A k \in 1 .. Len(es) : es[k] \in Elements
    BY <1>1, LenProperties, ElementOfSeq
  <2> QED
    BY <1>1, <2>2, <2>3, Zenon DEF es
<1>3. CASE j.kind = "pps"
  <2>1. es = Header("pps", j.header)
    BY <1>3
  <2> HIDE DEF es
  <2>2. Len(es) > 0 /\ es[Len(es)].type = "align"
    BY <2>1, ppsFilled
  <2>3. /\ Len(es) \in Nat /\ DOMAIN es = 1 .. Len(es)
        /\ \A k \in 1 .. Len(es) : es[k] \in Elements
    BY <1>1, LenProperties, ElementOfSeq
  <2> QED
    BY <1>1, <2>2, <2>3, Zenon DEF es
<1>4. CASE j.kind = "slice"
  <2> HIDE DEF es
  <2>3. /\ Len(es) \in Nat /\ DOMAIN es = 1 .. Len(es)
        /\ \A k \in 1 .. Len(es) : es[k] \in Elements
    BY <1>1, LenProperties, ElementOfSeq
  <2> QED
    BY <1>1, <1>4, <2>3, Zenon DEF es
<1> QED
  BY <1>1, <1>2, <1>3, <1>4

LEMMA StartSound ==
  ASSUME NEW junk \in 0 .. 1
  PROVE  /\ Sound(Start(junk)) /\ Start(junk).bit_offset = 0
         /\ Stored(Start(junk), FALSE) \in [1 .. 0 -> 0 .. 1]
<1> DEFINE bs == Start(junk)
<1>1. bs = [buffer |-> [i \in 0 .. Stepping - 1 |-> Repeat(0, 32)],
            bit_offset |-> 0, junk |-> junk]
  BY DEF Start
<1>2. 0 \in 0 .. Stepping - 1
  BY SteppingAssumption
<1>3. Repeat(0, 32) \in Words
  BY DEF Repeat, Words
<1>4. InMemory(bs)
  BY StartInMemory
<1> HIDE DEF bs
<1>5. bs.bit_offset = 0 /\ bs.junk = junk
      /\ bs.buffer = [i \in 0 .. Stepping - 1 |-> Repeat(0, 32)]
  BY <1>1
<1>6. Sound(bs)
  BY <1>2, <1>3, <1>4, <1>5 DEF Sound
<1>7. Stored(bs, FALSE) \in [1 .. 0 -> 0 .. 1]
  BY <1>5, <1>6, StoredIs
<1> QED
  BY <1>5, <1>6, <1>7 DEF bs

(* No element is placed yet. *)
LEMMA NonePlaced ==
  ASSUME NEW bits, NEW es
  PROVE  Placed(bits, 0, es, 0, [k \in 0 .. 0 |-> 0])
<1>1. 1 .. 0 = {}
  OBVIOUS
<1> QED
  BY <1>1 DEF Placed

LEMMA InitReader == Init => ReaderInv
<1> SUFFICES ASSUME Init, job.task = "header" PROVE ReaderInv
  BY DEF ReaderInv
<1>1. job \in Headers /\ out = Start(job.junk) /\ done = 0
  BY JobsAssumption DEF Init
<1>2. HeaderOf \in Seq(Elements) /\ Len(HeaderOf) \in Nat /\ job.junk \in 0 .. 1
  BY <1>1, ElementsOf DEF HeaderOf
<1>3. Ended = FALSE /\ done <= Len(HeaderOf) + 1 /\ Smaller(done, Len(HeaderOf)) = 0
  BY <1>1, <1>2 DEF Ended, Smaller
<1>4. Memory = Stored(out, FALSE)
  BY <1>3 DEF Memory
<1>5. Sound(out) /\ out.bit_offset = 0 /\ Memory \in [1 .. 0 -> 0 .. 1]
  BY <1>1, <1>2, <1>4, StartSound
<1>6. \E pos : Placed(Memory, 0, HeaderOf, 0, pos)
  BY NonePlaced
<1>7. job \in Headers /\ done \in Nat
  BY <1>1
<1> QED
  BY <1>3, <1>5, <1>6, <1>7 DEF ReaderInv

LEMMA WriteReader == ReaderInv /\ WriteElement => ReaderInv'
<1> SUFFICES ASSUME ReaderInv, WriteElement PROVE ReaderInv'
  OBVIOUS
<1> DEFINE es == HeaderOf
           e == es[done + 1]
           o == out.bit_offset
           bits == Memory
<1>1. /\ job.task = "header" /\ done < Len(es) /\ out' = Put(out, e) /\ done' = done + 1
      /\ job' = job
  BY DEF WriteElement
<1>2. /\ job \in Headers /\ done \in Nat /\ (~Ended => Sound(out)) /\ o \in Nat
      /\ bits \in [1 .. o -> 0 .. 1]
      /\ \E pos : Placed(bits, o, es, Smaller(done, Len(es)), pos)
  BY <1>1 DEF ReaderInv
<1>3. /\ es \in Seq(Elements) /\ Len(es) \in Nat
      /\ \A k \in 1 .. Len(es) : es[k] \in Elements /\ Fits(es[k]) /\ (es[k].size = 32 => k = 1)
  BY <1>2, ElementsOf, Zenon DEF HeaderOf
<1>4. es' = es
  BY <1>1 DEF HeaderOf
<1>5. Ended = FALSE /\ Ended' = FALSE /\ Smaller(done, Len(es)) = done
      /\ Smaller(done', Len(es')) = done + 1 /\ done' <= Len(es') + 1 /\ done' \in Nat
  BY <1>1, <1>2, <1>3, <1>4 DEF Ended, Smaller
<1>6. bits = Bitstring(out) /\ bits' = Bitstring(out') /\ Sound(out)
  BY <1>2, <1>5 DEF Memory, Bitstring
<1>7. PICK pos : Placed(bits, o, es, done, pos)
  BY <1>2, <1>5
<1> HIDE DEF es, bits, o
<1>8. done + 1 \in 1 .. Len(es) /\ e \in Elements /\ Fits(e) /\ (e.size = 32 => done + 1 = 1)
  BY <1>1, <1>2, <1>3
<1>9. e.size = 32 => o = 0
  <2>1. done + 1 = 1 => done = 0
    BY <1>2
  <2>2. pos[0] = 0 /\ pos[done] = o
    BY <1>7 DEF Placed
  <2> QED
    BY <1>8, <2>1, <2>2
<1> HIDE DEF e
<1>10. /\ Sound(out') /\ Extends(Bitstring(out'), bits, o, out'.bit_offset)
       /\ Encodes(Bitstring(out'), o, e, out'.bit_offset)
  BY <1>1, <1>6, <1>8, <1>9, PutEncodes, Zenon DEF o
<1>11. out'.bit_offset \in Nat
  BY <1>10 DEF Sound, InMemory
<1>12. \A k \in 1 .. done + 1 : es[k] \in Elements /\ Fits(es[k])
  BY <1>2, <1>3, <1>8
<1>13. \E next : Placed(Bitstring(out'), out'.bit_offset, es, done + 1, next)
  BY <1>2, <1>7, <1>10, <1>11, <1>12, PlacedMore, Zenon DEF e
<1>14. Bitstring(out') \in [1 .. out'.bit_offset -> 0 .. 1]
  BY <1>10 DEF Extends
<1>15. /\ job' \in Headers /\ ~Ended' /\ Memory' = Bitstring(out')
       /\ HeaderOf' = es
  BY <1>1, <1>2, <1>4, <1>5, <1>6 DEF bits, es
<1> QED
  BY <1>5, <1>10, <1>11, <1>13, <1>14, <1>15 DEF ReaderInv, es

LEMMA EndReader == ReaderInv /\ EndHeader => ReaderInv'
<1> SUFFICES ASSUME ReaderInv, EndHeader PROVE ReaderInv'
  OBVIOUS
<1> DEFINE es == HeaderOf
           o == out.bit_offset
<1>1. /\ job.task = "header" /\ done = Len(es) /\ out' = End(out) /\ done' = done + 1
      /\ job' = job
  BY DEF EndHeader
<1>2. /\ job \in Headers /\ done \in Nat /\ (~Ended => Sound(out)) /\ o \in Nat
      /\ Memory \in [1 .. o -> 0 .. 1]
      /\ \E pos : Placed(Memory, o, es, Smaller(done, Len(es)), pos)
  BY <1>1 DEF ReaderInv
<1>3. es' = es
  BY <1>1 DEF HeaderOf
<1>4. Ended = FALSE /\ Ended' = TRUE /\ Smaller(done, Len(es)) = done
      /\ Smaller(done', Len(es')) = done /\ done' <= Len(es') + 1 /\ done' \in Nat
  BY <1>1, <1>2, <1>3 DEF Ended, Smaller
<1>5. Memory = Stored(out, FALSE) /\ Memory' = Stored(out', TRUE) /\ Sound(out)
  BY <1>2, <1>4 DEF Memory
<1>6. Memory' = Memory /\ out'.bit_offset = o
  BY <1>1, <1>5, EndKeeps
<1> HIDE DEF o
<1>7. job' \in Headers /\ Ended' /\ HeaderOf' = HeaderOf
  BY <1>1, <1>2, <1>3, <1>4
<1> HIDE DEF es
<1>8. /\ out'.bit_offset \in Nat /\ Memory' \in [1 .. out'.bit_offset -> 0 .. 1]
      /\ \E pos : Placed(Memory', out'.bit_offset, HeaderOf',
                         Smaller(done', Len(HeaderOf')), pos)
  BY <1>2, <1>4, <1>6, <1>7 DEF es
<1> QED
  BY <1>4, <1>7, <1>8 DEF ReaderInv, es

LEMMA NextReader == ReaderInv /\ [Next]_vars => ReaderInv'
<1> SUFFICES ASSUME ReaderInv, [Next]_vars PROVE ReaderInv'
  OBVIOUS
<1>1. CASE WriteElement
  BY <1>1, WriteReader
<1>2. CASE EndHeader
  BY <1>2, EndReader
<1>3. CASE job.task # "header" /\ UNCHANGED job
  BY <1>3 DEF ReaderInv
<1>4. CASE UNCHANGED vars
  <2>1. job' = job /\ done' = done /\ out' = out
    BY <1>4 DEF vars
  <2>2. HeaderOf' = HeaderOf
    BY <2>1 DEF HeaderOf
  <2>3. Ended' = Ended
    BY <2>1, <2>2 DEF Ended
  <2>4. Memory' = Memory
    BY <2>1, <2>3 DEF Memory
  <2> QED
    BY <2>1, <2>2, <2>3, <2>4 DEF ReaderInv
<1>5. WriteElement \/ EndHeader \/ (job.task # "header" /\ UNCHANGED job) \/ UNCHANGED vars
  BY DEF Next, Convert, MoveBox, StartPointer, MovePointer, StopPointer, StartKeys,
         TypeKey, StopKeys, ChangeCursor, SendCursor
<1> QED
  BY <1>1, <1>2, <1>3, <1>4, <1>5

LEMMA ReaderReads == ReaderInv => HeaderReadsBack
<1> SUFFICES ASSUME ReaderInv, job.task = "header" PROVE HeaderReadsBack
  BY DEF HeaderReadsBack
<1> DEFINE es == HeaderOf
           o == out.bit_offset
           n == Smaller(done, Len(es))
<1>1. /\ job \in Headers /\ done \in Nat /\ done <= Len(es) + 1 /\ o \in Nat
      /\ Memory \in [1 .. o -> 0 .. 1]
  BY DEF ReaderInv
<1>2. PICK pos : Placed(Memory, o, es, n, pos)
  BY DEF ReaderInv
<1>3. /\ es \in Seq(Elements) /\ Len(es) \in Nat
      /\ \A k \in 1 .. Len(es) : es[k] \in Elements /\ Fits(es[k]) /\ (es[k].size = 32 => k = 1)
      /\ job.kind # "slice" => Len(es) > 0 /\ es[Len(es)].type = "align"
  BY <1>1, ElementsOf, Zenon DEF HeaderOf
<1> HIDE DEF es, o
<1>4. n \in 0 .. Len(es) /\ (done > Len(es) => n = Len(es))
  BY <1>1, <1>3 DEF Smaller
<1> HIDE DEF n
<1>5. ReadsAs(Memory, SubSeq(es, 1, n))
  <2>1. \A k \in 1 .. Len(es) : Fits(es[k])
    BY <1>3
  <2> QED
    BY <1>1, <1>2, <1>3, <1>4, <2>1, ElementsRead
<1>6. ASSUME done > Len(es), job.kind # "slice" PROVE o % 8 = 0
  <2>1. Len(es) \in 1 .. n /\ n = Len(es) /\ es[n].type = "align"
    BY <1>3, <1>4, <1>6
  <2>2. pos[n] = o /\ Encodes(Memory, pos[n - 1], es[n], pos[n])
    BY <1>2, <2>1 DEF Placed
  <2> QED
    BY <2>1, <2>2 DEF Encodes
<1> QED
  BY <1>5, <1>6 DEF HeaderReadsBack, Memory, Ended, es, o, n

(* Whatever the header and wherever its elements fall on the words: what   *)
(* is in memory, while it is written and when the stream has ended, is     *)
(* read as the elements that were put, with their values and nothing       *)
(* between them; sequence and picture headers end on a byte                *)
(* (VaBitstream::bitstream_put_ui, ..._ue, ..._se, ..._byte_aligning and   *)
(* ..._end).                                                               *)
THEOREM HeadersReadBack == Spec => []HeaderReadsBack
  BY InitReader, NextReader, ReaderReads, PTL DEF Spec

-----------------------------------------------------------------------------
(* Pictures: where the loops of the conversions are, and what is written.  *)

(* Division by any number, as the addresses need it. *)
LEMMA Multiple ==
  ASSUME NEW m \in Nat, NEW a \in Int, NEW b \in Int, a <= b
  PROVE  a * m \in Int /\ a * m <= b * m
  OBVIOUS

LEMMA Quotient ==
  ASSUME NEW m \in Nat, m > 0, NEW n \in Nat,
         NEW d, d = n \div m, NEW e, e = n % m
  PROVE  d \in Nat /\ e \in 0 .. m - 1 /\ n = d * m + e
<1>1. d \in Nat /\ e \in 0 .. m - 1
  OBVIOUS
<1>2. n = m * d + e
  BY <1>1
<1>3. m * d = d * m
  BY <1>1
<1> QED
  BY <1>1, <1>2, <1>3

LEMMA QuotientIs ==
  ASSUME NEW m \in Nat, m > 0, NEW q \in Nat, NEW r \in 0 .. m - 1
  PROVE  q * m + r \in Nat /\ (q * m + r) \div m = q /\ (q * m + r) % m = r
<1> DEFINE n == q * m + r
           d == n \div m
           e == n % m
<1>1. n \in Nat
  OBVIOUS
<1>2. d \in Nat /\ e \in 0 .. m - 1 /\ n = d * m + e
  <2> HIDE DEF n
  <2> QED
    BY <1>1, Quotient
<1>3. d * m + e = q * m + r
  BY <1>2
<1> HIDE DEF d, e, n
<1>4. (d + 1) * m = d * m + m /\ (q + 1) * m = q * m + m /\ d * m \in Int /\ q * m \in Int
  BY <1>2
<1>5. CASE d < q
  <2>1. (d + 1) * m <= q * m
    BY <1>2, <1>5, Multiple
  <2> QED
    BY <1>2, <1>3, <1>4, <2>1
<1>6. CASE q < d
  <2>1. (q + 1) * m <= d * m
    BY <1>2, <1>6, Multiple
  <2> QED
    BY <1>2, <1>3, <1>4, <2>1
<1>7. CASE d = q
  <2>1. e = r
    BY <1>2, <1>3, <1>4, <1>7
  <2> QED
    BY <1>1, <1>7, <2>1 DEF d, e, n
<1> QED
  BY <1>2, <1>5, <1>6, <1>7

(* Row by row. *)
LEMMA RowInside ==
  ASSUME NEW m \in Nat, NEW k \in Nat, NEW q \in 0 .. k - 1, NEW r \in 0 .. m - 1
  PROVE  q * m + r \in 0 .. k * m - 1
<1>1. (q + 1) * m <= k * m
  BY Multiple
<1>2. (q + 1) * m = q * m + m /\ q * m \in Nat /\ k * m \in Int
  OBVIOUS
<1> QED
  BY <1>1, <1>2

LEMMA RowOf ==
  ASSUME NEW m \in Nat, m > 0, NEW k \in Nat, NEW n \in 0 .. k * m - 1,
         NEW d, d = n \div m, NEW e, e = n % m
  PROVE  d \in 0 .. k - 1 /\ e \in 0 .. m - 1 /\ n = d * m + e
<1>0. k * m \in Int /\ n \in Nat
  OBVIOUS
<1>1. d \in Nat /\ e \in 0 .. m - 1 /\ n = d * m + e
  BY <1>0, Quotient
<1>2. d <= k - 1
  <2>1. SUFFICES ASSUME k <= d PROVE FALSE
    BY <1>1
  <2>2. k * m <= d * m /\ d * m \in Int
    BY <1>1, <2>1, Multiple
  <2> QED
    BY <1>0, <1>1, <2>2
<1> QED
  BY <1>1, <1>2

(* Both loops, so that what is known of one is known of the other. *)
Iteration(c, s) ==
  IF s.at.y < c.height
    THEN IF c.planes = 3 THEN YuvStep(c.picture, c.width, s)
         ELSE Nv12Step(c.picture, c.width, c.height, c.stride, c.stride, s)
    ELSE s

(* The states of a loop after 0 to n iterations. *)
Runs(c, start, n, f) ==
  /\ f = [k \in 0 .. n |-> f[k]]
  /\ f[0] = start
  /\ \A k \in 1 .. n : f[k] = Iteration(c, f[k - 1])

(* The same without end. *)
RunsOn(c, start, g) ==
  /\ g = [n \in Nat |-> g[n]]
  /\ g[0] = start
  /\ \A n \in Nat : g[n + 1] = Iteration(c, g[n])

(* A loop has a state after every number of iterations. *)
LEMMA LoopRuns ==
  ASSUME NEW c, NEW start
  PROVE  \E g : RunsOn(c, start, g)
<1> DEFINE S == {n \in Nat : \E f : Runs(c, start, n, f)}
           T(m, h) == {n \in Nat : \A f : n <= m /\ Runs(c, start, n, f) => f[n] = h[n]}
<1>1. 0 \in S
  <2> DEFINE f == [k \in 0 .. 0 |-> start]
  <2>1. Runs(c, start, 0, f)
    BY DEF Runs
  <2> QED
    BY <2>1
<1>2. ASSUME NEW n \in Nat, n \in S PROVE n + 1 \in S
  <2>1. PICK f : Runs(c, start, n, f)
    BY <1>2
  <2> DEFINE g == [k \in 0 .. n + 1 |-> IF k <= n THEN f[k] ELSE Iteration(c, f[n])]
  <2>2. g = [k \in 0 .. n + 1 |-> g[k]]
    OBVIOUS
  <2>3. g[0] = start
    BY <2>1 DEF Runs
  <2>4. ASSUME NEW k \in 1 .. n + 1 PROVE g[k] = Iteration(c, g[k - 1])
    <3>1. k - 1 \in 0 .. n /\ g[k - 1] = f[k - 1]
      OBVIOUS
    <3>2. CASE k <= n
      <4>1. k \in 1 .. n /\ g[k] = f[k]
        BY <3>2
      <4> QED
        BY <3>1, <4>1, <2>1 DEF Runs
    <3>3. CASE k = n + 1
      <4>1. k - 1 = n /\ g[k] = Iteration(c, f[n])
        BY <3>3
      <4> QED
        BY <3>1, <4>1
    <3> QED
      BY <3>2, <3>3
  <2> HIDE DEF g
  <2>5. Runs(c, start, n + 1, g)
    BY <2>2, <2>3, <2>4 DEF Runs
  <2> QED
    BY <2>5
<1>3. ASSUME NEW n \in Nat PROVE \E f : Runs(c, start, n, f)
  <2> HIDE DEF S
  <2>1. Nat \subseteq S
    BY <1>1, <1>2, Induction
  <2>2. n \in S
    BY <2>1
  <2> QED
    BY <2>2 DEF S
<1> DEFINE run(n) == CHOOSE f : Runs(c, start, n, f)
           g == [n \in Nat |-> run(n)[n]]
<1>4. ASSUME NEW n \in Nat PROVE Runs(c, start, n, run(n))
  BY <1>3, Zenon
<1> HIDE DEF run
<1>5. ASSUME NEW n \in Nat PROVE run(n + 1)[n] = run(n)[n]
  <2> DEFINE f == run(n + 1)
             h == run(n)
             U == {k \in Nat : k <= n => f[k] = h[k]}
  <2>1. Runs(c, start, n + 1, f) /\ Runs(c, start, n, h)
    BY <1>4
  <2> HIDE DEF f, h
  <2>2. 0 \in U
    BY <2>1 DEF Runs
  <2>3. ASSUME NEW k \in Nat, k \in U PROVE k + 1 \in U
    <3> SUFFICES ASSUME k + 1 <= n PROVE f[k + 1] = h[k + 1]
      OBVIOUS
    <3>1. k + 1 \in 1 .. n /\ k + 1 \in 1 .. n + 1 /\ (k + 1) - 1 = k /\ f[k] = h[k]
      BY <2>3
    <3>2. f[k + 1] = Iteration(c, f[(k + 1) - 1]) /\ h[k + 1] = Iteration(c, h[(k + 1) - 1])
      BY <2>1, <3>1 DEF Runs
    <3> QED
      BY <3>1, <3>2
  <2>4. n \in U
    <3> HIDE DEF U
    <3>1. Nat \subseteq U
      BY <2>2, <2>3, Induction
    <3> QED
      BY <3>1
  <2> QED
    BY <2>4 DEF f, h
<1>6. g[0] = start
  BY <1>4 DEF Runs
<1>7. ASSUME NEW n \in Nat PROVE g[n + 1] = Iteration(c, g[n])
  <2>1. n + 1 \in Nat /\ n + 1 \in 1 .. n + 1 /\ (n + 1) - 1 = n
    OBVIOUS
  <2>2. g[n + 1] = run(n + 1)[n + 1] /\ g[n] = run(n)[n]
    BY <2>1
  <2>3. run(n + 1)[n + 1] = Iteration(c, run(n + 1)[(n + 1) - 1])
    BY <1>4, <2>1 DEF Runs
  <2> QED
    BY <1>5, <2>1, <2>2, <2>3
<1>8. g = [n \in Nat |-> g[n]]
  OBVIOUS
<1> HIDE DEF g
<1>9. RunsOn(c, start, g)
  BY <1>6, <1>7, <1>8 DEF RunsOn
<1> QED
  BY <1>9

(* Where the loops are, in pictures of 2 * w by 2 * h pixels: at, the      *)
(* pixels taken, i, and the chroma bytes of a plane written, k.            *)
Visits(w, h, at, i, k) ==
  \/ \E c \in 0 .. h, b \in 0 .. w :
       /\ at = [x |-> 2 * b, y |-> 2 * c]
       /\ (c < h /\ b < w) \/ (c = h /\ b = 0)
       /\ i = 2 * c * (2 * w) + 2 * b /\ k = c * w + b
  \/ \E c \in 0 .. h - 1, b \in 0 .. 2 * w - 1 :
       /\ at = [x |-> b, y |-> 2 * c + 1]
       /\ i = (2 * c + 1) * (2 * w) + b /\ k = (c + 1) * w

LEMMA EvenVisit ==
  ASSUME NEW w \in Nat, w > 0, NEW h \in Nat, NEW c \in 0 .. h - 1, NEW b \in 0 .. w - 1
  PROVE  Visits(w, h, NextPixel(2 * b, 2 * c, 2 * w),
                2 * c * (2 * w) + 2 * b + 2, c * w + b + 1)
<1> DEFINE next == NextPixel(2 * b, 2 * c, 2 * w)
           i == 2 * c * (2 * w) + 2 * b
           k == c * w + b
<1>1. (2 * c) % 2 = 0 /\ b + 1 \in 0 .. w /\ c \in 0 .. h /\ b \in Nat
  OBVIOUS
<1>2. CASE b + 1 < w
  <2>1. 2 * b + 2 < 2 * w /\ 2 * b + 2 = 2 * (b + 1)
    BY <1>2
  <2>2. next = [x |-> 2 * (b + 1), y |-> 2 * c]
    BY <1>1, <2>1 DEF NextPixel
  <2>3. 2 * c * (2 * w) \in Int /\ c * w \in Int
    OBVIOUS
  <2>4. i + 2 = 2 * c * (2 * w) + 2 * (b + 1) /\ k + 1 = c * w + (b + 1)
    BY <2>3
  <2> HIDE DEF next, i, k
  <2>5. Visits(w, h, next, i + 2, k + 1)
    <3>1. \E c1 \in 0 .. h, b1 \in 0 .. w :
            /\ next = [x |-> 2 * b1, y |-> 2 * c1]
            /\ (c1 < h /\ b1 < w) \/ (c1 = h /\ b1 = 0)
            /\ i + 2 = 2 * c1 * (2 * w) + 2 * b1 /\ k + 1 = c1 * w + b1
      <4>1. c < h
        OBVIOUS
      <4> WITNESS c \in 0 .. h, b + 1 \in 0 .. w
      <4> QED
        BY <4>1, <1>2, <2>2, <2>4
    <3> QED
      BY <3>1 DEF Visits
  <2> QED
    BY <2>5 DEF next, i, k
<1>3. CASE b + 1 = w
  <2>1. ~(2 * b + 2 < 2 * w)
    BY <1>3
  <2>2. next = [x |-> 0, y |-> 2 * c + 1]
    BY <1>1, <2>1 DEF NextPixel
  <2>3. i + 2 = (2 * c + 1) * (2 * w) + 0
    <3>1. i + 2 = 2 * c * (2 * w) + 2 * w
      BY <1>3
    <3>2. (2 * c + 1) * (2 * w) = 2 * c * (2 * w) + 2 * w
      OBVIOUS
    <3>3. 2 * c * (2 * w) \in Int
      OBVIOUS
    <3> HIDE DEF i
    <3> QED
      BY <3>1, <3>2, <3>3
  <2>4. k + 1 = (c + 1) * w
    <3>1. (c + 1) * w = c * w + w /\ c * w \in Int
      OBVIOUS
    <3> QED
      BY <1>3, <3>1
  <2>5. 0 \in 0 .. 2 * w - 1
    OBVIOUS
  <2> HIDE DEF next, i, k
  <2>6. Visits(w, h, next, i + 2, k + 1)
    BY <2>2, <2>3, <2>4, <2>5 DEF Visits
  <2> QED
    BY <2>6 DEF next, i, k
<1> QED
  BY <1>1, <1>2, <1>3

LEMMA OddVisit ==
  ASSUME NEW w \in Nat, w > 0, NEW h \in Nat, NEW c \in 0 .. h - 1, NEW b \in 0 .. 2 * w - 1
  PROVE  Visits(w, h, NextPixel(b, 2 * c + 1, 2 * w),
                (2 * c + 1) * (2 * w) + b + 1, (c + 1) * w)
<1> DEFINE next == NextPixel(b, 2 * c + 1, 2 * w)
           i == (2 * c + 1) * (2 * w) + b
           k == (c + 1) * w
<1>1. (2 * c + 1) % 2 # 0 /\ (2 * c + 1) * (2 * w) \in Int /\ b \in Int
  OBVIOUS
<1>2. CASE b + 1 < 2 * w
  <2>2. next = [x |-> b + 1, y |-> 2 * c + 1]
    BY <1>1, <1>2 DEF NextPixel
  <2>3. i + 1 = (2 * c + 1) * (2 * w) + (b + 1)
    BY <1>1
  <2>4. b + 1 \in 0 .. 2 * w - 1
    BY <1>2
  <2> HIDE DEF next, i
  <2>5. Visits(w, h, next, i + 1, k)
    BY <2>2, <2>3, <2>4 DEF Visits
  <2> QED
    BY <2>5 DEF next, i
<1>3. CASE b + 1 = 2 * w
  <2>1. ~(b + 1 < 2 * w) /\ 2 * c + 1 + 1 = 2 * (c + 1)
    BY <1>3
  <2>2. next = [x |-> 2 * 0, y |-> 2 * (c + 1)]
    BY <1>1, <2>1 DEF NextPixel
  <2>3. i + 1 = 2 * (c + 1) * (2 * w) + 2 * 0
    <3>1. i + 1 = (2 * c + 1) * (2 * w) + 2 * w
      BY <1>1, <1>3
    <3>2. 2 * (c + 1) * (2 * w) = (2 * c + 1) * (2 * w) + 2 * w
      OBVIOUS
    <3>3. 2 * (c + 1) * (2 * w) \in Int
      OBVIOUS
    <3> HIDE DEF i
    <3> QED
      BY <3>1, <3>2, <3>3
  <2>4. k = (c + 1) * w + 0
    OBVIOUS
  <2>5. 0 \in 0 .. w /\ c + 1 \in 0 .. h /\ (c + 1 < h \/ c + 1 = h)
    OBVIOUS
  <2> HIDE DEF next, i, k
  <2>6. Visits(w, h, next, i + 1, k)
    BY <2>2, <2>3, <2>4, <2>5 DEF Visits
  <2> QED
    BY <2>6 DEF next, i, k
<1> QED
  BY <1>1, <1>2, <1>3

(* The pixel whose chroma is byte k of a plane.                            *)
Source(k, w) == 2 * (k \div w) * (2 * w) + 2 * (k % w)

(* Three planes of 4 * a, a and a bytes, of which the first i, k and k are *)
(* written.                                                                *)
PlanesHold(picture, w, a, memory, i, k) ==
  /\ DOMAIN memory = 0 .. i - 1 \cup 4 * a .. 4 * a + k - 1
                       \cup 5 * a .. 5 * a + k - 1
  /\ \A n \in 0 .. i - 1 : memory[n] = Luma(picture[n])
  /\ \A n \in 0 .. k - 1 : /\ memory[4 * a + n] = Cb(picture[Source(n, w)])
                           /\ memory[5 * a + n] = Cr(picture[Source(n, w)])

(* n is m with value v at p. *)
Adds(n, m, p, v) ==
  /\ DOMAIN n = {p} \cup DOMAIN m
  /\ n[p] = v
  /\ \A q \in DOMAIN m : q # p => n[q] = m[q]

LEMMA WriteAdds ==
  ASSUME NEW m, NEW p, NEW v
  PROVE  Adds(Write(m, p, v), m, p, v)
  BY DEF Write, Adds

(* Four bytes are written, none over another. *)
AddsFour(n, m, p1, v1, p2, v2, p3, v3, p4, v4) ==
  /\ DOMAIN n = {p1, p2, p3, p4} \cup DOMAIN m
  /\ n[p1] = v1 /\ n[p2] = v2 /\ n[p3] = v3 /\ n[p4] = v4
  /\ \A q \in DOMAIN m : q \notin {p1, p2, p3, p4} => n[q] = m[q]

LEMMA FourWritten ==
  ASSUME NEW m, NEW p1, NEW p2, NEW p3, NEW p4, NEW v1, NEW v2, NEW v3, NEW v4,
         p1 # p2, p1 # p3, p1 # p4, p2 # p3, p2 # p4, p3 # p4
  PROVE  AddsFour(Write(Write(Write(Write(m, p1, v1), p2, v2), p3, v3), p4, v4),
                  m, p1, v1, p2, v2, p3, v3, p4, v4)
<1> DEFINE m1 == Write(m, p1, v1)
           m2 == Write(m1, p2, v2)
           m3 == Write(m2, p3, v3)
           m4 == Write(m3, p4, v4)
<1>1. Adds(m1, m, p1, v1) /\ Adds(m2, m1, p2, v2) /\ Adds(m3, m2, p3, v3) /\ Adds(m4, m3, p4, v4)
  BY WriteAdds, Zenon
<1> HIDE DEF m1, m2, m3, m4
<1>2. /\ DOMAIN m1 = {p1} \cup DOMAIN m /\ DOMAIN m2 = {p1, p2} \cup DOMAIN m
      /\ DOMAIN m3 = {p1, p2, p3} \cup DOMAIN m
      /\ DOMAIN m4 = {p1, p2, p3, p4} \cup DOMAIN m
  BY <1>1 DEF Adds
<1>3. AddsFour(m4, m, p1, v1, p2, v2, p3, v3, p4, v4)
  BY <1>1, <1>2 DEF Adds, AddsFour
<1> QED
  BY <1>3, Zenon DEF m1, m2, m3, m4

LEMMA PairHeld ==
  ASSUME NEW picture, NEW w, NEW a \in Nat, NEW memory, NEW i \in Nat, NEW k \in Nat,
         PlanesHold(picture, w, a, memory, i, k),
         i + 1 < 4 * a, k < a, Source(k, w) = i
  PROVE  PlanesHold(picture, w, a,
           Write(Write(Write(Write(memory, i, Luma(picture[i])), 4 * a + k, Cb(picture[i])),
                       5 * a + k, Cr(picture[i])), i + 1, Luma(picture[i + 1])),
           i + 2, k + 1)
<1> DEFINE new == Write(Write(Write(Write(memory, i, Luma(picture[i])), 4 * a + k, Cb(picture[i])),
                       5 * a + k, Cr(picture[i])), i + 1, Luma(picture[i + 1]))
           cbAt == 4 * a + k
           crAt == 5 * a + k
           j == i + 1
           luma == Luma(picture[i])
           next == Luma(picture[j])
           cb == Cb(picture[i])
           cr == Cr(picture[i])
<1>1. i # cbAt /\ i # crAt /\ i # j /\ cbAt # crAt /\ cbAt # j /\ crAt # j
  OBVIOUS
<1>2. new = Write(Write(Write(Write(memory, i, luma), cbAt, cb), crAt, cr), j, next)
  OBVIOUS
<1>3. /\ DOMAIN memory = 0 .. i - 1 \cup 4 * a .. 4 * a + k - 1 \cup 5 * a .. 5 * a + k - 1
      /\ \A n \in 0 .. i - 1 : memory[n] = Luma(picture[n])
      /\ \A n \in 0 .. k - 1 : /\ memory[4 * a + n] = Cb(picture[Source(n, w)])
                               /\ memory[5 * a + n] = Cr(picture[Source(n, w)])
  BY DEF PlanesHold
<1> HIDE DEF new, cbAt, crAt, j, luma, next, cb, cr
<1>9. AddsFour(new, memory, i, luma, cbAt, cb, crAt, cr, j, next)
  BY <1>1, <1>2, FourWritten
<1>4. /\ DOMAIN new = {i, cbAt, crAt, j} \cup DOMAIN memory
      /\ new[i] = luma /\ new[cbAt] = cb /\ new[crAt] = cr /\ new[j] = next
      /\ \A q \in DOMAIN memory : q \notin {i, cbAt, crAt, j} => new[q] = memory[q]
  BY <1>9 DEF AddsFour
<1>8. DOMAIN new = 0 .. i + 2 - 1 \cup 4 * a .. 4 * a + (k + 1) - 1
                     \cup 5 * a .. 5 * a + (k + 1) - 1
  <2>1. 0 .. i + 2 - 1 = {i, j} \cup 0 .. i - 1
    BY DEF j
  <2>2. 4 * a .. 4 * a + (k + 1) - 1 = {cbAt} \cup 4 * a .. 4 * a + k - 1
    BY DEF cbAt
  <2>3. 5 * a .. 5 * a + (k + 1) - 1 = {crAt} \cup 5 * a .. 5 * a + k - 1
    BY DEF crAt
  <2> QED
    BY <1>3, <1>4, <2>1, <2>2, <2>3, Zenon
<1>5. ASSUME NEW n \in 0 .. i + 2 - 1 PROVE new[n] = Luma(picture[n])
  <2>1. CASE n \in 0 .. i - 1
    <3>1. n \in DOMAIN memory /\ n \notin {i, cbAt, crAt, j}
      BY <1>3, <2>1 DEF cbAt, crAt, j
    <3> QED
      BY <1>3, <1>4, <2>1, <3>1
  <2>2. CASE n = i \/ n = j
    BY <1>4, <2>2 DEF luma, next
  <2>3. n \in 0 .. i - 1 \/ n = i \/ n = j
    BY DEF j
  <2> QED
    BY <2>1, <2>2, <2>3
<1>6. ASSUME NEW n \in 0 .. (k + 1) - 1
      PROVE  /\ new[4 * a + n] = Cb(picture[Source(n, w)])
             /\ new[5 * a + n] = Cr(picture[Source(n, w)])
  <2>1. CASE n \in 0 .. k - 1
    <3> DEFINE q == 4 * a + n
               r == 5 * a + n
    <3>1. /\ q \in DOMAIN memory /\ q \notin {i, cbAt, crAt, j}
          /\ r \in DOMAIN memory /\ r \notin {i, cbAt, crAt, j}
      BY <1>3, <2>1 DEF cbAt, crAt, j
    <3>2. memory[q] = Cb(picture[Source(n, w)]) /\ memory[r] = Cr(picture[Source(n, w)])
      BY <1>3, <2>1
    <3> HIDE DEF q, r
    <3>3. new[q] = Cb(picture[Source(n, w)]) /\ new[r] = Cr(picture[Source(n, w)])
      BY <1>4, <3>1, <3>2
    <3> QED
      BY <3>3 DEF q, r
  <2>2. CASE n = k
    <3>1. 4 * a + n = cbAt /\ 5 * a + n = crAt /\ Source(n, w) = i
      BY <2>2 DEF cbAt, crAt
    <3> QED
      BY <1>4, <3>1 DEF cb, cr
  <2> QED
    BY <2>1, <2>2
<1>7. PlanesHold(picture, w, a, new, i + 2, k + 1)
  BY <1>5, <1>6, <1>8 DEF PlanesHold
<1> QED
  BY <1>7, Zenon DEF new, cbAt, crAt, j

LEMMA PixelHeld ==
  ASSUME NEW picture, NEW w, NEW a \in Nat, NEW memory, NEW i \in Nat, NEW k \in Nat,
         PlanesHold(picture, w, a, memory, i, k), i < 4 * a, k <= a
  PROVE  PlanesHold(picture, w, a, Write(memory, i, Luma(picture[i])), i + 1, k)
<1> DEFINE new == Write(memory, i, Luma(picture[i]))
<1>2. /\ DOMAIN new = {i} \cup DOMAIN memory
      /\ new[i] = Luma(picture[i])
      /\ \A q \in DOMAIN memory : q # i => new[q] = memory[q]
  <2>1. Adds(new, memory, i, Luma(picture[i]))
    BY WriteAdds
  <2> HIDE DEF new
  <2> QED
    BY <2>1 DEF Adds
<1> HIDE DEF new
<1>3. /\ DOMAIN memory = 0 .. i - 1 \cup 4 * a .. 4 * a + k - 1 \cup 5 * a .. 5 * a + k - 1
      /\ \A n \in 0 .. i - 1 : memory[n] = Luma(picture[n])
      /\ \A n \in 0 .. k - 1 : /\ memory[4 * a + n] = Cb(picture[Source(n, w)])
                               /\ memory[5 * a + n] = Cr(picture[Source(n, w)])
  BY DEF PlanesHold
<1>4. DOMAIN new = 0 .. i + 1 - 1 \cup 4 * a .. 4 * a + k - 1 \cup 5 * a .. 5 * a + k - 1
  BY <1>2, <1>3
<1>5. ASSUME NEW n \in 0 .. i + 1 - 1 PROVE new[n] = Luma(picture[n])
  BY <1>2, <1>3
<1>6. ASSUME NEW n \in 0 .. k - 1
      PROVE  /\ new[4 * a + n] = Cb(picture[Source(n, w)])
             /\ new[5 * a + n] = Cr(picture[Source(n, w)])
  <2>1. /\ 4 * a + n \in DOMAIN memory /\ 4 * a + n # i
        /\ 5 * a + n \in DOMAIN memory /\ 5 * a + n # i
    BY <1>3
  <2> QED
    BY <1>2, <1>3, <2>1
<1>7. PlanesHold(picture, w, a, new, i + 1, k)
  BY <1>4, <1>5, <1>6 DEF PlanesHold
<1> QED
  BY <1>7, Zenon DEF new

(* Between two iterations of rgba2Yuv(). *)
YuvSound(picture, w, h, s) ==
  /\ s.i \in Nat
  /\ \E k \in Nat :
       /\ Visits(w, h, s.at, s.i, k)
       /\ s.upos = 4 * (w * h) + k /\ s.vpos = 5 * (w * h) + k
       /\ PlanesHold(picture, w, w * h, s.memory, s.i, k)

(* In an even row two pixels and their chroma are still to come.           *)
LEMMA EvenRoom ==
  ASSUME NEW w \in Nat, w > 0, NEW h \in Nat, NEW c \in 0 .. h - 1, NEW b \in 0 .. w - 1
  PROVE  /\ 2 * c * (2 * w) + 2 * b \in Nat /\ 2 * c * (2 * w) + 2 * b + 1 < 4 * (w * h)
         /\ c * w + b \in Nat /\ c * w + b < w * h
         /\ Source(c * w + b, w) = 2 * c * (2 * w) + 2 * b
         /\ w * h \in Nat
<1>1. 2 * c \in 0 .. 2 * h - 1 /\ 2 * b + 1 \in 0 .. 2 * w - 1 /\ 2 * b \in 0 .. 2 * w - 1
      /\ 2 * w \in Nat /\ 2 * h \in Nat /\ c \in Nat /\ b \in Nat
  OBVIOUS
<1>2. /\ 2 * c * (2 * w) + (2 * b + 1) \in 0 .. 2 * h * (2 * w) - 1
      /\ 2 * c * (2 * w) + 2 * b \in 0 .. 2 * h * (2 * w) - 1
  BY <1>1, RowInside
<1>3. c * w + b \in 0 .. h * w - 1
  BY RowInside
<1>4. 2 * h * (2 * w) = 4 * (w * h) /\ h * w = w * h /\ w * h \in Nat
  OBVIOUS
<1>5. 2 * c * (2 * w) \in Int /\ c * w \in Int
  BY <1>1
<1>6. Source(c * w + b, w) = 2 * c * (2 * w) + 2 * b
  BY <1>1, QuotientIs DEF Source
<1> QED
  BY <1>1, <1>2, <1>3, <1>4, <1>5, <1>6

(* In an odd row a pixel is. *)
LEMMA OddRoom ==
  ASSUME NEW w \in Nat, w > 0, NEW h \in Nat, NEW c \in 0 .. h - 1, NEW b \in 0 .. 2 * w - 1
  PROVE  /\ (2 * c + 1) * (2 * w) + b \in Nat /\ (2 * c + 1) * (2 * w) + b < 4 * (w * h)
         /\ (c + 1) * w \in Nat /\ (c + 1) * w <= w * h
         /\ w * h \in Nat
<1>1. 2 * c + 1 \in 0 .. 2 * h - 1 /\ 2 * w \in Nat /\ 2 * h \in Nat /\ c + 1 \in Nat
  OBVIOUS
<1>2. (2 * c + 1) * (2 * w) + b \in 0 .. 2 * h * (2 * w) - 1
  BY <1>1, RowInside
<1>3. (c + 1) * w <= h * w
  BY Multiple
<1>4. 2 * h * (2 * w) = 4 * (w * h) /\ h * w = w * h /\ w * h \in Nat /\ (c + 1) * w \in Nat
  OBVIOUS
<1>5. (2 * c + 1) * (2 * w) \in Int
  BY <1>1
<1> QED
  BY <1>1, <1>2, <1>3, <1>4, <1>5

LEMMA YuvStepKeeps ==
  ASSUME NEW picture, NEW w \in Nat, w > 0, NEW h \in Nat, NEW s,
         YuvSound(picture, w, h, s), s.at.y < 2 * h
  PROVE  LET n == YuvStep(picture, 2 * w, s)
         IN YuvSound(picture, w, h, n) /\ n.i > s.i
<1> DEFINE a == w * h
           n == YuvStep(picture, 2 * w, s)
<1>1. PICK k \in Nat :
        /\ Visits(w, h, s.at, s.i, k)
        /\ s.upos = 4 * a + k /\ s.vpos = 5 * a + k
        /\ PlanesHold(picture, w, a, s.memory, s.i, k)
  BY DEF YuvSound
<1>2. s.i \in Nat
  BY DEF YuvSound
<1>3. ASSUME \E c \in 0 .. h, b \in 0 .. w :
             /\ s.at = [x |-> 2 * b, y |-> 2 * c]
             /\ (c < h /\ b < w) \/ (c = h /\ b = 0)
             /\ s.i = 2 * c * (2 * w) + 2 * b /\ k = c * w + b
      PROVE  YuvSound(picture, w, h, n) /\ n.i > s.i
  <2>1. PICK c \in 0 .. h, b \in 0 .. w :
             /\ s.at = [x |-> 2 * b, y |-> 2 * c]
             /\ (c < h /\ b < w) \/ (c = h /\ b = 0)
             /\ s.i = 2 * c * (2 * w) + 2 * b /\ k = c * w + b
    BY <1>3
  <2>2. c # h
    BY <2>1
  <2>3. c \in 0 .. h - 1 /\ b \in 0 .. w - 1
    BY <2>1, <2>2
  <2>4. /\ s.i + 1 < 4 * a /\ k < a /\ a \in Nat /\ Source(k, w) = s.i
    <3>1. /\ 2 * c * (2 * w) + 2 * b + 1 < 4 * (w * h)
          /\ c * w + b < w * h
          /\ Source(c * w + b, w) = 2 * c * (2 * w) + 2 * b
          /\ w * h \in Nat
      BY <2>3, EvenRoom
    <3> QED
      BY <2>1, <3>1
  <2>5. Visits(w, h, NextPixel(2 * b, 2 * c, 2 * w), s.i + 2, k + 1)
    BY <2>1, <2>3, EvenVisit
  <2>6. (2 * c) % 2 = 0 /\ s.at.x = 2 * b /\ s.at.y = 2 * c
    BY <2>1, <2>3
  <2> DEFINE memory == Write(Write(Write(Write(s.memory, s.i, Luma(picture[s.i])),
                                         4 * a + k, Cb(picture[s.i])),
                                   5 * a + k, Cr(picture[s.i])),
                             s.i + 1, Luma(picture[s.i + 1]))
  <2> HIDE DEF a
  <2>7. PlanesHold(picture, w, a, memory, s.i + 2, k + 1)
    BY <1>1, <1>2, <2>4, PairHeld
  <2>8. n = [at |-> NextPixel(2 * b, 2 * c, 2 * w), i |-> s.i + 2,
             upos |-> s.upos + 1, vpos |-> s.vpos + 1, memory |-> memory]
    BY <1>1, <2>6 DEF YuvStep, NextChroma
  <2> HIDE DEF memory, n
  <2>9. n.i = s.i + 2 /\ n.upos = 4 * a + (k + 1) /\ n.vpos = 5 * a + (k + 1)
        /\ n.at = NextPixel(2 * b, 2 * c, 2 * w) /\ n.memory = memory
    BY <1>1, <2>4, <2>8
  <2>10. k + 1 \in Nat /\ n.i \in Nat /\ n.i > s.i
    BY <1>2, <2>9
  <2> QED
    BY <2>5, <2>7, <2>9, <2>10 DEF YuvSound, a
<1>4. ASSUME \E c \in 0 .. h - 1, b \in 0 .. 2 * w - 1 :
             /\ s.at = [x |-> b, y |-> 2 * c + 1]
             /\ s.i = (2 * c + 1) * (2 * w) + b /\ k = (c + 1) * w
      PROVE  YuvSound(picture, w, h, n) /\ n.i > s.i
  <2>1. PICK c \in 0 .. h - 1, b \in 0 .. 2 * w - 1 :
             /\ s.at = [x |-> b, y |-> 2 * c + 1]
             /\ s.i = (2 * c + 1) * (2 * w) + b /\ k = (c + 1) * w
    BY <1>4
  <2>2. c \in 0 .. h /\ b \in Nat
    OBVIOUS
  <2>3. c \in Nat
    OBVIOUS
  <2>4. s.i < 4 * a /\ k <= a /\ a \in Nat
    BY <2>1, <2>3, OddRoom
  <2>5. Visits(w, h, NextPixel(b, 2 * c + 1, 2 * w), s.i + 1, k)
    BY <2>1, <2>3, OddVisit
  <2>6. (2 * c + 1) % 2 # 0 /\ s.at.x = b /\ s.at.y = 2 * c + 1
    BY <2>1, <2>3
  <2> DEFINE memory == Write(s.memory, s.i, Luma(picture[s.i]))
  <2> HIDE DEF a
  <2>7. PlanesHold(picture, w, a, memory, s.i + 1, k)
    BY <1>1, <1>2, <2>4, PixelHeld
  <2>8. n = [at |-> NextPixel(b, 2 * c + 1, 2 * w), i |-> s.i + 1,
             upos |-> s.upos, vpos |-> s.vpos, memory |-> memory]
    BY <1>1, <2>6 DEF YuvStep, NextChroma
  <2> HIDE DEF memory, n
  <2>9. n.i = s.i + 1 /\ n.upos = 4 * a + k /\ n.vpos = 5 * a + k
        /\ n.at = NextPixel(b, 2 * c + 1, 2 * w) /\ n.memory = memory
    BY <1>1, <2>4, <2>8
  <2>10. n.i \in Nat /\ n.i > s.i
    BY <1>2, <2>9
  <2> QED
    BY <2>5, <2>7, <2>9, <2>10 DEF YuvSound, a
<1>5. YuvSound(picture, w, h, n) /\ n.i > s.i
  <2> HIDE DEF n, a
  <2> QED
    BY <1>1, <1>3, <1>4, Zenon DEF Visits
<1> QED
  BY <1>5

(* The loops end behind the last row, when all was written. *)
LEMMA LoopsEnd ==
  ASSUME NEW w \in Nat, w > 0, NEW h \in Nat, NEW at, NEW i \in Nat, NEW k,
         Visits(w, h, at, i, k), ~(at.y < 2 * h) \/ i >= 4 * (w * h)
  PROVE  i = 4 * (w * h) /\ k = w * h /\ at = [x |-> 0, y |-> 2 * h]
<1>1. CASE \E c \in 0 .. h, b \in 0 .. w :
             /\ at = [x |-> 2 * b, y |-> 2 * c]
             /\ (c < h /\ b < w) \/ (c = h /\ b = 0)
             /\ i = 2 * c * (2 * w) + 2 * b /\ k = c * w + b
  <2>1. PICK c \in 0 .. h, b \in 0 .. w :
             /\ at = [x |-> 2 * b, y |-> 2 * c]
             /\ (c < h /\ b < w) \/ (c = h /\ b = 0)
             /\ i = 2 * c * (2 * w) + 2 * b /\ k = c * w + b
    BY <1>1
  <2>2. CASE c < h /\ b < w
    <3>1. c \in 0 .. h - 1 /\ b \in 0 .. w - 1
      BY <2>2
    <3>2. i + 1 < 4 * (w * h) /\ w * h \in Nat
      BY <2>1, <3>1, EvenRoom
    <3>3. at.y < 2 * h
      BY <2>1, <3>1
    <3> QED
      BY <3>2, <3>3
  <2>3. CASE c = h /\ b = 0
    <3>1. 2 * h * (2 * w) + 2 * 0 = 4 * (w * h) /\ h * w + 0 = w * h
      OBVIOUS
    <3> QED
      BY <2>1, <2>3, <3>1
  <2> QED
    BY <2>1, <2>2, <2>3
<1>2. CASE \E c \in 0 .. h - 1, b \in 0 .. 2 * w - 1 :
             /\ at = [x |-> b, y |-> 2 * c + 1]
             /\ i = (2 * c + 1) * (2 * w) + b /\ k = (c + 1) * w
  <2>1. PICK c \in 0 .. h - 1, b \in 0 .. 2 * w - 1 :
             /\ at = [x |-> b, y |-> 2 * c + 1]
             /\ i = (2 * c + 1) * (2 * w) + b /\ k = (c + 1) * w
    BY <1>2
  <2>2. i < 4 * (w * h) /\ w * h \in Nat
    BY <2>1, OddRoom
  <2>3. at.y < 2 * h
    BY <2>1
  <2> QED
    BY <2>2, <2>3
<1> QED
  BY <1>1, <1>2 DEF Visits

(* After rgba2Yuv() all of the planes is written, and with the right       *)
(* pixels.                                                                 *)
LEMMA YuvHeld ==
  ASSUME NEW picture, NEW w \in Nat, w > 0, NEW h \in Nat
  PROVE  PlanesHold(picture, w, w * h, Rgba2Yuv(picture, 2 * w, 2 * h), 4 * (w * h), w * h)
<1> DEFINE a == w * h
           size == 2 * w * (2 * h)
           start == [at |-> [x |-> 0, y |-> 0], i |-> 0,
                     upos |-> size, vpos |-> size + size \div 4, memory |-> << >>]
           c == [planes |-> 3, picture |-> picture, width |-> 2 * w, height |-> 2 * h]
           Body(after) ==
             [n \in Nat |->
                IF n = 0 THEN start
                ELSE LET s == after[n - 1] IN
                     IF s.at.y < 2 * h THEN YuvStep(picture, 2 * w, s) ELSE s]
           after == CHOOSE after : after = Body(after)
<1>1. Rgba2Yuv(picture, 2 * w, 2 * h) = after[size].memory
  BY DEF Rgba2Yuv
<1>2. a \in Nat /\ size = 4 * a /\ size \div 4 = a /\ size \in Nat
  <2>1. a \in Nat /\ size = 4 * a
    OBVIOUS
  <2> HIDE DEF a, size
  <2> QED
    BY <2>1
<1> HIDE DEF size
<1>10. PICK g : RunsOn(c, start, g)
  BY LoopRuns, Zenon
<1>3. /\ g = [n \in Nat |-> g[n]]
      /\ g[0] = start
      /\ \A n \in Nat : g[n + 1] = Iteration(c, g[n])
  <2> HIDE DEF start, c
  <2> QED
    BY <1>10 DEF RunsOn
<1>4. ASSUME NEW s
      PROVE  Iteration(c, s) = IF s.at.y < 2 * h THEN YuvStep(picture, 2 * w, s) ELSE s
  BY DEF Iteration
<1> HIDE DEF start, c
<1>5. g = Body(g)
  <2>1. ASSUME NEW n \in Nat
        PROVE  g[n] = IF n = 0 THEN start
                      ELSE LET s == g[n - 1] IN
                           IF s.at.y < 2 * h THEN YuvStep(picture, 2 * w, s) ELSE s
    <3>1. CASE n = 0
      BY <1>3, <3>1
    <3>2. CASE n # 0
      <4>1. n - 1 \in Nat /\ (n - 1) + 1 = n
        BY <3>2
      <4>2. g[n] = Iteration(c, g[n - 1])
        BY <1>3, <4>1
      <4> QED
        BY <1>4, <3>2, <4>2
    <3> QED
      BY <3>1, <3>2
  <2> QED
    BY <1>3, <2>1
<1>6. after = Body(after)
  BY <1>5, Zenon
<1> HIDE DEF after
<1>7. ASSUME NEW n \in Nat
      PROVE  after[n] = IF n = 0 THEN start
                        ELSE LET s == after[n - 1] IN
                             IF s.at.y < 2 * h THEN YuvStep(picture, 2 * w, s) ELSE s
  BY <1>6
<1> HIDE DEF Body
<1> DEFINE S == {n \in Nat : /\ YuvSound(picture, w, h, after[n])
                             /\ ~(after[n].at.y < 2 * h) \/ after[n].i >= n}
<1>8. 0 \in S
  <2>1. after[0] = start
    BY <1>7
  <2>2. Visits(w, h, start.at, 0, 0)
    <3>1. /\ start.at = [x |-> 2 * 0, y |-> 2 * 0]
          /\ 2 * 0 * (2 * w) + 2 * 0 = 0 /\ 0 * w + 0 = 0 /\ 0 \in 0 .. h /\ 0 \in 0 .. w
          /\ 0 < w /\ (0 < h \/ 0 = h)
      BY DEF start
    <3> QED
      BY <3>1 DEF Visits
  <2>3. start.i = 0 /\ start.upos = 4 * a + 0 /\ start.vpos = 5 * a + 0
    BY <1>2 DEF start
  <2>4. PlanesHold(picture, w, a, start.memory, 0, 0)
    <3>1. start.memory = << >>
      BY DEF start
    <3>2. /\ DOMAIN << >> = {} /\ 0 .. 0 - 1 = {}
          /\ 4 * a .. 4 * a + 0 - 1 = {} /\ 5 * a .. 5 * a + 0 - 1 = {}
      BY <1>2
    <3> QED
      BY <3>1, <3>2 DEF PlanesHold
  <2>5. YuvSound(picture, w, h, start)
    BY <2>2, <2>3, <2>4 DEF YuvSound
  <2> QED
    BY <2>1, <2>3, <2>5
<1>9. ASSUME NEW n \in Nat, n \in S PROVE n + 1 \in S
  <2> DEFINE s == after[n]
             t == after[n + 1]
  <2>1. n + 1 \in Nat /\ n + 1 # 0 /\ (n + 1) - 1 = n
    OBVIOUS
  <2>2. t = IF s.at.y < 2 * h THEN YuvStep(picture, 2 * w, s) ELSE s
    BY <1>7, <2>1
  <2>3. YuvSound(picture, w, h, s) /\ (~(s.at.y < 2 * h) \/ s.i >= n) /\ s.i \in Nat
    BY <1>9 DEF YuvSound
  <2> HIDE DEF s, t
  <2>4. CASE s.at.y < 2 * h
    <3>1. YuvSound(picture, w, h, t) /\ t.i > s.i
      BY <2>2, <2>3, <2>4, YuvStepKeeps
    <3>2. t.i \in Nat
      BY <3>1 DEF YuvSound
    <3>3. t.i >= n + 1
      BY <2>3, <2>4, <3>1, <3>2
    <3> QED
      BY <2>1, <3>1, <3>3 DEF t
  <2>5. CASE ~(s.at.y < 2 * h)
    <3>1. YuvSound(picture, w, h, t) /\ ~(t.at.y < 2 * h)
      BY <2>2, <2>3, <2>5
    <3> QED
      BY <2>1, <3>1 DEF t
  <2> QED
    BY <2>4, <2>5
<1>15. size \in S
  <2> HIDE DEF S
  <2>1. Nat \subseteq S
    BY <1>8, <1>9, Induction
  <2> QED
    BY <1>2, <2>1
<1> DEFINE s == after[size]
<1>11. YuvSound(picture, w, h, s) /\ (~(s.at.y < 2 * h) \/ s.i >= 4 * a)
  BY <1>2, <1>15
<1> HIDE DEF s
<1>12. PICK k \in Nat : Visits(w, h, s.at, s.i, k) /\ PlanesHold(picture, w, a, s.memory, s.i, k)
  BY <1>11 DEF YuvSound
<1>13. s.i \in Nat
  BY <1>11 DEF YuvSound
<1>14. s.i = 4 * a /\ k = a
  BY <1>11, <1>12, <1>13, LoopsEnd
<1> QED
  BY <1>1, <1>12, <1>14 DEF s

(* Where byte n of planes without padding is when rows of width bytes are *)
(* a stride apart.                                                         *)
Strided(n, width, stride) == (n \div width) * stride + (n % width)

LEMMA StridedIs ==
  ASSUME NEW width \in Nat, width > 0, NEW stride \in Nat,
         NEW row \in Nat, NEW x \in 0 .. width - 1
  PROVE  Strided(row * width + x, width, stride) = row * stride + x
<1>1. (row * width + x) \div width = row /\ (row * width + x) % width = x
  BY QuotientIs
<1> QED
  BY <1>1, Zenon DEF Strided

LEMMA StridedParts ==
  ASSUME NEW width \in Nat, width > 0, NEW stride \in Nat, NEW n \in Nat
  PROVE  \E d \in Nat, e \in 0 .. width - 1 :
           n = d * width + e /\ Strided(n, width, stride) = d * stride + e
<1> DEFINE d == n \div width
           e == n % width
<1>1. Strided(n, width, stride) = d * stride + e
  BY Zenon DEF Strided
<1>2. d \in Nat /\ e \in 0 .. width - 1 /\ n = d * width + e
  <2>1. d = n \div width /\ e = n % width
    OBVIOUS
  <2> HIDE DEF d, e
  <2> QED
    BY <2>1, Quotient
<1> HIDE DEF d, e
<1> QED
  BY <1>1, <1>2

(* No two bytes have the same place. *)
LEMMA StridedApart ==
  ASSUME NEW width \in Nat, width > 0, NEW stride \in Nat, stride >= width,
         NEW m \in Nat, NEW n \in Nat
  PROVE  Strided(m, width, stride) = Strided(n, width, stride) => m = n
<1>3. PICK d1 \in Nat, e1 \in 0 .. width - 1 :
        m = d1 * width + e1 /\ Strided(m, width, stride) = d1 * stride + e1
  BY StridedParts, Zenon
<1>4. PICK d2 \in Nat, e2 \in 0 .. width - 1 :
        n = d2 * width + e2 /\ Strided(n, width, stride) = d2 * stride + e2
  BY StridedParts, Zenon
<1>5. stride > 0 /\ e1 \in 0 .. stride - 1 /\ e2 \in 0 .. stride - 1
  OBVIOUS
<1>6. /\ (d1 * stride + e1) \div stride = d1 /\ (d1 * stride + e1) % stride = e1
      /\ (d2 * stride + e2) \div stride = d2 /\ (d2 * stride + e2) % stride = e2
  BY <1>5, QuotientIs
<1>7. Strided(m, width, stride) = Strided(n, width, stride) => d1 = d2 /\ e1 = e2
  BY <1>3, <1>4, <1>6
<1> QED
  BY <1>3, <1>4, <1>7

LEMMA StridedNat ==
  ASSUME NEW width \in Nat, width > 0, NEW stride \in Nat, NEW n \in Nat
  PROVE  Strided(n, width, stride) \in Nat
<1>1. PICK d \in Nat, e \in 0 .. width - 1 :
        n = d * width + e /\ Strided(n, width, stride) = d * stride + e
  BY StridedParts, Zenon
<1> QED
  BY <1>1

(* The bytes of two planes, 4 * a of luma and 2 * a of both chromas. *)
ByteAt(picture, w, a, n) ==
  IF n < 4 * a THEN Luma(picture[n])
  ELSE IF n % 2 = 0 THEN Cb(picture[Source((n - 4 * a) \div 2, w)])
  ELSE Cr(picture[Source((n - 4 * a) \div 2, w)])

(* Exactly the bytes with numbers in N are written.                        *)
RowsHold(picture, w, width, a, stride, memory, N) ==
  /\ N \subseteq Nat
  /\ DOMAIN memory = {Strided(n, width, stride) : n \in N}
  /\ \A n \in N : memory[Strided(n, width, stride)] = ByteAt(picture, w, a, n)

LEMMA FourHeld ==
  ASSUME NEW picture, NEW w, NEW width \in Nat, width > 0, NEW a,
         NEW stride \in Nat, stride >= width, NEW m, NEW N, RowsHold(picture, w, width, a, stride, m, N),
         NEW n1 \in Nat, NEW n2 \in Nat, NEW n3 \in Nat, NEW n4 \in Nat,
         n1 # n2, n1 # n3, n1 # n4, n2 # n3, n2 # n4, n3 # n4,
         n1 \notin N, n2 \notin N, n3 \notin N, n4 \notin N,
         NEW v1, NEW v2, NEW v3, NEW v4,
         v1 = ByteAt(picture, w, a, n1), v2 = ByteAt(picture, w, a, n2),
         v3 = ByteAt(picture, w, a, n3), v4 = ByteAt(picture, w, a, n4)
  PROVE  RowsHold(picture, w, width, a, stride,
                  Write(Write(Write(Write(m, Strided(n1, width, stride), v1),
                                    Strided(n2, width, stride), v2),
                              Strided(n3, width, stride), v3),
                        Strided(n4, width, stride), v4),
                  N \cup {n1, n2, n3, n4})
<1> DEFINE p(n) == Strided(n, width, stride)
           p1 == p(n1)
           p2 == p(n2)
           p3 == p(n3)
           p4 == p(n4)
           new == Write(Write(Write(Write(m, p1, v1), p2, v2), p3, v3), p4, v4)
<1>1. /\ N \subseteq Nat /\ DOMAIN m = {p(n) : n \in N}
      /\ \A n \in N : m[p(n)] = ByteAt(picture, w, a, n)
  BY DEF RowsHold
<1>2. p1 # p2 /\ p1 # p3 /\ p1 # p4 /\ p2 # p3 /\ p2 # p4 /\ p3 # p4
  BY StridedApart
<1>3. ASSUME NEW n \in N PROVE p(n) \notin {p1, p2, p3, p4}
  <2>1. n \in Nat /\ n # n1 /\ n # n2 /\ n # n3 /\ n # n4
    BY <1>1
  <2>2. p(n) # p1 /\ p(n) # p2 /\ p(n) # p3 /\ p(n) # p4
    BY <2>1, StridedApart
  <2> QED
    BY <2>2
<1> HIDE DEF p1, p2, p3, p4
<1>4. AddsFour(new, m, p1, v1, p2, v2, p3, v3, p4, v4)
  BY <1>2, FourWritten
<1> HIDE DEF new
<1>5. /\ DOMAIN new = {p1, p2, p3, p4} \cup DOMAIN m
      /\ new[p1] = v1 /\ new[p2] = v2 /\ new[p3] = v3 /\ new[p4] = v4
      /\ \A q \in DOMAIN m : q \notin {p1, p2, p3, p4} => new[q] = m[q]
  BY <1>4 DEF AddsFour
<1>6. p1 = p(n1) /\ p2 = p(n2) /\ p3 = p(n3) /\ p4 = p(n4)
  BY DEF p1, p2, p3, p4
<1> HIDE DEF p
<1>7. DOMAIN new = {p(n) : n \in N \cup {n1, n2, n3, n4}}
  BY <1>1, <1>5, <1>6
<1>8. ASSUME NEW n \in N \cup {n1, n2, n3, n4} PROVE new[p(n)] = ByteAt(picture, w, a, n)
  <2>1. CASE n \in N
    <3>1. p(n) \in DOMAIN m
      BY <1>1, <2>1
    <3> QED
      BY <1>1, <1>3, <1>5, <2>1, <3>1
  <2>2. CASE n \in {n1, n2, n3, n4}
    BY <1>5, <1>6, <2>2
  <2> QED
    BY <2>1, <2>2
<1>9. N \cup {n1, n2, n3, n4} \subseteq Nat
  BY <1>1
<1>10. RowsHold(picture, w, width, a, stride, new, N \cup {n1, n2, n3, n4})
  BY <1>7, <1>8, <1>9 DEF RowsHold, p
<1> QED
  BY <1>10, Zenon DEF new, p1, p2, p3, p4, p

LEMMA OneHeld ==
  ASSUME NEW picture, NEW w, NEW width \in Nat, width > 0, NEW a,
         NEW stride \in Nat, stride >= width, NEW m, NEW N, RowsHold(picture, w, width, a, stride, m, N),
         NEW n1 \in Nat, n1 \notin N, NEW v1, v1 = ByteAt(picture, w, a, n1)
  PROVE  RowsHold(picture, w, width, a, stride,
                  Write(m, Strided(n1, width, stride), v1), N \cup {n1})
<1> DEFINE p(n) == Strided(n, width, stride)
           p1 == p(n1)
           new == Write(m, p1, v1)
<1>1. /\ N \subseteq Nat /\ DOMAIN m = {p(n) : n \in N}
      /\ \A n \in N : m[p(n)] = ByteAt(picture, w, a, n)
  BY DEF RowsHold
<1>3. ASSUME NEW n \in N PROVE p(n) # p1
  <2>1. n \in Nat /\ n # n1
    BY <1>1
  <2> QED
    BY <2>1, StridedApart
<1> HIDE DEF p1
<1>4. Adds(new, m, p1, v1)
  BY WriteAdds
<1> HIDE DEF new
<1>5. /\ DOMAIN new = {p1} \cup DOMAIN m /\ new[p1] = v1
      /\ \A q \in DOMAIN m : q # p1 => new[q] = m[q]
  BY <1>4 DEF Adds
<1>6. p1 = p(n1)
  BY DEF p1
<1> HIDE DEF p
<1>7. DOMAIN new = {p(n) : n \in N \cup {n1}}
  BY <1>1, <1>5, <1>6
<1>8. ASSUME NEW n \in N \cup {n1} PROVE new[p(n)] = ByteAt(picture, w, a, n)
  <2>1. CASE n \in N
    <3>1. p(n) \in DOMAIN m
      BY <1>1, <2>1
    <3> QED
      BY <1>1, <1>3, <1>5, <2>1, <3>1
  <2>2. CASE n = n1
    BY <1>5, <1>6, <2>2
  <2> QED
    BY <2>1, <2>2
<1>9. N \cup {n1} \subseteq Nat
  BY <1>1
<1>10. RowsHold(picture, w, width, a, stride, new, N \cup {n1})
  BY <1>7, <1>8, <1>9 DEF RowsHold, p
<1> QED
  BY <1>10, Zenon DEF new, p1, p

(* The bytes that i pixels and k pairs of chroma bytes are. *)
Taken(a, i, k) == 0 .. i - 1 \cup 4 * a .. 4 * a + 2 * k - 1

(* Between two iterations of rgba2Nv12(), when i pixels were taken. *)
Nv12Sound(picture, w, h, stride, s, i) ==
  \E k \in Nat :
    /\ Visits(w, h, s.at, i, k)
    /\ RowsHold(picture, w, 2 * w, w * h, stride, s.memory, Taken(w * h, i, k))

LEMMA TakesOne ==
  ASSUME NEW a \in Nat, NEW i \in Nat, NEW k \in Nat, i < 4 * a
  PROVE  i \notin Taken(a, i, k) /\ Taken(a, i, k) \cup {i} = Taken(a, i + 1, k)
<1> DEFINE A == 0 .. i - 1
           B == 4 * a .. 4 * a + 2 * k - 1
           C == 0 .. i + 1 - 1
<1>1. i \notin A \cup B /\ C = {i} \cup A
  OBVIOUS
<1>2. Taken(a, i, k) = A \cup B /\ Taken(a, i + 1, k) = C \cup B
  BY DEF Taken
<1> HIDE DEF A, B, C
<1> QED
  BY <1>1, <1>2

(* Two pixels and a pair of chroma bytes are not taken yet. *)
PairIsNew(a, i, k, pair) ==
  /\ i \notin Taken(a, i, k) /\ i + 1 \notin Taken(a, i, k)
  /\ pair \notin Taken(a, i, k) /\ pair + 1 \notin Taken(a, i, k)
  /\ Taken(a, i, k) \cup {i, pair, pair + 1, i + 1} = Taken(a, i + 2, k + 1)

LEMMA TakesFour ==
  ASSUME NEW a \in Nat, NEW i \in Nat, NEW k \in Nat, i + 1 < 4 * a,
         NEW pair, pair = 4 * a + 2 * k
  PROVE  PairIsNew(a, i, k, pair)
<1> DEFINE A == 0 .. i - 1
           B == 4 * a .. 4 * a + 2 * k - 1
           C == 0 .. i + 2 - 1
           D == 4 * a .. 4 * a + 2 * (k + 1) - 1
           next == pair + 1
           j == i + 1
<1>1. /\ i \notin A \cup B /\ j \notin A \cup B
      /\ pair \notin A \cup B /\ next \notin A \cup B
  OBVIOUS
<1>2. C = {i, j} \cup A /\ D = {pair, next} \cup B
  OBVIOUS
<1>3. Taken(a, i, k) = A \cup B /\ Taken(a, i + 2, k + 1) = C \cup D
  BY DEF Taken
<1> HIDE DEF A, B, C, D, next, j
<1>4. /\ i \notin Taken(a, i, k) /\ j \notin Taken(a, i, k)
      /\ pair \notin Taken(a, i, k) /\ next \notin Taken(a, i, k)
      /\ Taken(a, i, k) \cup {i, pair, next, j} = Taken(a, i + 2, k + 1)
  BY <1>1, <1>2, <1>3
<1> QED
  BY <1>4, Zenon DEF PairIsNew, next, j

PairHasBytes(picture, w, a, i, pair) ==
  /\ ByteAt(picture, w, a, i) = Luma(picture[i])
  /\ ByteAt(picture, w, a, i + 1) = Luma(picture[i + 1])
  /\ ByteAt(picture, w, a, pair) = Cb(picture[i])
  /\ ByteAt(picture, w, a, pair + 1) = Cr(picture[i])

LEMMA BytesOf ==
  ASSUME NEW picture, NEW w, NEW a \in Nat, NEW i \in Nat, NEW k \in Nat,
         i + 1 < 4 * a, Source(k, w) = i, NEW pair, pair = 4 * a + 2 * k
  PROVE  PairHasBytes(picture, w, a, i, pair)
<1> DEFINE next == pair + 1
<1>1. /\ ~(pair < 4 * a) /\ pair % 2 = 0 /\ (pair - 4 * a) \div 2 = k
      /\ ~(next < 4 * a) /\ next % 2 # 0 /\ (next - 4 * a) \div 2 = k
      /\ i < 4 * a
  OBVIOUS
<1> HIDE DEF next
<1>2. ByteAt(picture, w, a, i) = Luma(picture[i])
  BY <1>1 DEF ByteAt
<1>3. ByteAt(picture, w, a, i + 1) = Luma(picture[i + 1])
  BY DEF ByteAt
<1>4. ByteAt(picture, w, a, pair) = Cb(picture[i])
  BY <1>1 DEF ByteAt
<1>5. ByteAt(picture, w, a, next) = Cr(picture[i])
  BY <1>1 DEF ByteAt
<1> QED
  BY <1>2, <1>3, <1>4, <1>5, Zenon DEF PairHasBytes, next

(* Where the code finds them, two by two. *)
PairIsAt(i, pair, width, stride, luma, chroma) ==
  /\ Strided(i, width, stride) = luma /\ Strided(i + 1, width, stride) = luma + 1
  /\ Strided(pair, width, stride) = chroma /\ Strided(pair + 1, width, stride) = chroma + 1

LEMMA PairAddresses ==
  ASSUME NEW w \in Nat, w > 0, NEW h \in Nat, NEW stride \in Nat,
         NEW c \in 0 .. h - 1, NEW b \in 0 .. w - 1,
         NEW i, i = 2 * c * (2 * w) + 2 * b, NEW pair, pair = 4 * (w * h) + 2 * (c * w + b),
         NEW luma, luma = 2 * c * stride + 2 * b,
         NEW chroma, chroma = 2 * h * stride + c * stride + 2 * b
  PROVE  PairIsAt(i, pair, 2 * w, stride, luma, chroma)
<1> DEFINE width == 2 * w
           x == 2 * b
           y == 2 * c
           row == 2 * h + c
<1>1. /\ width \in Nat /\ width > 0 /\ y \in Nat /\ row \in Nat
      /\ x \in 0 .. width - 1 /\ x + 1 \in 0 .. width - 1
  OBVIOUS
<1>2. row * width + x = 4 * (w * h) + 2 * (c * w + b)
  <2>1. (2 * h + c) * (2 * w) = 4 * (w * h) + 2 * (c * w)
    OBVIOUS
  <2>2. 2 * (c * w + b) = 2 * (c * w) + 2 * b
    OBVIOUS
  <2>3. 4 * (w * h) \in Int /\ 2 * (c * w) \in Int /\ 2 * b \in Int
    OBVIOUS
  <2>4. 4 * (w * h) + 2 * (c * w) + 2 * b = 4 * (w * h) + (2 * (c * w) + 2 * b)
    BY <2>3
  <2> QED
    BY <2>1, <2>2, <2>4
<1>3. row * stride + x = 2 * h * stride + c * stride + 2 * b
  OBVIOUS
<1>4. /\ y * stride \in Nat /\ row * stride \in Nat /\ y * width \in Nat
      /\ row * width \in Nat /\ x \in Nat
  BY <1>1
<1> HIDE DEF width, x, y, row
<1>5. /\ Strided(y * width + x, width, stride) = y * stride + x
      /\ Strided(y * width + (x + 1), width, stride) = y * stride + (x + 1)
      /\ Strided(row * width + x, width, stride) = row * stride + x
      /\ Strided(row * width + (x + 1), width, stride) = row * stride + (x + 1)
  <2>1. ASSUME NEW r \in Nat, NEW z \in 0 .. width - 1
        PROVE  Strided(r * width + z, width, stride) = r * stride + z
    BY <1>1, StridedIs
  <2> QED
    BY <1>1, <2>1, Zenon
<1>6. /\ y * width + (x + 1) = y * width + x + 1
      /\ y * stride + (x + 1) = y * stride + x + 1
      /\ row * width + (x + 1) = row * width + x + 1
      /\ row * stride + (x + 1) = row * stride + x + 1
  BY <1>4
<1>7. /\ Strided(y * width + x, width, stride) = y * stride + x
      /\ Strided(y * width + x + 1, width, stride) = y * stride + x + 1
      /\ Strided(row * width + x, width, stride) = row * stride + x
      /\ Strided(row * width + x + 1, width, stride) = row * stride + x + 1
  BY <1>5, <1>6, Zenon
<1>8. y * width + x = 2 * c * (2 * w) + 2 * b /\ y * stride + x = 2 * c * stride + 2 * b
  BY Zenon DEF y, width, x
<1>9. width = 2 * w
  BY DEF width
<1> QED
  BY <1>2, <1>3, <1>7, <1>8, <1>9, Zenon DEF PairIsAt

LEMMA Nv12StepKeeps ==
  ASSUME NEW picture, NEW w \in Nat, w > 0, NEW h \in Nat,
         NEW stride \in Nat, stride >= 2 * w, NEW s, NEW i \in Nat,
         Nv12Sound(picture, w, h, stride, s, i), s.at.y < 2 * h
  PROVE  \E j \in Nat :
           j > i /\ Nv12Sound(picture, w, h, stride,
                              Nv12Step(picture, 2 * w, 2 * h, stride, stride, s), j)
<1> DEFINE a == w * h
           width == 2 * w
           n == Nv12Step(picture, 2 * w, 2 * h, stride, stride, s)
<1>1. PICK k \in Nat :
        /\ Visits(w, h, s.at, i, k)
        /\ RowsHold(picture, w, width, a, stride, s.memory, Taken(a, i, k))
  BY DEF Nv12Sound
<1>2. width \in Nat /\ width > 0 /\ stride >= width
  OBVIOUS
<1>3. ASSUME \E c \in 0 .. h, b \in 0 .. w :
               /\ s.at = [x |-> 2 * b, y |-> 2 * c]
               /\ (c < h /\ b < w) \/ (c = h /\ b = 0)
               /\ i = 2 * c * (2 * w) + 2 * b /\ k = c * w + b
      PROVE  Nv12Sound(picture, w, h, stride, n, i + 2)
  <2>1. PICK c \in 0 .. h, b \in 0 .. w :
             /\ s.at = [x |-> 2 * b, y |-> 2 * c]
             /\ (c < h /\ b < w) \/ (c = h /\ b = 0)
             /\ i = 2 * c * (2 * w) + 2 * b /\ k = c * w + b
    BY <1>3
  <2>2. c # h
    BY <2>1
  <2>3. c \in 0 .. h - 1 /\ b \in 0 .. w - 1
    BY <2>1, <2>2
  <2> DEFINE pair == 4 * a + 2 * k
             luma == 2 * c * stride + 2 * b
             chroma == 2 * h * stride + c * stride + 2 * b
  <2>4. /\ i + 1 < 4 * a /\ a \in Nat /\ Source(k, w) = i
    <3>1. /\ 2 * c * (2 * w) + 2 * b + 1 < 4 * (w * h)
          /\ Source(c * w + b, w) = 2 * c * (2 * w) + 2 * b
          /\ w * h \in Nat
      BY <2>3, EvenRoom
    <3> QED
      BY <2>1, <3>1
  <2>5. Visits(w, h, NextPixel(2 * b, 2 * c, 2 * w), i + 2, k + 1)
    BY <2>1, <2>3, EvenVisit
  <2>6. (2 * c) % 2 = 0 /\ (2 * c) \div 2 = c /\ s.at.x = 2 * b /\ s.at.y = 2 * c
    BY <2>1, <2>3
  <2>7. /\ Strided(i, width, stride) = luma /\ Strided(i + 1, width, stride) = luma + 1
        /\ Strided(pair, width, stride) = chroma
        /\ Strided(pair + 1, width, stride) = chroma + 1
    <3>1. pair = 4 * (w * h) + 2 * (c * w + b)
      BY <2>1
    <3>2. luma = 2 * c * stride + 2 * b /\ chroma = 2 * h * stride + c * stride + 2 * b
      OBVIOUS
    <3>3. i = 2 * c * (2 * w) + 2 * b
      BY <2>1
    <3> HIDE DEF pair, luma, chroma
    <3>4. PairIsAt(i, pair, 2 * w, stride, luma, chroma)
      BY <2>3, <3>1, <3>2, <3>3, PairAddresses
    <3> QED
      BY <3>4, Zenon DEF PairIsAt
  <2>8. n = [at |-> NextPixel(2 * b, 2 * c, 2 * w),
             memory |-> Write(Write(Write(Write(s.memory, luma, Luma(picture[i])),
                                          chroma, Cb(picture[i])),
                                    chroma + 1, Cr(picture[i])),
                              luma + 1, Luma(picture[i + 1]))]
    BY <2>1, <2>6 DEF Nv12Step
  <2> DEFINE memory == Write(Write(Write(Write(s.memory, luma, Luma(picture[i])),
                                         chroma, Cb(picture[i])),
                                   chroma + 1, Cr(picture[i])),
                             luma + 1, Luma(picture[i + 1]))
             N == Taken(a, i, k)
  <2>19. pair = 4 * a + 2 * k
    OBVIOUS
  <2> HIDE DEF a, width, n, pair
  <2>9. /\ i \notin N /\ i + 1 \notin N /\ pair \notin N /\ pair + 1 \notin N
        /\ N \cup {i, pair, pair + 1, i + 1} = Taken(a, i + 2, k + 1)
    <3>1. PairIsNew(a, i, k, pair)
      BY <2>4, <2>19, TakesFour
    <3> QED
      BY <3>1, Zenon DEF PairIsNew
  <2>10. /\ ByteAt(picture, w, a, i) = Luma(picture[i])
         /\ ByteAt(picture, w, a, i + 1) = Luma(picture[i + 1])
         /\ ByteAt(picture, w, a, pair) = Cb(picture[i])
         /\ ByteAt(picture, w, a, pair + 1) = Cr(picture[i])
    <3>1. PairHasBytes(picture, w, a, i, pair)
      BY <2>4, <2>19, BytesOf
    <3> QED
      BY <3>1, Zenon DEF PairHasBytes
  <2>11. /\ i \in Nat /\ i + 1 \in Nat /\ pair \in Nat /\ pair + 1 \in Nat
         /\ i # pair /\ i # pair + 1 /\ i # i + 1 /\ pair # pair + 1
         /\ pair # i + 1 /\ pair + 1 # i + 1
    BY <2>4, <2>19
  <2>12. n.at = NextPixel(2 * b, 2 * c, 2 * w) /\ n.memory = memory
    BY <2>8
  <2> HIDE DEF luma, chroma, pair, N
  <2>13. RowsHold(picture, w, width, a, stride, s.memory, N)
    BY <1>1 DEF N
  <2> DEFINE j == i + 1
             pair2 == pair + 1
  <2>14. /\ j \in Nat /\ pair2 \in Nat /\ j \notin N /\ pair2 \notin N
         /\ i # pair /\ i # pair2 /\ i # j /\ pair # pair2 /\ pair # j /\ pair2 # j
         /\ memory = Write(Write(Write(Write(s.memory, Strided(i, width, stride), Luma(picture[i])),
                                       Strided(pair, width, stride), Cb(picture[i])),
                                 Strided(pair2, width, stride), Cr(picture[i])),
                           Strided(j, width, stride), Luma(picture[i + 1]))
         /\ Luma(picture[i]) = ByteAt(picture, w, a, i)
         /\ Cb(picture[i]) = ByteAt(picture, w, a, pair)
         /\ Cr(picture[i]) = ByteAt(picture, w, a, pair2)
         /\ Luma(picture[i + 1]) = ByteAt(picture, w, a, j)
    BY <2>7, <2>9, <2>10, <2>11, Zenon
  <2> HIDE DEF memory, j, pair2
  <2>15. RowsHold(picture, w, width, a, stride, memory, N \cup {i, pair, pair2, j})
    BY <1>2, <2>9, <2>11, <2>13, <2>14, FourHeld
  <2>16. N \cup {i, pair, pair2, j} = Taken(a, i + 2, k + 1)
    BY <2>9, Zenon DEF pair2, j
  <2>17. RowsHold(picture, w, width, a, stride, n.memory, Taken(a, i + 2, k + 1))
    BY <2>12, <2>15, <2>16
  <2>18. k + 1 \in Nat /\ Visits(w, h, n.at, i + 2, k + 1)
    BY <2>5, <2>12
  <2> QED
    BY <2>17, <2>18 DEF Nv12Sound, a, width
<1>4. ASSUME \E c \in 0 .. h - 1, b \in 0 .. 2 * w - 1 :
               /\ s.at = [x |-> b, y |-> 2 * c + 1]
               /\ i = (2 * c + 1) * (2 * w) + b /\ k = (c + 1) * w
      PROVE  Nv12Sound(picture, w, h, stride, n, i + 1)
  <2>1. PICK c \in 0 .. h - 1, b \in 0 .. 2 * w - 1 :
             /\ s.at = [x |-> b, y |-> 2 * c + 1]
             /\ i = (2 * c + 1) * (2 * w) + b /\ k = (c + 1) * w
    BY <1>4
  <2> DEFINE luma == (2 * c + 1) * stride + b
             row == 2 * c + 1
  <2>2. i < 4 * a /\ a \in Nat
    BY <2>1, OddRoom
  <2>3. Visits(w, h, NextPixel(b, 2 * c + 1, 2 * w), i + 1, k)
    BY <2>1, OddVisit
  <2>4. (2 * c + 1) % 2 # 0 /\ s.at.x = b /\ s.at.y = 2 * c + 1
    BY <2>1
  <2>5. Strided(i, width, stride) = luma
    <3>1. row \in Nat /\ b \in 0 .. width - 1
      OBVIOUS
    <3>2. i = row * width + b /\ luma = row * stride + b
      BY <2>1, Zenon
    <3> HIDE DEF row, width, luma
    <3> QED
      BY <1>2, <3>1, <3>2, StridedIs
  <2> DEFINE memory == Write(s.memory, luma, Luma(picture[i]))
  <2>6. n = [at |-> NextPixel(b, 2 * c + 1, 2 * w), memory |-> memory]
    BY <2>1, <2>4 DEF Nv12Step
  <2> HIDE DEF n, a, width, luma
  <2>7. n.at = NextPixel(b, 2 * c + 1, 2 * w) /\ n.memory = memory
    BY <2>6
  <2>8. i \notin Taken(a, i, k) /\ Taken(a, i, k) \cup {i} = Taken(a, i + 1, k)
    BY <2>2, TakesOne
  <2>9. ByteAt(picture, w, a, i) = Luma(picture[i])
    BY <2>2 DEF ByteAt
  <2>10. RowsHold(picture, w, width, a, stride, memory, Taken(a, i, k) \cup {i})
    BY <1>1, <1>2, <2>5, <2>8, <2>9, OneHeld
  <2> HIDE DEF memory
  <2>11. RowsHold(picture, w, width, a, stride, n.memory, Taken(a, i + 1, k))
    BY <2>7, <2>8, <2>10
  <2>12. Visits(w, h, n.at, i + 1, k)
    BY <2>3, <2>7
  <2> QED
    BY <2>11, <2>12 DEF Nv12Sound, a, width
<1>5. Nv12Sound(picture, w, h, stride, n, i + 2) \/ Nv12Sound(picture, w, h, stride, n, i + 1)
  <2> HIDE DEF n, a
  <2> QED
    BY <1>1, <1>3, <1>4, Zenon DEF Visits
<1>6. i + 1 \in Nat /\ i + 2 \in Nat /\ i + 1 > i /\ i + 2 > i
  OBVIOUS
<1> HIDE DEF n
<1>7. \E j \in Nat : j > i /\ Nv12Sound(picture, w, h, stride, n, j)
  BY <1>5, <1>6
<1> QED
  BY <1>7 DEF n

(* After rgba2Nv12() all of both planes is written, and with the right     *)
(* pixels.                                                                 *)
LEMMA Nv12Held ==
  ASSUME NEW picture, NEW w \in Nat, w > 0, NEW h \in Nat,
         NEW stride \in Nat, stride >= 2 * w
  PROVE  RowsHold(picture, w, 2 * w, w * h, stride,
                  Rgba2Nv12(picture, 2 * w, 2 * h, stride, stride), 0 .. 6 * (w * h) - 1)
<1> DEFINE a == w * h
           size == 2 * w * (2 * h)
           start == [at |-> [x |-> 0, y |-> 0], memory |-> << >>]
           c == [planes |-> 2, picture |-> picture, width |-> 2 * w, height |-> 2 * h,
                 stride |-> stride]
           Step(s) == Nv12Step(picture, 2 * w, 2 * h, stride, stride, s)
           Body(after) ==
             [n \in Nat |->
                IF n = 0 THEN start
                ELSE LET s == after[n - 1] IN
                     IF s.at.y < 2 * h
                       THEN Nv12Step(picture, 2 * w, 2 * h, stride, stride, s) ELSE s]
           after == CHOOSE after : after = Body(after)
<1>1. Rgba2Nv12(picture, 2 * w, 2 * h, stride, stride) = after[size].memory
  BY DEF Rgba2Nv12
<1>2. a \in Nat /\ size = 4 * a /\ size \in Nat
  OBVIOUS
<1> HIDE DEF size
<1>10. PICK g : RunsOn(c, start, g)
  BY LoopRuns, Zenon
<1>3. /\ g = [n \in Nat |-> g[n]]
      /\ g[0] = start
      /\ \A n \in Nat : g[n + 1] = Iteration(c, g[n])
  <2> HIDE DEF start, c
  <2> QED
    BY <1>10 DEF RunsOn
<1>4. ASSUME NEW s
      PROVE  Iteration(c, s) = IF s.at.y < 2 * h THEN Step(s) ELSE s
  BY DEF Iteration
<1> HIDE DEF start, c
<1>5. g = Body(g)
  <2>1. ASSUME NEW n \in Nat
        PROVE  g[n] = IF n = 0 THEN start
                      ELSE LET s == g[n - 1] IN IF s.at.y < 2 * h THEN Step(s) ELSE s
    <3>1. CASE n = 0
      BY <1>3, <3>1
    <3>2. CASE n # 0
      <4>1. n - 1 \in Nat /\ (n - 1) + 1 = n
        BY <3>2
      <4>2. g[n] = Iteration(c, g[n - 1])
        BY <1>3, <4>1
      <4> QED
        BY <1>4, <3>2, <4>2
    <3> QED
      BY <3>1, <3>2
  <2> QED
    BY <1>3, <2>1
<1>6. after = Body(after)
  BY <1>5, Zenon
<1> HIDE DEF after
<1>7. ASSUME NEW n \in Nat
      PROVE  after[n] = IF n = 0 THEN start
                        ELSE LET s == after[n - 1] IN IF s.at.y < 2 * h THEN Step(s) ELSE s
  BY <1>6
<1> HIDE DEF Body
<1> DEFINE Goes(n, i) == /\ Nv12Sound(picture, w, h, stride, after[n], i)
                         /\ ~(after[n].at.y < 2 * h) \/ i >= n
           S == {n \in Nat : \E i \in Nat : Goes(n, i)}
<1>8. 0 \in S
  <2>1. after[0] = start
    BY <1>7
  <2>2. Visits(w, h, start.at, 0, 0)
    <3>1. /\ start.at = [x |-> 2 * 0, y |-> 2 * 0]
          /\ 2 * 0 * (2 * w) + 2 * 0 = 0 /\ 0 * w + 0 = 0 /\ 0 \in 0 .. h /\ 0 \in 0 .. w
          /\ 0 < w /\ (0 < h \/ 0 = h)
      BY DEF start
    <3> QED
      BY <3>1 DEF Visits
  <2>3. RowsHold(picture, w, 2 * w, a, stride, start.memory, Taken(a, 0, 0))
    <3>1. start.memory = << >> /\ DOMAIN << >> = {}
      BY DEF start
    <3>2. Taken(a, 0, 0) = {}
      BY <1>2 DEF Taken
    <3> QED
      BY <3>1, <3>2 DEF RowsHold
  <2>4. Nv12Sound(picture, w, h, stride, start, 0)
    BY <2>2, <2>3 DEF Nv12Sound
  <2>5. Goes(0, 0)
    BY <2>1, <2>4
  <2> QED
    BY <2>5
<1>9. ASSUME NEW n \in Nat, n \in S PROVE n + 1 \in S
  <2> DEFINE s == after[n]
             t == after[n + 1]
  <2>1. n + 1 \in Nat /\ n + 1 # 0 /\ (n + 1) - 1 = n
    OBVIOUS
  <2>2. t = IF s.at.y < 2 * h THEN Step(s) ELSE s
    BY <1>7, <2>1
  <2>3. PICK i \in Nat : Goes(n, i)
    BY <1>9
  <2>4. Nv12Sound(picture, w, h, stride, s, i) /\ (~(s.at.y < 2 * h) \/ i >= n)
    BY <2>3
  <2> HIDE DEF s, t
  <2>5. CASE s.at.y < 2 * h
    <3>1. PICK j \in Nat : j > i /\ Nv12Sound(picture, w, h, stride, Step(s), j)
      BY <2>4, <2>5, Nv12StepKeeps
    <3>2. j >= n + 1 /\ t = Step(s)
      BY <2>2, <2>4, <2>5, <3>1
    <3>3. Goes(n + 1, j)
      BY <3>1, <3>2 DEF t
    <3> QED
      BY <2>1, <3>3
  <2>6. CASE ~(s.at.y < 2 * h)
    <3>1. Nv12Sound(picture, w, h, stride, t, i) /\ ~(t.at.y < 2 * h)
      BY <2>2, <2>4, <2>6
    <3>2. Goes(n + 1, i)
      BY <3>1 DEF t
    <3> QED
      BY <2>1, <3>2
  <2> QED
    BY <2>5, <2>6
<1>15. size \in S
  <2> HIDE DEF S
  <2>1. Nat \subseteq S
    BY <1>8, <1>9, Induction
  <2> QED
    BY <1>2, <2>1
<1> DEFINE s == after[size]
<1>11. PICK i \in Nat :
         Nv12Sound(picture, w, h, stride, s, i) /\ (~(s.at.y < 2 * h) \/ i >= 4 * a)
  BY <1>2, <1>15
<1> HIDE DEF s
<1>12. PICK k \in Nat : /\ Visits(w, h, s.at, i, k)
                        /\ RowsHold(picture, w, 2 * w, a, stride, s.memory, Taken(a, i, k))
  BY <1>11 DEF Nv12Sound
<1>14. i = 4 * a /\ k = a
  BY <1>11, <1>12, LoopsEnd
<1>16. Taken(a, 4 * a, a) = 0 .. 6 * a - 1
  <2> HIDE DEF a
  <2> QED
    BY <1>2 DEF Taken
<1> QED
  BY <1>1, <1>12, <1>14, <1>16 DEF s

(* A plane that was copied row by row, whatever its padding, has at (row,  *)
(* x) what memory has at an address.                                       *)
PlaneHas(from, width, height, stride, padding, row, x, at) ==
  Plane(from, width, height, stride, padding)[row * (width + padding) + x] = out.memory[at]

LEMMA PlaneReads ==
  ASSUME NEW from \in Nat, NEW width \in Nat, width > 0, NEW height \in Nat,
         NEW stride \in Nat, NEW padding \in Nat,
         NEW row \in 0 .. height - 1, NEW x \in 0 .. width - 1,
         NEW at, at = from + row * stride + x
  PROVE  PlaneHas(from, width, height, stride, padding, row, x, at)
<1> DEFINE wide == width + padding
           n == row * wide + x
<1>1. wide \in Nat /\ wide > 0 /\ x \in 0 .. wide - 1 /\ row \in Nat /\ ~(x >= width)
  OBVIOUS
<1> HIDE DEF wide
<1>2. n \in 0 .. height * wide - 1
  BY <1>1, RowInside
<1>3. n \div wide = row /\ n % wide = x
  BY <1>1, QuotientIs
<1> HIDE DEF n
<1>4. Plane(from, width, height, stride, padding)
        = [a \in 0 .. height * wide - 1 |->
             IF a % wide >= width THEN 0
             ELSE out.memory[from + (a \div wide) * stride + (a % wide)]]
  BY Zenon DEF Plane, wide
<1>5. Plane(from, width, height, stride, padding)[n]
        = IF n % wide >= width THEN 0 ELSE out.memory[from + (n \div wide) * stride + (n % wide)]
  BY <1>2, <1>4, Zenon
<1>6. Plane(from, width, height, stride, padding)[n] = out.memory[at]
  BY <1>1, <1>3, <1>5, Zenon
<1> QED
  BY <1>6, Zenon DEF PlaneHas, n, wide

(* The place of pixel i, and of its chroma. *)
PixelIs(i, w, h, x, y, c, b) ==
  /\ x \in 0 .. 2 * w - 1 /\ y \in 0 .. 2 * h - 1 /\ c \in 0 .. h - 1 /\ b \in 0 .. w - 1
  /\ i = y * (2 * w) + x
  /\ i % (2 * w) = x /\ i \div (2 * w) = y /\ y \div 2 = c /\ x \div 2 = b
  /\ Corner(i, 2 * w) = 2 * c * (2 * w) + 2 * b

LEMMA PixelAt ==
  ASSUME NEW w \in Nat, w > 0, NEW h \in Nat, NEW i \in 0 .. 2 * w * (2 * h) - 1
  PROVE  \E x, y, c, b : PixelIs(i, w, h, x, y, c, b)
<1> DEFINE width == 2 * w
           height == 2 * h
           x == i % width
           y == i \div width
           c == y \div 2
           b == x \div 2
           e == y % 2
<1>1. width \in Nat /\ width > 0 /\ height \in Nat /\ height * width = 2 * w * (2 * h)
  OBVIOUS
<1>2. i \in 0 .. height * width - 1
  BY <1>1
<1>3. y \in 0 .. height - 1 /\ x \in 0 .. width - 1 /\ i = y * width + x
  <2>1. y = i \div width /\ x = i % width
    OBVIOUS
  <2> HIDE DEF x, y, width, height
  <2> QED
    BY <1>1, <1>2, <2>1, RowOf
<1>4. x = i % width /\ y = i \div width /\ c = y \div 2 /\ b = x \div 2
  OBVIOUS
<1> HIDE DEF x, y
<1>5. c \in 0 .. h - 1 /\ e \in 0 .. 1 /\ y = 2 * c + e
  BY <1>3
<1>6. b \in 0 .. w - 1
  BY <1>3
<1> HIDE DEF c, b, e
<1>7. i \div (2 * width) = c
  <2> DEFINE r == e * width + x
             wide == 2 * width
  <2>1. r \in 0 .. wide - 1 /\ wide \in Nat /\ wide > 0 /\ c \in Nat
    <3> HIDE DEF width
    <3>1. CASE e = 0
      BY <3>1, <1>1, <1>3, <1>5
    <3>2. CASE e = 1
      BY <3>2, <1>1, <1>3, <1>5
    <3> QED
      BY <3>1, <3>2, <1>5
  <2>2. i = c * wide + r
    <3> HIDE DEF width
    <3>1. CASE e = 0
      <4>1. y * width = c * (2 * width)
        BY <3>1, <1>1, <1>5
      <4>2. c * (2 * width) \in Int /\ r = x
        BY <3>1, <1>1, <1>3, <1>5
      <4> QED
        BY <1>3, <4>1, <4>2
    <3>2. CASE e = 1
      <4>1. y * width = c * (2 * width) + width
        BY <3>2, <1>1, <1>5
      <4>2. c * (2 * width) \in Int /\ r = width + x
        BY <3>2, <1>1, <1>3, <1>5
      <4> QED
        BY <1>1, <1>3, <4>1, <4>2
    <3> QED
      BY <3>1, <3>2, <1>5
  <2>3. (c * wide + r) \div wide = c
    <3> HIDE DEF wide, r
    <3> QED
      BY <2>1, QuotientIs
  <2> HIDE DEF r
  <2>4. i \div wide = c
    <3> HIDE DEF wide
    <3> QED
      BY <2>2, <2>3
  <2> QED
    BY <2>4, Zenon DEF wide
<1>8. Corner(i, width) = 2 * c * width + 2 * b
  <2> HIDE DEF width
  <2> QED
    BY <1>4, <1>7, Zenon DEF Corner
<1>9. PixelIs(i, w, h, x, y, c, b)
  BY <1>3, <1>4, <1>5, <1>6, <1>8, Zenon DEF PixelIs, width, height
<1> QED
  BY <1>9

(* The pixel whose chroma is that of pixel i is its corner. *)
LEMMA SourceIs ==
  ASSUME NEW w \in Nat, w > 0, NEW h \in Nat, NEW i, NEW x, NEW y, NEW c, NEW b,
         PixelIs(i, w, h, x, y, c, b)
  PROVE  Source(c * w + b, w) = Corner(i, 2 * w)
<1>1. /\ c \in 0 .. h - 1 /\ b \in 0 .. w - 1
      /\ Corner(i, 2 * w) = 2 * c * (2 * w) + 2 * b
  BY DEF PixelIs
<1> QED
  BY <1>1, EvenRoom

(* Pixel i comes back from its luma and the chroma of its corner. *)
PixelShown(decoded, picture, width, i) ==
  decoded[i] = Rgb(Luma(picture[i]), Cb(picture[Corner(i, width)]), Cr(picture[Corner(i, width)]))

(* The sizes of a picture and of its planes. *)
LEMMA Areas ==
  ASSUME NEW w \in Nat, NEW h \in Nat
  PROVE  /\ 2 * w \in Nat /\ 2 * h \in Nat /\ w * h \in Nat
         /\ (2 * w) \div 2 = w /\ (2 * h) \div 2 = h
         /\ 2 * w * (2 * h) = 4 * (w * h) /\ (2 * w * (2 * h)) \div 4 = w * h
         /\ (2 * w * (2 * h) * 3) \div 2 = 6 * (w * h)
<1> DEFINE a == w * h
           size == 2 * w * (2 * h)
<1>1. a \in Nat /\ size = 4 * a
  OBVIOUS
<1> HIDE DEF a, size
<1>2. size \div 4 = a /\ (size * 3) \div 2 = 6 * a
  BY <1>1
<1>3. 2 * w \in Nat /\ 2 * h \in Nat /\ (2 * w) \div 2 = w /\ (2 * h) \div 2 = h
  OBVIOUS
<1> QED
  BY <1>1, <1>2, <1>3, Zenon DEF a, size

LEMMA YuvPixel ==
  ASSUME NEW w \in Nat, w > 0, NEW h \in Nat, job.width = 2 * w, job.height = 2 * h,
         out.planes = 3, NEW picture,
         PlanesHold(picture, w, w * h, out.memory, 4 * (w * h), w * h),
         NEW padding \in Nat, NEW i \in 0 .. 2 * w * (2 * h) - 1
  PROVE  PixelShown(Decoded(padding), picture, 2 * w, i)
<1> DEFINE W == 2 * w
           H == 2 * h
           a == w * h
           P0 == Plane(0, W, H, W, padding)
           P1 == Plane(4 * a, w, h, w, padding)
           P2 == Plane(5 * a, w, h, w, padding)
<1>1. /\ W \in Nat /\ W > 0 /\ H \in Nat /\ a \in Nat /\ W \div 2 = w /\ H \div 2 = h
      /\ W * H = 4 * a /\ (W * H) \div 4 = a /\ 4 * a + a = 5 * a
  BY Areas
<1>2. PICK x, y, c, b : PixelIs(i, w, h, x, y, c, b)
  BY PixelAt
<1>3. /\ x \in 0 .. W - 1 /\ y \in 0 .. H - 1 /\ c \in 0 .. h - 1 /\ b \in 0 .. w - 1
      /\ i = y * W + x /\ i % W = x /\ i \div W = y /\ y \div 2 = c /\ x \div 2 = b
      /\ i \in 0 .. W * H - 1
  BY <1>2 DEF PixelIs
<1> DEFINE n == c * w + b
           q == Source(n, w)
<1>4. q = Corner(i, W)
  BY <1>2, SourceIs
<1>5. n \in 0 .. a - 1
  <2>1. n \in Nat /\ n < a
    BY <1>3, EvenRoom
  <2> HIDE DEF n, a
  <2> QED
    BY <1>1, <2>1
<1>6. i \in 0 .. 4 * a - 1
  BY <1>1, <1>3
<1> HIDE DEF W, H, a, q
<1>7. P0[y * (W + padding) + x] = Luma(picture[i])
  <2>1. i = 0 + y * W + x
    BY <1>1, <1>3
  <2>2. P0[y * (W + padding) + x] = out.memory[i]
    <3>1. PlaneHas(0, W, H, W, padding, y, x, i)
      BY <1>1, <1>3, <2>1, PlaneReads
    <3> QED
      BY <3>1, Zenon DEF PlaneHas
  <2>3. out.memory[i] = Luma(picture[i])
    BY <1>6 DEF PlanesHold, a
  <2> QED
    BY <2>2, <2>3
<1>8. P1[c * (w + padding) + b] = Cb(picture[q]) /\ P2[c * (w + padding) + b] = Cr(picture[q])
  <2> DEFINE at1 == 4 * a + n
             at2 == 5 * a + n
  <2>1. /\ 4 * a \in Nat /\ 5 * a \in Nat
        /\ at1 = 4 * a + c * w + b /\ at2 = 5 * a + c * w + b
    BY <1>1, <1>3
  <2>2. out.memory[at1] = Cb(picture[q]) /\ out.memory[at2] = Cr(picture[q])
    BY <1>5 DEF PlanesHold, a, q
  <2> HIDE DEF at1, at2, n
  <2>3. P1[c * (w + padding) + b] = out.memory[at1]
    <3>1. PlaneHas(4 * a, w, h, w, padding, c, b, at1)
      BY <1>1, <1>3, <2>1, PlaneReads
    <3> QED
      BY <3>1, Zenon DEF PlaneHas
  <2>4. P2[c * (w + padding) + b] = out.memory[at2]
    <3>1. PlaneHas(5 * a, w, h, w, padding, c, b, at2)
      BY <1>1, <1>3, <2>1, PlaneReads
    <3> QED
      BY <3>1, Zenon DEF PlaneHas
  <2> QED
    BY <2>2, <2>3, <2>4
<1>9. Decoded(padding) = Yuv420ToRgba(<< P0, P1, P2 >>, W, H, W + padding, w + padding)
  <2>1. job.width = W /\ job.height = H
    BY DEF W, H
  <2>2. Decoded(padding)
          = Yuv420ToRgba(<< Plane(0, W, H, W, padding),
                            Plane(W * H, W \div 2, H \div 2, W \div 2, padding),
                            Plane(W * H + (W * H) \div 4, W \div 2, H \div 2, W \div 2, padding) >>,
                         W, H, W + padding, W \div 2 + padding)
    BY <2>1 DEF Decoded
  <2> QED
    BY <1>1, <2>2, Zenon
<1> HIDE DEF P0, P1, P2, n
<1>10. Yuv420ToRgba(<< P0, P1, P2 >>, W, H, W + padding, w + padding)[i]
         = Rgb(P0[y * (W + padding) + x], P1[c * (w + padding) + b], P2[c * (w + padding) + b])
  BY <1>3 DEF Yuv420ToRgba
<1>11. Decoded(padding)[i] = Rgb(Luma(picture[i]), Cb(picture[q]), Cr(picture[q]))
  BY <1>7, <1>8, <1>9, <1>10, Zenon
<1>12. Decoded(padding)[i]
         = Rgb(Luma(picture[i]), Cb(picture[Corner(i, W)]), Cr(picture[Corner(i, W)]))
  BY <1>4, <1>11, Zenon
<1> QED
  BY <1>12, Zenon DEF PixelShown, W

LEMMA Nv12Pixel ==
  ASSUME NEW w \in Nat, w > 0, NEW h \in Nat, job.width = 2 * w, job.height = 2 * h,
         out.planes = 2, out.padding \in Nat, NEW picture,
         RowsHold(picture, w, 2 * w, w * h, 2 * w + out.padding, out.memory,
                  0 .. 6 * (w * h) - 1),
         NEW padding \in Nat, NEW i \in 0 .. 2 * w * (2 * h) - 1
  PROVE  PixelShown(Decoded(padding), picture, 2 * w, i)
<1> DEFINE W == 2 * w
           H == 2 * h
           a == w * h
           stride == W + out.padding
           P0 == Plane(0, W, H, stride, padding)
           P1 == Plane(H * stride, W, h, stride, padding)
<1>1. /\ W \in Nat /\ W > 0 /\ H \in Nat /\ a \in Nat /\ H \div 2 = h
      /\ W * H = 4 * a /\ stride \in Nat /\ stride >= W
  BY Areas
<1>2. PICK x, y, c, b : PixelIs(i, w, h, x, y, c, b)
  BY PixelAt
<1>3. /\ x \in 0 .. W - 1 /\ y \in 0 .. H - 1 /\ c \in 0 .. h - 1 /\ b \in 0 .. w - 1
      /\ i = y * W + x /\ i % W = x /\ i \div W = y /\ y \div 2 = c /\ x \div 2 = b
      /\ i \in 0 .. W * H - 1
  BY <1>2 DEF PixelIs
<1> DEFINE k == c * w + b
           q == Source(k, w)
           pair == 4 * a + 2 * k
           luma == 2 * c * stride + 2 * b
           chroma == H * stride + c * stride + 2 * b
<1>4. q = Corner(i, W)
  BY <1>2, SourceIs
<1>5. /\ k \in Nat /\ k < a /\ q \in Nat /\ q + 1 < 4 * a
  <2>1. /\ c * w + b \in Nat /\ c * w + b < w * h
        /\ Source(c * w + b, w) = 2 * c * (2 * w) + 2 * b
        /\ 2 * c * (2 * w) + 2 * b \in Nat /\ 2 * c * (2 * w) + 2 * b + 1 < 4 * (w * h)
    BY <1>3, EvenRoom
  <2> QED
    BY <2>1
<1>6. pair \in 0 .. 6 * a - 1 /\ pair + 1 \in 0 .. 6 * a - 1 /\ i \in 0 .. 6 * a - 1 /\ i < 4 * a
  <2> HIDE DEF k, a
  <2> QED
    BY <1>1, <1>3, <1>5
<1>7. PairIsAt(q, pair, W, stride, luma, chroma)
  <2>1. q = 2 * c * (2 * w) + 2 * b
    BY <1>3, EvenRoom
  <2>2. pair = 4 * (w * h) + 2 * (c * w + b)
    OBVIOUS
  <2>3. luma = 2 * c * stride + 2 * b /\ chroma = 2 * h * stride + c * stride + 2 * b
    OBVIOUS
  <2>4. W = 2 * w
    OBVIOUS
  <2> HIDE DEF q, pair, luma, chroma, stride, W
  <2> QED
    BY <1>1, <1>3, <2>1, <2>2, <2>3, <2>4, PairAddresses
<1>8. PairHasBytes(picture, w, a, q, pair)
  <2>1. q = Source(k, w) /\ pair = 4 * a + 2 * k
    OBVIOUS
  <2> HIDE DEF q, pair, k, a
  <2> QED
    BY <1>1, <1>5, <2>1, BytesOf
<1>9. \A n \in 0 .. 6 * a - 1 : out.memory[Strided(n, W, stride)] = ByteAt(picture, w, a, n)
  BY DEF RowsHold
<1> HIDE DEF a, q, pair, luma, chroma, stride
<1>10. Strided(i, W, stride) = y * stride + x
  <2> HIDE DEF W
  <2>1. y \in Nat
    BY <1>1, <1>3
  <2>2. W \in Nat /\ W > 0 /\ stride \in Nat /\ x \in 0 .. W - 1
    BY <1>1, <1>3
  <2>3. Strided(y * W + x, W, stride) = y * stride + x
    <3>1. (y * W + x) \div W = y /\ (y * W + x) % W = x
      BY <2>1, <2>2, QuotientIs
    <3> QED
      BY <3>1, Zenon DEF Strided
  <2> QED
    BY <1>3, <2>3, Zenon
<1>11. P0[y * (W + padding) + x] = Luma(picture[i])
  <2> HIDE DEF W, H
  <2> DEFINE at == y * stride + x
  <2>1. at = 0 + y * stride + x
    BY <1>1, <1>3
  <2> HIDE DEF at
  <2>2. P0[y * (W + padding) + x] = out.memory[at]
    <3>1. PlaneHas(0, W, H, stride, padding, y, x, at)
      BY <1>1, <1>3, <2>1, PlaneReads
    <3> QED
      BY <3>1, Zenon DEF PlaneHas
  <2>3. out.memory[at] = ByteAt(picture, w, a, i)
    BY <1>6, <1>9, <1>10 DEF at
  <2>4. ByteAt(picture, w, a, i) = Luma(picture[i])
    BY <1>6 DEF ByteAt
  <2> QED
    BY <2>2, <2>3, <2>4
<1> DEFINE n == c * (W + padding) + 2 * b
<1>12. P1[n] = Cb(picture[q]) /\ P1[n + 1] = Cr(picture[q])
  <2> DEFINE from == H * stride
             z == 2 * b
             next == chroma + 1
  <2>1. /\ z \in 0 .. W - 1 /\ z + 1 \in 0 .. W - 1
    BY <1>3
  <2> HIDE DEF W, H
  <2>2. /\ from \in Nat /\ chroma = from + c * stride + z
        /\ next = from + c * stride + (z + 1)
    <3>1. from \in Nat /\ c * stride \in Nat /\ z \in Nat
      BY <1>1, <1>3
    <3> QED
      BY <3>1 DEF chroma
  <2>3. c * (W + padding) + (z + 1) = n + 1
    <3>1. c * (W + padding) \in Nat
      BY <1>1, <1>3
    <3> QED
      BY <1>3, <3>1
  <2>4. n = c * (W + padding) + z /\ P1 = Plane(from, W, h, stride, padding)
    OBVIOUS
  <2> HIDE DEF from, z, next, n
  <2>5. Plane(from, W, h, stride, padding)[c * (W + padding) + z] = out.memory[chroma]
    <3>1. PlaneHas(from, W, h, stride, padding, c, z, chroma)
      BY <1>1, <1>3, <2>1, <2>2, PlaneReads
    <3> QED
      BY <3>1, Zenon DEF PlaneHas
  <2>6. Plane(from, W, h, stride, padding)[c * (W + padding) + (z + 1)] = out.memory[next]
    <3>1. PlaneHas(from, W, h, stride, padding, c, z + 1, next)
      BY <1>1, <1>3, <2>1, <2>2, PlaneReads
    <3> QED
      BY <3>1, Zenon DEF PlaneHas
  <2>7. /\ out.memory[chroma] = ByteAt(picture, w, a, pair)
        /\ out.memory[next] = ByteAt(picture, w, a, pair + 1)
    BY <1>6, <1>7, <1>9 DEF PairIsAt, next
  <2>8. P1[n] = out.memory[chroma] /\ P1[n + 1] = out.memory[next]
    BY <2>3, <2>4, <2>5, <2>6, Zenon
  <2>9. /\ ByteAt(picture, w, a, pair) = Cb(picture[q])
        /\ ByteAt(picture, w, a, pair + 1) = Cr(picture[q])
    BY <1>8, Zenon DEF PairHasBytes
  <2> HIDE DEF P1
  <2> QED
    BY <2>7, <2>8, <2>9, Zenon
<1>13. Decoded(padding) = Nv12ToRgba(P0, P1, W, H, W + padding, W + padding)
  <2>1. job.width = W /\ job.height = H
    OBVIOUS
  <2> HIDE DEF W, H
  <2>2. Decoded(padding)
          = Nv12ToRgba(Plane(0, W, H, stride, padding),
                       Plane(H * stride, W, H \div 2, stride, padding),
                       W, H, W + padding, W + padding)
    BY <2>1 DEF Decoded, stride
  <2> QED
    BY <1>1, <2>2, Zenon
<1> HIDE DEF P0, P1, W, H
<1>14. Nv12ToRgba(P0, P1, W, H, W + padding, W + padding)[i]
         = Rgb(P0[y * (W + padding) + x], P1[n], P1[n + 1])
  BY <1>3 DEF Nv12ToRgba
<1> HIDE DEF n
<1>15. Decoded(padding)[i] = Rgb(Luma(picture[i]), Cb(picture[q]), Cr(picture[q]))
  BY <1>11, <1>12, <1>13, <1>14, Zenon
<1>16. Decoded(padding)[i]
         = Rgb(Luma(picture[i]), Cb(picture[Corner(i, W)]), Cr(picture[Corner(i, W)]))
  BY <1>4, <1>15, Zenon
<1> QED
  BY <1>16, Zenon DEF PixelShown, W

(* The pixel whose chroma is taken is one of the picture. *)
LEMMA SourceInside ==
  ASSUME NEW w \in Nat, w > 0, NEW h \in Nat, NEW k \in 0 .. w * h - 1
  PROVE  Source(k, w) \in 0 .. 4 * (w * h) - 1
<1> DEFINE d == k \div w
           e == k % w
<1>1. k \in 0 .. h * w - 1
  OBVIOUS
<1>2. d = k \div w /\ e = k % w
  OBVIOUS
<1> HIDE DEF d, e
<1>3. d \in 0 .. h - 1 /\ e \in 0 .. w - 1 /\ k = d * w + e
  BY <1>1, <1>2, RowOf
<1> DEFINE i == 2 * d * (2 * w) + 2 * e
           a == w * h
<1>4. i \in Nat /\ i + 1 < 4 * a /\ Source(d * w + e, w) = i /\ a \in Nat
  BY <1>3, EvenRoom
<1> HIDE DEF i, a
<1>5. Source(k, w) = i
  BY <1>3, <1>4, Zenon
<1>6. Source(k, w) \in 0 .. 4 * a - 1
  BY <1>4, <1>5
<1> QED
  BY <1>6, Zenon DEF a

LEMMA BytesFit ==
  ASSUME NEW p \in Colours
  PROVE  Luma(p) \in 0 .. 255 /\ Cb(p) \in 0 .. 255 /\ Cr(p) \in 0 .. 255
<1>1. Luma(p) \in 16 .. 235 /\ Cb(p) \in 16 .. 239 /\ Cr(p) \in 16 .. 239
  BY BytesAreSums
<1> QED
  BY <1>1

(* Every byte of planes of 6 * a bytes is written, and nothing else; the   *)
(* rows of width bytes are a stride apart.                                 *)
BytesRight(a, memory, width, stride) ==
  /\ Cardinality(DOMAIN memory) = 6 * a
  /\ \A n \in DOMAIN memory : memory[n] \in 0 .. 255
  /\ stride = width => DOMAIN memory = 0 .. 6 * a - 1

LEMMA YuvBytes ==
  ASSUME NEW w \in Nat, w > 0, NEW h \in Nat, NEW a, a = w * h,
         NEW picture \in [0 .. 4 * a - 1 -> Colours], NEW memory,
         PlanesHold(picture, w, a, memory, 4 * a, a), NEW width
  PROVE  BytesRight(a, memory, width, width)
<1>1. a \in Nat
  OBVIOUS
<1>2. /\ DOMAIN memory = 0 .. 4 * a - 1 \cup 4 * a .. 4 * a + a - 1 \cup 5 * a .. 5 * a + a - 1
      /\ \A n \in 0 .. 4 * a - 1 : memory[n] = Luma(picture[n])
      /\ \A n \in 0 .. a - 1 : /\ memory[4 * a + n] = Cb(picture[Source(n, w)])
                               /\ memory[5 * a + n] = Cr(picture[Source(n, w)])
  BY DEF PlanesHold
<1>3. DOMAIN memory = 0 .. 6 * a - 1
  BY <1>1, <1>2
<1>4. ASSUME NEW n \in 0 .. a - 1 PROVE picture[Source(n, w)] \in Colours
  <2>1. Source(n, w) \in 0 .. 4 * a - 1
    BY SourceInside
  <2> QED
    BY <2>1
<1>5. ASSUME NEW n \in 0 .. 6 * a - 1 PROVE memory[n] \in 0 .. 255
  <2>1. CASE n \in 0 .. 4 * a - 1
    <3>1. memory[n] = Luma(picture[n]) /\ picture[n] \in Colours
      BY <1>2, <2>1
    <3> QED
      BY <3>1, BytesFit
  <2>2. CASE n \in 4 * a .. 5 * a - 1
    <3> DEFINE k == n - 4 * a
               p == picture[Source(k, w)]
    <3>1. k \in 0 .. a - 1 /\ 4 * a + k = n
      BY <1>1, <2>2
    <3>2. p \in Colours
      BY <1>4, <3>1
    <3> HIDE DEF k
    <3>3. memory[n] = Cb(p)
      BY <1>2, <3>1
    <3> HIDE DEF p
    <3> QED
      BY <3>2, <3>3, BytesFit
  <2>3. CASE n \in 5 * a .. 6 * a - 1
    <3> DEFINE k == n - 5 * a
               p == picture[Source(k, w)]
    <3>1. k \in 0 .. a - 1 /\ 5 * a + k = n
      BY <1>1, <2>3
    <3>2. p \in Colours
      BY <1>4, <3>1
    <3> HIDE DEF k
    <3>3. memory[n] = Cr(p)
      BY <1>2, <3>1
    <3> HIDE DEF p
    <3> QED
      BY <3>2, <3>3, BytesFit
  <2> QED
    BY <1>1, <2>1, <2>2, <2>3
<1>6. Cardinality(DOMAIN memory) = 6 * a
  <2>1. 0 \in Int /\ 6 * a - 1 \in Int
    BY <1>1
  <2>2. Cardinality(0 .. 6 * a - 1) = IF 0 > 6 * a - 1 THEN 0 ELSE 6 * a - 1 - 0 + 1
    BY <2>1, FS_Interval, Zenon
  <2>3. Cardinality(0 .. 6 * a - 1) = 6 * a
    BY <1>1, <2>2
  <2> QED
    BY <1>3, <2>3, Zenon
<1> QED
  BY <1>3, <1>5, <1>6 DEF BytesRight

LEMMA ByteAtFits ==
  ASSUME NEW w \in Nat, w > 0, NEW h \in Nat, NEW a, a = w * h,
         NEW picture \in [0 .. 4 * a - 1 -> Colours], NEW n \in 0 .. 6 * a - 1
  PROVE  ByteAt(picture, w, a, n) \in 0 .. 255
<1>1. a \in Nat
  OBVIOUS
<1>2. CASE n < 4 * a
  <2>1. picture[n] \in Colours
    BY <1>1, <1>2
  <2>2. ByteAt(picture, w, a, n) = Luma(picture[n])
    BY <1>2 DEF ByteAt
  <2> QED
    BY <2>1, <2>2, BytesFit
<1>3. CASE ~(n < 4 * a)
  <2> DEFINE k == (n - 4 * a) \div 2
             p == picture[Source(k, w)]
  <2>1. k \in 0 .. a - 1
    BY <1>1, <1>3
  <2>2. ByteAt(picture, w, a, n) = IF n % 2 = 0 THEN Cb(p) ELSE Cr(p)
    BY <1>3, Zenon DEF ByteAt
  <2> HIDE DEF k
  <2>3. Source(k, w) \in 0 .. 4 * a - 1
    BY <2>1, SourceInside
  <2>4. p \in Colours
    BY <2>3
  <2> HIDE DEF p
  <2>5. Cb(p) \in 0 .. 255 /\ Cr(p) \in 0 .. 255
    BY <2>4, BytesFit
  <2> QED
    BY <2>2, <2>5, Zenon
<1> QED
  BY <1>2, <1>3

LEMMA Nv12Bytes ==
  ASSUME NEW w \in Nat, w > 0, NEW h \in Nat, NEW a, a = w * h,
         NEW picture \in [0 .. 4 * a - 1 -> Colours], NEW memory,
         NEW width \in Nat, width > 0, NEW stride \in Nat, stride >= width,
         RowsHold(picture, w, width, a, stride, memory, 0 .. 6 * a - 1)
  PROVE  BytesRight(a, memory, width, stride)
<1> DEFINE N == 0 .. 6 * a - 1
           D == DOMAIN memory
           p(n) == Strided(n, width, stride)
           f == [n \in N |-> p(n)]
<1>1. a \in Nat /\ N \subseteq Nat
  OBVIOUS
<1>2. D = {p(n) : n \in N} /\ \A n \in N : memory[p(n)] = ByteAt(picture, w, a, n)
  BY DEF RowsHold
<1>3. ASSUME NEW m \in N, NEW n \in N, p(m) = p(n) PROVE m = n
  <2>1. m \in Nat /\ n \in Nat
    BY <1>1
  <2> QED
    BY <2>1, <1>3, StridedApart
<1>4. \A n \in N : ByteAt(picture, w, a, n) \in 0 .. 255
  BY ByteAtFits
<1>5. Cardinality(N) = 6 * a /\ IsFiniteSet(N)
  <2>1. 0 \in Int /\ 6 * a - 1 \in Int
    BY <1>1
  <2>2. /\ IsFiniteSet(N)
        /\ Cardinality(N) = IF 0 > 6 * a - 1 THEN 0 ELSE 6 * a - 1 - 0 + 1
    BY <2>1, FS_Interval, Zenon
  <2> HIDE DEF N
  <2> QED
    BY <1>1, <2>2
<1>6. stride = width => \A n \in N : p(n) = n
  <2> SUFFICES ASSUME NEW n \in N PROVE stride = width => p(n) = n
    OBVIOUS
  <2>1. n \in Nat
    BY <1>1
  <2>2. PICK d \in Nat, e \in 0 .. width - 1 :
          n = d * width + e /\ Strided(n, width, stride) = d * stride + e
    BY <2>1, StridedParts, Zenon
  <2> QED
    BY <2>2
<1> HIDE DEF p, N, D
<1>7. f \in [N -> D]
  BY <1>2
<1>8. f \in Injection(N, D)
  BY <1>3, <1>7 DEF Injection, IsInjective
<1>9. f \in Surjection(N, D)
  BY <1>2, <1>7 DEF Surjection
<1>10. ExistsBijection(N, D)
  BY <1>8, <1>9 DEF ExistsBijection, Bijection
<1>11. Cardinality(D) = 6 * a
  BY <1>5, <1>10, FS_Bijection
<1>12. \A n \in D : memory[n] \in 0 .. 255
  BY <1>2, <1>4
<1>13. stride = width => D = N
  BY <1>2, <1>6
<1> QED
  BY <1>11, <1>12, <1>13 DEF D, N, BytesRight

(* What a conversion leaves. *)
Converted(j, o) ==
  \/ o = [planes |-> 3, padding |-> 0, memory |-> Rgba2Yuv(j.picture, j.width, j.height)]
  \/ \E padding \in Padding :
       o = [planes |-> 2, padding |-> padding,
            memory |-> Rgba2Nv12(j.picture, j.width, j.height,
                                 j.width + padding, j.width + padding)]

PictureInv ==
  job.task = "picture" => job \in Pictures /\ (done = 1 => Converted(job, out))

LEMMA InitPicture == Init => PictureInv
  BY JobsAssumption DEF Init, PictureInv

LEMMA NextPicture == PictureInv /\ [Next]_vars => PictureInv'
<1> SUFFICES ASSUME PictureInv, [Next]_vars PROVE PictureInv'
  OBVIOUS
<1>1. CASE Convert
  <2>1. job' = job /\ Converted(job, out')
    BY <1>1 DEF Convert, Converted
  <2> QED
    BY <2>1 DEF PictureInv
<1>2. CASE job.task # "picture" /\ UNCHANGED job
  BY <1>2 DEF PictureInv
<1>3. CASE UNCHANGED vars
  BY <1>3 DEF PictureInv, vars
<1>4. Convert \/ (job.task # "picture" /\ UNCHANGED job) \/ UNCHANGED vars
  BY DEF Next, WriteElement, EndHeader, MoveBox, StartPointer, MovePointer, StopPointer,
         StartKeys, TypeKey, StopKeys, ChangeCursor, SendCursor
<1> QED
  BY <1>1, <1>2, <1>3, <1>4

(* A pixel that is of the colour of its corner is seen again. *)
LEMMA PixelComes ==
  ASSUME NEW decoded, NEW picture, NEW width, NEW i, picture[i] \in Colours,
         picture[i] = picture[Corner(i, width)], PixelShown(decoded, picture, width, i)
  PROVE  Close(decoded[i], picture[i])
<1> DEFINE p == picture[i]
<1>1. decoded[i] = Rgb(Luma(p), Cb(p), Cr(p))
  BY DEF PixelShown
<1>2. Tolerance \in Nat /\ Tolerance >= 4
  BY PicturesAssumption
<1>3. p \in Colours
  OBVIOUS
<1> HIDE DEF p
<1>4. Close(Rgb(Luma(p), Cb(p), Cr(p)), p)
  BY <1>2, <1>3, ColoursComeBack, Zenon
<1>5. Close(decoded[i], p)
  BY <1>1, <1>4, Zenon
<1> QED
  BY <1>5, Zenon DEF p

(* The planes of a picture of 2 * w by 2 * h pixels. *)
PlanesRight(w, h) ==
  /\ Cardinality(DOMAIN out.memory) = 6 * (w * h)
  /\ \A n \in DOMAIN out.memory : out.memory[n] \in 0 .. 255
  /\ out.padding = 0 => DOMAIN out.memory = 0 .. 6 * (w * h) - 1
  /\ \A padding \in Padding, i \in 0 .. 2 * w * (2 * h) - 1 :
       PixelShown(Decoded(padding), job.picture, 2 * w, i)

LEMMA YuvRight ==
  ASSUME NEW w \in Nat, w > 0, NEW h \in Nat, job.width = 2 * w, job.height = 2 * h,
         job.picture \in [0 .. 4 * (w * h) - 1 -> Colours],
         out = [planes |-> 3, padding |-> 0,
                memory |-> Rgba2Yuv(job.picture, job.width, job.height)]
  PROVE  PlanesRight(w, h)
<1> DEFINE a == w * h
           m == Rgba2Yuv(job.picture, 2 * w, 2 * h)
           P == job.picture
<1>1. out.planes = 3 /\ out.memory = m
  OBVIOUS
<1>2. PlanesHold(P, w, a, m, 4 * a, a)
  BY YuvHeld
<1>3. a = w * h /\ a \in Nat /\ P \in [0 .. 4 * a - 1 -> Colours]
  OBVIOUS
<1> HIDE DEF m, a, P
<1>4. BytesRight(a, m, w, w)
  BY <1>2, <1>3, YuvBytes
<1>5. /\ Cardinality(DOMAIN m) = 6 * a
      /\ \A n \in DOMAIN m : m[n] \in 0 .. 255
      /\ DOMAIN m = 0 .. 6 * a - 1
  BY <1>4 DEF BytesRight
<1>6. ASSUME NEW padding \in Padding, NEW i \in 0 .. 2 * w * (2 * h) - 1
      PROVE  PixelShown(Decoded(padding), job.picture, 2 * w, i)
  <2>1. padding \in Nat
    BY PicturesAssumption
  <2>2. PlanesHold(job.picture, w, w * h, out.memory, 4 * (w * h), w * h)
    BY <1>1, <1>2, Zenon DEF a, P
  <2> QED
    BY <1>1, <2>1, <2>2, YuvPixel
<1> QED
  BY <1>1, <1>5, <1>6, Zenon DEF PlanesRight, a

LEMMA Nv12Right ==
  ASSUME NEW w \in Nat, w > 0, NEW h \in Nat, job.width = 2 * w, job.height = 2 * h,
         job.picture \in [0 .. 4 * (w * h) - 1 -> Colours], NEW gap \in Nat,
         out = [planes |-> 2, padding |-> gap,
                memory |-> Rgba2Nv12(job.picture, job.width, job.height,
                                     job.width + gap, job.width + gap)]
  PROVE  PlanesRight(w, h)
<1> DEFINE a == w * h
           width == 2 * w
           stride == width + gap
           P == job.picture
           m == Rgba2Nv12(P, width, 2 * h, stride, stride)
<1>1. out.planes = 2 /\ out.padding = gap /\ out.memory = m
  OBVIOUS
<1>2. stride \in Nat /\ stride >= width /\ width \in Nat /\ width > 0
  OBVIOUS
<1>3. a = w * h /\ a \in Nat /\ P \in [0 .. 4 * a - 1 -> Colours]
  OBVIOUS
<1>4. stride = width <=> gap = 0
  OBVIOUS
<1> HIDE DEF stride, P
<1>5. RowsHold(P, w, width, a, stride, m, 0 .. 6 * a - 1)
  BY <1>2, Nv12Held
<1> HIDE DEF m, a, width
<1>6. BytesRight(a, m, width, stride)
  BY <1>2, <1>3, <1>5, Nv12Bytes
<1>7. ASSUME NEW padding \in Padding, NEW i \in 0 .. 2 * w * (2 * h) - 1
      PROVE  PixelShown(Decoded(padding), job.picture, 2 * w, i)
  <2>1. padding \in Nat
    BY PicturesAssumption
  <2>2. RowsHold(job.picture, w, 2 * w, w * h, 2 * w + out.padding, out.memory,
                 0 .. 6 * (w * h) - 1)
    BY <1>1, <1>5, Zenon DEF a, P, width, stride
  <2>3. out.padding \in Nat
    BY <1>1
  <2> QED
    BY <1>1, <2>1, <2>2, <2>3, Nv12Pixel
<1> QED
  BY <1>1, <1>4, <1>6, <1>7, Zenon DEF PlanesRight, BytesRight, a

LEMMA PictureReads == PictureInv => PictureComesBack
<1> SUFFICES ASSUME PictureInv, job.task = "picture", done = 1 PROVE PictureComesBack
  BY DEF PictureComesBack
<1> DEFINE W == job.width
           H == job.height
           P == job.picture
           w == W \div 2
           h == H \div 2
           a == w * h
<1>1. job \in Pictures /\ Converted(job, out)
  BY DEF PictureInv
<1>2. /\ W \in Nat /\ W > 0 /\ W % 2 = 0 /\ H \in Nat /\ H > 0 /\ H % 2 = 0
      /\ P \in [0 .. W * H - 1 -> Colours]
      /\ \A i \in 0 .. W * H - 1 : P[i] = P[Corner(i, W)]
  BY <1>1, PicturesAssumption
<1>3. w \in Nat /\ w > 0 /\ h \in Nat /\ W = 2 * w /\ H = 2 * h
  <2> HIDE DEF W, H
  <2> QED
    BY <1>2
<1> HIDE DEF w, h
<1>4. /\ 2 * w * (2 * h) = 4 * (w * h) /\ (2 * w * (2 * h) * 3) \div 2 = 6 * (w * h)
  BY <1>3, Areas
<1>5. W * H = 4 * a /\ (W * H * 3) \div 2 = 6 * a /\ W * H = 2 * w * (2 * h)
  BY <1>3, <1>4, Zenon
<1>6. job.picture \in [0 .. 4 * (w * h) - 1 -> Colours]
  BY <1>2, <1>5, Zenon
<1>7. PlanesRight(w, h)
  <2>1. CASE out = [planes |-> 3, padding |-> 0,
                    memory |-> Rgba2Yuv(job.picture, job.width, job.height)]
    BY <1>3, <1>6, <2>1, YuvRight
  <2>2. ASSUME NEW gap \in Padding,
               out = [planes |-> 2, padding |-> gap,
                      memory |-> Rgba2Nv12(job.picture, job.width, job.height,
                                           job.width + gap, job.width + gap)]
        PROVE  PlanesRight(w, h)
    <3>1. gap \in Nat
      BY PicturesAssumption
    <3> QED
      BY <1>3, <1>6, <2>2, <3>1, Nv12Right
  <2> QED
    BY <1>1, <2>1, <2>2 DEF Converted
<1>8. ASSUME NEW padding \in Padding, NEW i \in DOMAIN P
      PROVE  Close(Decoded(padding)[i], P[i])
  <2>1. i \in 0 .. W * H - 1 /\ P[i] \in Colours /\ P[i] = P[Corner(i, W)]
    BY <1>2
  <2>2. PixelShown(Decoded(padding), P, W, i)
    BY <1>3, <1>5, <1>7, <2>1, Zenon DEF PlanesRight
  <2> HIDE DEF P, W
  <2> QED
    BY <2>1, <2>2, PixelComes, Zenon
<1>9. /\ Cardinality(DOMAIN out.memory) = (job.width * job.height * 3) \div 2
      /\ \A n \in DOMAIN out.memory : out.memory[n] \in 0 .. 255
      /\ out.padding = 0 =>
           DOMAIN out.memory = 0 .. (job.width * job.height * 3) \div 2 - 1
  BY <1>5, <1>7, Zenon DEF PlanesRight
<1> QED
  BY <1>8, <1>9, Zenon DEF PictureComesBack

(* Whatever the picture, its even sizes, the strides of the surface and    *)
(* the codec's paddings: a conversion writes as many bytes as the planes   *)
(* have, without padding exactly those of the buffer, and a picture whose  *)
(* chroma blocks are of one colour comes back within the rounding          *)
(* (VideoUtil::rgba2Yuv, rgba2Nv12, yuv420ToRgba and nv12ToRgba).          *)
THEOREM PicturesComeBack == Spec => []PictureComesBack
  BY InitPicture, NextPicture, PictureReads, PTL DEF Spec

=============================================================================
