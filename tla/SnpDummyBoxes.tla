--------------------------- MODULE SnpDummyBoxes ---------------------------
(***************************************************************************)
(* The boxes of SnpSourceDummy along one axis; x and y are the same code.  *)
(* Positions are int, the frame's width and the speed uint32_t, so that    *)
(* comparisons and MIN are unsigned where the two meet.                    *)
(***************************************************************************)
EXTENDS Integers

CONSTANT IntValues  (* bound: how many values an int has, 2^32 in the code *)

ASSUME IntAssumption == IntValues \in Nat \ {0}

Unsigned(n) == n % IntValues

Larger(m, n) == IF m > n THEN m ELSE n
Smaller(m, n) == IF m < n THEN m ELSE n

Half(box) == box \div 2

(* initBoxes(): `random` is floor(r * width), r in [0, 1].                 *)
FirstBox(frame, box, random) ==
  [x |-> Larger(Smaller(random, Unsigned(frame - Half(box))), Half(box)), dx |-> 1]

(* The pixels that renderBoxes() paints. *)
Painted(frame, box, b) ==
  Larger(0, b.x - Half(box)) .. Smaller(frame, Unsigned(b.x + Half(box))) - 1

(* Mutant: the box turns at the far end only. *)
TurnedOnce(frame, box, speed, b) ==
  IF Unsigned(b.x) >= Unsigned(frame - Half(box)) THEN -speed ELSE b.dx

Turned(frame, box, speed, b) ==
  IF b.x <= Half(box) THEN speed
  ELSE IF Unsigned(b.x) >= Unsigned(frame - Half(box)) THEN -speed
  ELSE b.dx

(* What renderBoxes() does after painting. *)
Moved(frame, box, speed, b) ==
  LET dx == Turned(frame, box, speed, b) IN [x |-> b.x + dx, dx |-> dx]

=============================================================================
