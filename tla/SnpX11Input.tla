----------------------------- MODULE SnpX11Input -----------------------------
(***************************************************************************)
(* The input side.  SnpSinkX11Mouse: the button masks of a client become   *)
(* events of an input device (uinput); a mask is the set of its bits.      *)
(* SnpSinkX11Keyboard: so do its key codes.  A device keeps what is        *)
(* pressed and forgets it when it is destroyed.  SnpSourceX11Cursor: the   *)
(* shape of the cursor is sent when the X server says that it changed.     *)
(***************************************************************************)
EXTENDS Integers

-----------------------------------------------------------------------------
(* The mouse.                                                              *)

(* What setButton knows: bits 0 to 2 are buttons, bit 3 turns the wheel    *)
(* up, bit 4 down, the others only report.                                 *)
Buttons == 0 .. 2

(* The component and its device after construction: no device is open. *)
NewMouse == [open |-> FALSE, previousButtonMask |-> {}, pressed |-> {}, wheel |-> 0]

(* start(): the result of initMouse is not looked at. previousButtonMask   *)
(* is as the last run left it.                                             *)
StartMouse(s, opened) == [NewMouse EXCEPT !.open = opened,
                                          !.previousButtonMask = s.previousButtonMask]

StopMouse(s) == [NewMouse EXCEPT !.previousButtonMask = s.previousButtonMask]

(* Mutant: a button that is let go is not looked at. *)
PressedOnly(s, mask) == mask \ s.previousButtonMask

(* The bits that changed against the last mask. *)
Changed(s, mask) == (mask \ s.previousButtonMask) \cup (s.previousButtonMask \ mask)

(* setButton turns the wheel when its bit is set and once more when it is   *)
(* cleared.                                                                *)
Turns(bits) == (IF 3 \in bits THEN 1 ELSE 0) - (IF 4 \in bits THEN 1 ELSE 0)

(* onInputData for a message with a mask: what changed is sent, to nobody   *)
(* when no device is open. (A message without one only moves the pointer.) *)
SetButtons(s, mask) ==
  LET changed == Changed(s, mask) IN
  [open |-> s.open,
   previousButtonMask |-> mask,
   pressed |-> IF s.open THEN (s.pressed \cup (changed \cap mask \cap Buttons))
                                \ (changed \ mask)
                         ELSE {},
   wheel |-> IF s.open THEN Turns(changed) ELSE 0]

-----------------------------------------------------------------------------
(* The keyboard remembers nothing but its device.                          *)

NewKeyboard == [open |-> FALSE, pressed |-> {}]

StartKeyboard(opened) == [NewKeyboard EXCEPT !.open = opened]

(* Mutant: key is pressed whatever the message says. *)
DownOnly(s, key, down) ==
  IF s.open THEN [s EXCEPT !.pressed = @ \cup {key}] ELSE s

(* keyDown() and keyUp() of the key the code stands for. *)
SetKey(s, key, down) ==
  IF ~s.open THEN s
  ELSE IF down THEN [s EXCEPT !.pressed = @ \cup {key}]
  ELSE [s EXCEPT !.pressed = @ \ {key}]

-----------------------------------------------------------------------------
(* The cursor: the one that is shown, the events that wait, the serial of  *)
(* the last image that was looked at, and the last image sent. The thread  *)
(* of a new component has no event to wait for yet.                        *)

NewCursor(shown) == [shown |-> shown, events |-> 0, lastCursorSerial |-> 0, sent |-> 0]

ShowCursor(s, cursor) ==
  [shown |-> cursor, events |-> s.events + 1, lastCursorSerial |-> s.lastCursorSerial,
   sent |-> s.sent]

(* Mutant: serials are taken to increase. *)
CursorIsLater(s) ==
  IF s.shown <= s.lastCursorSerial THEN [s EXCEPT !.events = @ - 1]
  ELSE [s EXCEPT !.events = @ - 1, !.lastCursorSerial = s.shown, !.sent = s.shown]

(* One round of runX11Loop(): the image is that of the cursor that is      *)
(* shown now, which may be newer than the event.                           *)
CursorNotify(s) ==
  IF s.shown = s.lastCursorSerial THEN [s EXCEPT !.events = @ - 1]
  ELSE [s EXCEPT !.events = @ - 1, !.lastCursorSerial = s.shown, !.sent = s.shown]

=============================================================================
