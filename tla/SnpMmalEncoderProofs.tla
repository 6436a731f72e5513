------------------------ MODULE SnpMmalEncoderProofs ------------------------
(* No capture thread waits for ever in SnpEncoderMmalH264, and the coded    *)
(* pieces leave in order, for any number of buffer headers on either port,  *)
(* pieces of a picture and pictures.                                        *)
EXTENDS SnpMmalEncoder, TLAPS

(* Once a picture has been handed over, an input header is out, or the      *)
(* semaphore holds the post (or the first count) that stands for it.        *)
Fed ==
    alive /\ pc \in {"drain", "sendOutput", "idle", "wait"} =>
        semaphore > 0 \/ inPosts > 0 \/ hwRead > 0 \/ hwIn > 0

(* Between two calls every output header is out, but before the first call, *)
(* when the semaphore is at 1.                                              *)
Room == alive /\ pc \in {"idle", "wait"} => semaphore > 0 \/ poolOut = 0

IInv == TypeOK /\ QueuedIsAnnounced /\ Fed /\ Room

LEMMA InitIInv == Init => IInv
  BY ConstantsAssumption
  DEF Init, IInv, TypeOK, QueuedIsAnnounced, Fed, Room

LEMMA StepIInv == IInv /\ [Next]_vars => IInv'
<1> SUFFICES ASSUME IInv, [Next]_vars PROVE IInv'
  OBVIOUS
<1> USE ConstantsAssumption
<1>1. CASE OnInputData
  BY <1>1 DEF OnInputData, inVars, outVars, IInv, TypeOK, QueuedIsAnnounced, Fed, Room
<1>2. CASE UseAfterCleanup
  BY <1>2 DEF UseAfterCleanup, inVars, outVars, IInv, TypeOK, QueuedIsAnnounced, Fed, Room
<1>3. CASE SendFails
  BY <1>3 DEF SendFails, inVars, outVars, IInv, TypeOK, QueuedIsAnnounced, Fed, Room
<1>4. CASE SemaphoreWait
  BY <1>4 DEF SemaphoreWait, inVars, outVars, IInv, TypeOK, QueuedIsAnnounced, Fed, Room
<1>5. CASE SendInput
  <2>1. TypeOK'
    <3>1. CASE poolIn > 0 /\ poolIn' = poolIn - 1 /\ hwIn' = hwIn + 1
      BY <1>5, <3>1 DEF SendInput, outVars, IInv, TypeOK
    <3>2. CASE UNCHANGED <<poolIn, hwIn>>
      BY <1>5, <3>2 DEF SendInput, outVars, IInv, TypeOK
    <3> QED
      BY <1>5, <3>1, <3>2 DEF SendInput
  <2>2. hwRead' > 0 \/ hwIn' > 0
    BY <1>5 DEF SendInput, outVars, IInv, TypeOK
  <2> QED
    BY <1>5, <2>1, <2>2 DEF SendInput, IInv, QueuedIsAnnounced, Fed, Room
<1>6. CASE DrainOne
  <2>1. queue' \in Seq(Nat) /\ output' \in Seq(Nat) /\ Len(queue') = Len(queue) - 1
    BY <1>6 DEF DrainOne, IInv, TypeOK
  <2>2. TypeOK'
    BY <1>6, <2>1 DEF DrainOne, threadVars, inVars, IInv, TypeOK
  <2> QED
    BY <1>6, <2>2 DEF DrainOne, threadVars, inVars, IInv, QueuedIsAnnounced, Fed, Room
<1>7. CASE DrainEnd
  BY <1>7 DEF DrainEnd, inVars, outVars, IInv, TypeOK, QueuedIsAnnounced, Fed, Room
<1>8. CASE SendOutput
  BY <1>8 DEF SendOutput, threadVars, inVars, IInv, TypeOK, QueuedIsAnnounced, Fed, Room
<1>9. CASE EncodeEnd
  BY <1>9 DEF EncodeEnd, inVars, outVars, IInv, TypeOK, QueuedIsAnnounced, Fed, Room
<1>10. CASE ReadPicture
  BY <1>10 DEF ReadPicture, threadVars, IInv, TypeOK, QueuedIsAnnounced, Fed, Room
<1>11. CASE InputRelease
  BY <1>11 DEF InputRelease, threadVars, outVars, IInv, TypeOK, QueuedIsAnnounced, Fed, Room
<1>12. CASE InputPost
  BY <1>12 DEF InputPost, threadVars, outVars, IInv, TypeOK, QueuedIsAnnounced, Fed, Room
<1>13. CASE OutputPut
  <2>1. queue' \in Seq(Nat) /\ Len(queue') = Len(queue) + 1
    BY <1>13 DEF OutputPut, IInv, TypeOK
  <2>2. TypeOK' /\ outPosts' > 0
    BY <1>13, <2>1 DEF OutputPut, threadVars, inVars, IInv, TypeOK
  <2> QED
    BY <1>13, <2>2 DEF OutputPut, threadVars, inVars, IInv, QueuedIsAnnounced, Fed, Room
<1>14. CASE OutputPost
  BY <1>14 DEF OutputPost, threadVars, inVars, IInv, TypeOK, QueuedIsAnnounced, Fed, Room
<1>15. CASE UNCHANGED vars
  BY <1>15 DEF vars, threadVars, inVars, outVars, IInv, TypeOK, QueuedIsAnnounced, Fed, Room
<1> QED
  BY <1>1, <1>2, <1>3, <1>4, <1>5, <1>6, <1>7, <1>8, <1>9, <1>10, <1>11, <1>12, <1>13,
     <1>14, <1>15
  DEF Next, Encode, Hardware

(* The variables keep their types and no buffer header is lost or shared.   *)
THEOREM HeadersAreKept == Spec => []TypeOK
<1>1. IInv => TypeOK
  BY DEF IInv
<1> QED
  BY <1>1, InitIInv, StepIInv, PTL DEF Spec

(* What the output callback puts behind the drain is announced by a post.   *)
THEOREM PiecesAreAnnounced == Spec => []QueuedIsAnnounced
<1>1. IInv => QueuedIsAnnounced
  BY DEF IInv
<1> QED
  BY <1>1, InitIInv, StepIInv, PTL DEF Spec

(* At the wait of mmalEncoderEncode() with nothing to wait for yet, no      *)
(* piece is queued and no output header is in the pool, so all are at the   *)
(* hardware, which has a header of the input port as well: a post comes.    *)
LEMMA StarvesNever == IInv => NeverStarves
<1> SUFFICES ASSUME IInv, alive, pc = "wait", semaphore = 0,
                    ~(inPosts > 0 \/ outPosts > 0 \/ hwRead > 0)
             PROVE  (pieces > 0 /\ hwOut > 0) \/ (pieces = 0 /\ hwIn > 0)
  BY DEF NeverStarves
<1>1. hwIn > 0
  BY DEF IInv, Fed, TypeOK
<1>2. queue = <<>> /\ poolOut = 0
  BY DEF IInv, QueuedIsAnnounced, Room, TypeOK
<1>3. hwOut > 0
  BY <1>2, ConstantsAssumption DEF IInv, TypeOK
<1> QED
  BY <1>1, <1>3 DEF IInv, TypeOK

(* No wait is for ever: what wakes the capture thread is on its way.        *)
THEOREM WaitingThreadIsWoken == Spec => []NeverStarves
  BY StarvesNever, InitIInv, StepIInv, PTL DEF Spec

-----------------------------------------------------------------------------
(* The order of the pieces.                                                 *)

(* A drain moves a piece from the head of the queue to the end of the       *)
(* output, which leaves what the two hold together.                         *)
LEMMA DrainMoves ==
  ASSUME NEW S, NEW out \in Seq(S), NEW q \in Seq(S), q # <<>>
  PROVE  Append(out, Head(q)) \o Tail(q) = out \o q
<1> DEFINE a == Append(out, Head(q)) \o Tail(q)
           b == out \o q
<1>1. a \in Seq(S) /\ b \in Seq(S) /\ Len(a) = Len(b)
  OBVIOUS
<1>2. ASSUME NEW i \in 1..Len(b) PROVE a[i] = b[i]
  <2>1. CASE i <= Len(out)
    BY <2>1
  <2>2. CASE i = Len(out) + 1
    BY <2>2
  <2>3. CASE i > Len(out) + 1
    BY <2>3
  <2> QED
    BY <2>1, <2>2, <2>3
<1> QED
  BY <1>1, <1>2

(* The numbers up to n, and the next.                                       *)
LEMMA AppendNext ==
  ASSUME NEW n \in Nat
  PROVE  Append([i \in 1..n |-> i], n + 1) = [i \in 1..n + 1 |-> i]
<1> DEFINE s == [i \in 1..n |-> i]
           t == [i \in 1..n + 1 |-> i]
<1>1. s \in Seq(Nat) /\ Len(s) = n /\ t \in Seq(Nat) /\ Len(t) = n + 1
  OBVIOUS
<1>2. Append(s, n + 1) \in Seq(Nat) /\ Len(Append(s, n + 1)) = n + 1
  BY <1>1
<1>3. ASSUME NEW i \in 1..n + 1 PROVE Append(s, n + 1)[i] = t[i]
  BY <1>1
<1> HIDE DEF s, t
<1> QED
  BY <1>1, <1>2, <1>3

(* No other step of the thread or of the hardware touches the pieces.       *)
LEMMA StepPieces ==
  TypeOK /\ PiecesInOrder /\ [Next]_vars => PiecesInOrder'
<1> SUFFICES ASSUME TypeOK, PiecesInOrder, [Next]_vars PROVE PiecesInOrder'
  OBVIOUS
<1>1. CASE DrainOne
  <2>1. output' \o queue' = output \o queue
    BY <1>1, DrainMoves DEF DrainOne, TypeOK
  <2> QED
    BY <1>1, <2>1 DEF DrainOne, PiecesInOrder
<1>2. CASE OutputPut
  <2>1. output \o queue' = Append(output \o queue, coded + 1)
    BY <1>2 DEF OutputPut, TypeOK
  <2>2. output' \o queue' = Append([i \in 1..coded |-> i], coded + 1)
    BY <1>2, <2>1 DEF OutputPut, PiecesInOrder
  <2>3. Append([i \in 1..coded |-> i], coded + 1) = [i \in 1..coded + 1 |-> i]
    BY AppendNext DEF TypeOK
  <2> QED
    BY <1>2, <2>2, <2>3 DEF OutputPut, PiecesInOrder
<1>3. CASE UNCHANGED <<output, queue, coded>>
  BY <1>3 DEF PiecesInOrder
<1> QED
  BY <1>1, <1>2, <1>3
  DEF Next, Encode, Hardware, OnInputData, UseAfterCleanup, SendFails, SemaphoreWait, SendInput,
      DrainEnd, SendOutput, EncodeEnd, ReadPicture, InputRelease, InputPost, OutputPost, vars,
      threadVars, inVars, outVars

(* The pieces of the H.264 stream reach the output port in the order they   *)
(* were coded, none lost and none twice.                                    *)
THEOREM StreamIsInOrder == Spec => []PiecesInOrder
<1>1. Init => PiecesInOrder
  BY DEF Init, PiecesInOrder
<1> QED
  BY <1>1, StepPieces, HeadersAreKept, PTL DEF Spec
=============================================================================
