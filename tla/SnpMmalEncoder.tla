--------------------------- MODULE SnpMmalEncoder ---------------------------
(* SnpEncoderMmalH264: a picture of the source makes the capture thread run *)
(* mmalEncoderEncode(), which waits on a semaphore that the two callbacks   *)
(* of the hardware post.  Buffer headers go round: input headers between    *)
(* pool_in and the hardware, output headers from pool_out to the hardware,  *)
(* from there, filled, through the queue back to pool_out.                  *)
(*                                                                          *)
(* The hardware may read a picture as soon as it has an input header, cuts  *)
(* it into one to MaxPieces pieces (a piece fills one output header) and    *)
(* gives the input header back at any time after.  A callback is two steps, *)
(* for the capture thread may run between them.  All input headers refer to *)
(* the one DMA buffer of the source: what picture a piece shows is left out.*)
EXTENDS Naturals, Sequences

CONSTANTS
    NumIn,       \* buffer_num of the input port
    NumOut,      \* buffer_num of the output port
    MaxPieces,   \* bound: output headers one picture takes
    MaxPictures  \* bound: pictures of the source

ASSUME ConstantsAssumption ==
    /\ NumIn \in Nat \ {0}
    /\ NumOut \in Nat \ {0}
    /\ MaxPieces \in Nat \ {0}
    /\ MaxPictures \in Nat

VARIABLES
    pc,         \* where the capture thread is in mmalEncoderEncode()
    alive,      \* mmalEncoderCleanup() has not run
    semaphore,
    poolIn,     \* input headers in pool_in
    hwIn,       \* input headers whose picture the hardware has not read
    hwRead,     \* input headers it has read and not given back
    inPosts,    \* input callbacks between release and post
    poolOut,    \* output headers in pool_out
    hwOut,      \* empty output headers at the hardware
    pieces,     \* pieces of the picture being coded, still to come
    queue,      \* filled output headers, by the number of their piece
    outPosts,   \* output callbacks between put and post
    pictures,   \* pictures the source gave so far
    coded,      \* pieces coded so far
    output      \* pieces passed to the output port

threadVars == <<pc, alive, pictures>>
inVars == <<poolIn, hwIn, hwRead, inPosts>>
outVars == <<poolOut, hwOut, pieces, queue, outPosts, coded, output>>
vars == <<threadVars, semaphore, inVars, outVars>>

(* Mutant: the semaphore is created at 0, the headers of the full pools are *)
(* not announced.                                                           *)
InitAtZero ==
    /\ pc = "idle" /\ alive \in BOOLEAN /\ pictures = 0
    /\ semaphore = 0
    /\ poolIn = NumIn /\ hwIn = 0 /\ hwRead = 0 /\ inPosts = 0
    /\ poolOut = NumOut /\ hwOut = 0 /\ pieces = 0 /\ queue = <<>>
    /\ outPosts = 0 /\ coded = 0 /\ output = <<>>

(* start() ignores the result of mmalEncoderInit(): the component may run   *)
(* with everything cleaned up.                                              *)
Init ==
    /\ pc = "idle" /\ alive \in BOOLEAN /\ pictures = 0
    /\ semaphore = 1
    /\ poolIn = NumIn /\ hwIn = 0 /\ hwRead = 0 /\ inPosts = 0
    /\ poolOut = NumOut /\ hwOut = 0 /\ pieces = 0 /\ queue = <<>>
    /\ outPosts = 0 /\ coded = 0 /\ output = <<>>

-----------------------------------------------------------------------------
(* The capture thread.                                                      *)

OnInputData ==
    /\ pc = "idle" /\ pictures < MaxPictures
    /\ pc' = "wait"
    /\ pictures' = pictures + 1
    /\ UNCHANGED <<alive, semaphore, inVars, outVars>>

SemaphoreWait ==
    /\ pc = "wait" /\ alive /\ semaphore > 0
    /\ pc' = "sendInput"
    /\ semaphore' = semaphore - 1
    /\ UNCHANGED <<alive, pictures, inVars, outVars>>

(* A semaphore that was deleted and pools that were freed: undefined        *)
(* behaviour, of which the model follows no outcome.                        *)
UseAfterCleanup ==
    /\ pc = "wait" /\ ~alive
    /\ pc' = "undefined"
    /\ UNCHANGED <<alive, pictures, semaphore, inVars, outVars>>

(* At most one picture is handed over, and none when every input header is  *)
(* out: the picture is skipped.                                             *)
SendInput ==
    /\ pc = "sendInput"
    /\ pc' = "drain"
    /\ \/ /\ poolIn > 0
          /\ poolIn' = poolIn - 1
          /\ hwIn' = hwIn + 1
       \/ /\ poolIn = 0
          /\ UNCHANGED <<poolIn, hwIn>>
    /\ UNCHANGED <<alive, pictures, semaphore, hwRead, inPosts, outVars>>

(* Mutant: the header of a piece that went out is not released to its pool. *)
DrainKeepsHeader ==
    /\ pc = "drain" /\ queue # <<>>
    /\ output' = Append(output, Head(queue))
    /\ queue' = Tail(queue)
    /\ UNCHANGED <<threadVars, semaphore, inVars, poolOut, hwOut, pieces, outPosts, coded>>

DrainOne ==
    /\ pc = "drain" /\ queue # <<>>
    /\ output' = Append(output, Head(queue))
    /\ queue' = Tail(queue)
    /\ poolOut' = poolOut + 1
    /\ UNCHANGED <<threadVars, semaphore, inVars, hwOut, pieces, outPosts, coded>>

DrainEnd ==
    /\ pc = "drain" /\ queue = <<>>
    /\ pc' = "sendOutput"
    /\ UNCHANGED <<alive, pictures, semaphore, inVars, outVars>>

SendOutput ==
    /\ pc = "sendOutput" /\ poolOut > 0
    /\ poolOut' = poolOut - 1
    /\ hwOut' = hwOut + 1
    /\ UNCHANGED <<threadVars, semaphore, inVars, pieces, queue, outPosts, coded, output>>

EncodeEnd ==
    /\ pc = "sendOutput" /\ poolOut = 0
    /\ pc' = "idle"
    /\ UNCHANGED <<alive, pictures, semaphore, inVars, outVars>>

(* mmal_port_send_buffer() fails: everything is freed, the component is     *)
(* still "running".                                                         *)
SendFails ==
    /\ \/ pc = "sendInput" /\ poolIn > 0
       \/ pc = "sendOutput" /\ poolOut > 0
    /\ pc' = "idle"
    /\ alive' = FALSE
    /\ UNCHANGED <<pictures, semaphore, inVars, outVars>>

-----------------------------------------------------------------------------
(* The hardware and its callbacks.                                          *)

ReadPicture ==
    /\ alive /\ hwIn > 0 /\ pieces = 0
    /\ hwIn' = hwIn - 1
    /\ hwRead' = hwRead + 1
    /\ pieces' \in 1..MaxPieces
    /\ UNCHANGED <<threadVars, semaphore, poolIn, inPosts, poolOut, hwOut, queue,
                   outPosts, coded, output>>

InputRelease ==
    /\ alive /\ hwRead > 0
    /\ hwRead' = hwRead - 1
    /\ poolIn' = poolIn + 1
    /\ inPosts' = inPosts + 1
    /\ UNCHANGED <<threadVars, semaphore, hwIn, outVars>>

InputPost ==
    /\ alive /\ inPosts > 0
    /\ inPosts' = inPosts - 1
    /\ semaphore' = semaphore + 1
    /\ UNCHANGED <<threadVars, poolIn, hwIn, hwRead, outVars>>

(* Mutant: mmal_queue_put_back() in place of mmal_queue_put().              *)
OutputPutBack ==
    /\ alive /\ pieces > 0 /\ hwOut > 0
    /\ pieces' = pieces - 1
    /\ hwOut' = hwOut - 1
    /\ coded' = coded + 1
    /\ queue' = <<coded'>> \o queue
    /\ outPosts' = outPosts + 1
    /\ UNCHANGED <<threadVars, semaphore, inVars, poolOut, output>>

OutputPut ==
    /\ alive /\ pieces > 0 /\ hwOut > 0
    /\ pieces' = pieces - 1
    /\ hwOut' = hwOut - 1
    /\ coded' = coded + 1
    /\ queue' = Append(queue, coded')
    /\ outPosts' = outPosts + 1
    /\ UNCHANGED <<threadVars, semaphore, inVars, poolOut, output>>

(* Mutant: the output callback forgets to kick the processing thread.       *)
OutputPostLost ==
    /\ alive /\ outPosts > 0
    /\ outPosts' = outPosts - 1
    /\ UNCHANGED <<threadVars, semaphore, inVars, poolOut, hwOut, pieces, queue, coded, output>>

OutputPost ==
    /\ alive /\ outPosts > 0
    /\ outPosts' = outPosts - 1
    /\ semaphore' = semaphore + 1
    /\ UNCHANGED <<threadVars, inVars, poolOut, hwOut, pieces, queue, coded, output>>

-----------------------------------------------------------------------------
Encode == \/ SemaphoreWait \/ SendInput \/ DrainOne \/ DrainEnd \/ SendOutput
          \/ EncodeEnd
Hardware == ReadPicture \/ InputRelease \/ InputPost \/ OutputPut \/ OutputPost

Next == OnInputData \/ UseAfterCleanup \/ SendFails \/ Encode \/ Hardware

Spec == Init /\ [][Next]_vars

(* The capture thread runs on when it may, the hardware codes what it has   *)
(* when it has room for the result, and gives back what it has read.        *)
FairSpec ==
    /\ Spec
    /\ WF_vars(Encode)
    /\ WF_vars(ReadPicture) /\ WF_vars(InputRelease) /\ WF_vars(InputPost)
    /\ WF_vars(OutputPut) /\ WF_vars(OutputPost)

-----------------------------------------------------------------------------
(* Properties.                                                              *)

(* The types, and every buffer header is in exactly one place.              *)
TypeOK ==
    /\ pc \in {"idle", "wait", "sendInput", "drain", "sendOutput", "undefined"}
    /\ alive \in BOOLEAN
    /\ pictures \in 0..MaxPictures
    /\ semaphore \in Nat /\ inPosts \in Nat /\ outPosts \in Nat
    /\ poolIn \in Nat /\ hwIn \in Nat /\ hwRead \in Nat
    /\ poolIn + hwIn + hwRead = NumIn
    /\ poolOut \in Nat /\ hwOut \in Nat /\ pieces \in 0..MaxPieces
    /\ queue \in Seq(Nat) /\ output \in Seq(Nat) /\ coded \in Nat
    /\ poolOut + hwOut + Len(queue) = NumOut

(* A capture thread that waits with the semaphore at zero will be woken: a  *)
(* callback is about to post, or the hardware has a header to give back or  *)
(* a picture and room for what it makes of it.  No wait is for ever, in     *)
(* whatever order the headers come back.                                    *)
NeverStarves ==
    alive /\ pc = "wait" /\ semaphore = 0 =>
        \/ inPosts > 0 \/ outPosts > 0 \/ hwRead > 0
        \/ pieces > 0 /\ hwOut > 0
        \/ pieces = 0 /\ hwIn > 0

(* A coded piece that was put in the queue after the drain has a post of    *)
(* its own still to be waited for: the next picture does not have to wait   *)
(* for the hardware before the piece goes out.                              *)
QueuedIsAnnounced ==
    alive /\ pc \in {"idle", "wait", "sendOutput"} /\ queue # <<>> =>
        semaphore > 0 \/ outPosts > 0

(* The output port gets the pieces in the order the hardware made them,     *)
(* each once: those in the queue are the ones that follow.                  *)
PiecesInOrder == output \o queue = [i \in 1..coded |-> i]

(* Every picture that was captured gets its call of mmalEncoderEncode()     *)
(* back, as long as nothing failed: the capture thread is never stuck.      *)
EncodeReturns == (alive /\ pc = "wait") ~> (pc = "idle")

=============================================================================
