---------------------------- MODULE LossyChannel ----------------------------
(***************************************************************************)
(* What the TCP link promises to the decoders: pictures may be lost and    *)
(* empty ones may appear, but a picture is never repeated, reordered or    *)
(* invented, and one of a pipe other than 0 is given to that pipe.         *)
(***************************************************************************)
EXTENDS Naturals, Sequences

CONSTANTS
  Pipes      (* pipe ids *)

VARIABLES
  sent,      (* sent[f] is the pipe of picture f                            *)
  received   (* what was given to the pipes, as [frame, pipe]; 0 is empty   *)

Init == sent = << >> /\ received = << >>

Send(p) == sent' = Append(sent, p) /\ UNCHANGED received

Newer(f) == \A i \in DOMAIN received : received[i].frame < f

(* Deliver some picture newer than all delivered ones; those skipped are   *)
(* lost for good.                                                          *)
Deliver(f, p) ==
  /\ Newer(f)
  /\ sent[f] # 0 => p = sent[f]
  /\ received' = Append(received, [frame |-> f, pipe |-> p])
  /\ UNCHANGED sent

DeliverEmpty(p) ==
  /\ received' = Append(received, [frame |-> 0, pipe |-> p])
  /\ UNCHANGED sent

Next ==
  \E p \in Pipes : Send(p) \/ DeliverEmpty(p) \/ \E f \in DOMAIN sent : Deliver(f, p)

Spec == Init /\ [][Next]_<<sent, received>>

=============================================================================
