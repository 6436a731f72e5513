----------------------------- MODULE SnpClient -----------------------------
(***************************************************************************)
(* The client program: its main thread, which wires the local pipes to the *)
(* network source and starts them (snpclient.cpp), and the thread of       *)
(* SnpSourceNetworkTcp, which connects, receives, parses and pushes every  *)
(* picture through SnpPort into the decoder and the display of its pipe.   *)
(*                                                                         *)
(* The server is the environment: it greets a connection with one          *)
(* Capabilities message and streams pictures once it has pipes, those the  *)
(* client's Setup made it create or those of an earlier client, which are  *)
(* never stopped.                                                          *)
(***************************************************************************)
EXTENDS SnpProtobuf

CONSTANTS
  NumLocalPipes,   (* pipes of the [local] section of snp.ini, ids 0 .. n-1 *)
  MaxFrames        (* bound: pictures the server sends                     *)

ASSUME ClientAssumption == NumLocalPipes \in Nat \ {0} /\ MaxFrames \in Nat

VARIABLES
  (* the server and the connection *)
  streaming,     (* the server has running pipes                           *)
  greeted,       (* the server has sent Capabilities on this connection    *)
  sent,          (* sent[f] is the pipe of picture f, in sending order     *)
  peer,          (* "none", "open", "closed" (FIN) or "reset"              *)
  inFlight,      (* units on their way to the client                       *)
  (* SnpSourceNetworkTcp *)
  running,       (* start() was called: the receiving thread exists        *)
  connected,     (* member `connected`                                     *)
  buffer,        (* member `buffer`: units received and not yet parsed     *)
  setups,        (* Setup messages sent                                    *)
  delivered,     (* every call of outputPort.onData, as [frame, pipe]      *)
  (* the main thread and the local pipes *)
  wired,         (* addComponentBegin() was called on pipes 0 .. wired-1   *)
  started,       (* start() was called on pipes 0 .. started-1             *)
  painter,       (* the display of pipe 0 has its callback                 *)
  dead           (* "no", or the uncaught exception that ended the process *)

serverVars == << streaming, greeted, sent, peer >>
mainVars   == << wired, started, painter, running >>
sourceVars == << connected, buffer, setups, delivered >>
vars == << serverVars, inFlight, mainVars, sourceVars, dead >>

Delivery == [frame : Nat, pipe : Nat]

Init ==
  /\ streaming \in BOOLEAN
  /\ greeted = FALSE /\ sent = << >> /\ peer = "none" /\ inFlight = << >>
  /\ running = FALSE /\ connected = FALSE /\ buffer = << >>
  /\ setups = 0 /\ delivered = << >>
  /\ wired = 0 /\ started = 0 /\ painter = FALSE
  /\ dead = "no"

-----------------------------------------------------------------------------
(* The server and the network.                                             *)

SendCapabilities ==
  /\ peer = "open" /\ ~greeted
  /\ greeted' = TRUE
  /\ inFlight' = inFlight \o Serialized("CAPABILITIES", 0, 0)
  /\ UNCHANGED << streaming, sent, peer, mainVars, sourceVars, dead >>

SendData(p) ==
  /\ peer = "open" /\ streaming /\ Len(sent) < MaxFrames
  /\ sent' = Append(sent, p)
  /\ inFlight' = inFlight \o Serialized("DATA", Len(sent) + 1, p)
  /\ UNCHANGED << streaming, greeted, peer, mainVars, sourceVars, dead >>

ServerStartsPipes ==
  /\ setups > 0 /\ ~streaming
  /\ streaming' = TRUE
  /\ UNCHANGED << greeted, sent, peer, inFlight, mainVars, sourceVars, dead >>

(* The server ends the connection; when it is killed inside send(), the    *)
(* end of the stream is missing.                                           *)
Close ==
  /\ peer = "open"
  /\ peer' = "closed"
  /\ \E n \in 0 .. Len(inFlight) : inFlight' = SubSeq(inFlight, 1, n)
  /\ UNCHANGED << streaming, greeted, sent, mainVars, sourceVars, dead >>

(* A reset also discards what was not received yet. *)
Reset ==
  /\ peer \in {"open", "closed"}
  /\ peer' = "reset"
  /\ inFlight' = << >>
  /\ UNCHANGED << streaming, greeted, sent, mainVars, sourceVars, dead >>

-----------------------------------------------------------------------------
(* The main thread: runClient().                                           *)

(* pipe->addComponentBegin(sourceNetworkTcp): SnpPort::connect enters the  *)
(* pipe into the target ports of the source.                               *)
Wire ==
  /\ dead = "no"
  /\ wired = started /\ wired < NumLocalPipes
  /\ wired' = wired + 1
  /\ UNCHANGED << serverVars, inFlight, started, painter, running, sourceVars, dead >>

(* pipe->start(): display, decoder and, the first time, the source, whose  *)
(* start() spawns the receiving thread.                                    *)
StartPipe ==
  /\ dead = "no"
  /\ started < wired
  /\ started' = started + 1
  /\ running' = TRUE
  /\ UNCHANGED << serverVars, inFlight, wired, painter, sourceVars, dead >>

(* sinkDisplay->getInputPort(0)->setOnDataCb(...), on localPipes[0] only.  *)
SetPainter ==
  /\ dead = "no"
  /\ started = NumLocalPipes /\ ~painter
  /\ painter' = TRUE
  /\ UNCHANGED << serverVars, inFlight, wired, started, running, sourceVars, dead >>

-----------------------------------------------------------------------------
(* The receiving thread: SnpSourceNetworkTcp::connectToServer().           *)

(* connect() can succeed once on the one socket createSocket() made.  A    *)
(* failed attempt changes nothing and is repeated: a stuttering step.      *)
Connect ==
  /\ dead = "no" /\ running /\ ~connected
  /\ peer = "none"
  /\ peer' = "open"
  /\ connected' = TRUE
  /\ UNCHANGED << streaming, greeted, sent, inFlight, mainVars, buffer, setups, delivered, dead >>

(* Mutant: the callback is set on the display of another pipe. *)
DecodeOtherPainter(p) ==
  \/ UNCHANGED dead
  \/ /\ p # 1 \/ ~painter
     /\ dead' = "bad_function_call"

(* The decoder of pipe p either has a picture for its display or not (for  *)
(* an empty payload it tests an uninitialised status: either).  Its        *)
(* display calls onDataCb, which is an empty std::function until somebody  *)
(* sets it.                                                                *)
Decode(p) ==
  \/ UNCHANGED dead
  \/ /\ p # 0 \/ ~painter
     /\ dead' = "bad_function_call"

(* SnpPort::onData: targetPorts.at(p) throws for a pipe that is not wired; *)
(* a decoder that is not running yet drops the data.                       *)
OnData(p, f) ==
  /\ delivered' = Append(delivered, [frame |-> f, pipe |-> p])
  /\ \/ p >= wired /\ dead' = "out_of_range"
     \/ p < wired /\ p >= started /\ UNCHANGED dead
     \/ p < started /\ Decode(p)

(* Mutant: a Setup for every pipe of the configuration. *)
SendSetupForEveryPipe ==
  \/ /\ setups' = setups + NumLocalPipes
     /\ UNCHANGED connected
  \/ /\ peer # "open"
     /\ connected' = FALSE
     /\ UNCHANGED setups

(* handleCapabilitiesMessageCb -> sendSetupMessage, which returns after    *)
(* the first pipe of the remote configuration.                             *)
SendSetup ==
  \/ /\ setups' = setups + 1
     /\ UNCHANGED connected
  \/ /\ peer # "open"
     /\ connected' = FALSE
     /\ UNCHANGED setups

(* dispatch() on a buffer that parses. *)
Handle(b) ==
  \/ /\ ParsedType(b) = "DATA"
     /\ OnData(ParsedPipe(b, "DATA"), ParsedFrame(b))
     /\ UNCHANGED << connected, setups >>
  \/ /\ ParsedType(b) = "CAPABILITIES"
     /\ SendSetup
     /\ UNCHANGED << delivered, dead >>
  \/ /\ ParsedType(b) = "SETUP"
     /\ UNCHANGED << connected, setups, delivered, dead >>

(* Mutants: the buffer is not cleared after a message was handled, or it   *)
(* is cleared whether or not it parsed.                                    *)
DispatchKeepsBuffer(b) ==
  \/ /\ ~Parses(b)
     /\ buffer' = b
     /\ UNCHANGED << connected, setups, delivered, dead >>
  \/ /\ Parses(b)
     /\ buffer' = b
     /\ Handle(b)

DispatchAlwaysClears(b) ==
  \/ /\ ~Parses(b)
     /\ buffer' = << >>
     /\ UNCHANGED << connected, setups, delivered, dead >>
  \/ /\ Parses(b)
     /\ buffer' = << >>
     /\ Handle(b)

(* buffer.insert(...), dispatch() and, if it parsed, buffer.clear(). *)
Dispatch(b) ==
  \/ /\ ~Parses(b)
     /\ buffer' = b
     /\ UNCHANGED << connected, setups, delivered, dead >>
  \/ /\ Parses(b)
     /\ buffer' = << >>
     /\ Handle(b)

(* Mutant: what was received before is overwritten. *)
RecvOverwriting(n) ==
  /\ dead = "no" /\ connected
  /\ inFlight' = SubSeq(inFlight, n + 1, Len(inFlight))
  /\ Dispatch(SubSeq(inFlight, 1, n))
  /\ UNCHANGED << serverVars, mainVars >>

(* recv() returns any non-empty prefix of what has arrived. *)
Recv(n) ==
  /\ dead = "no" /\ connected
  /\ inFlight' = SubSeq(inFlight, n + 1, Len(inFlight))
  /\ Dispatch(buffer \o SubSeq(inFlight, 1, n))
  /\ UNCHANGED << serverVars, mainVars >>

RecvSome == \E n \in 1 .. Len(inFlight) : Recv(n)

(* After an orderly close recv() returns 0, again and again; 0 is not      *)
(* treated as the end of the connection.                                   *)
RecvNothing ==
  /\ peer = "closed" /\ inFlight = << >>
  /\ Recv(0)

(* recv() returns -1. *)
RecvError ==
  /\ dead = "no" /\ connected /\ peer = "reset"
  /\ connected' = FALSE
  /\ UNCHANGED << serverVars, inFlight, mainVars, buffer, setups, delivered, dead >>

-----------------------------------------------------------------------------
Server == SendCapabilities \/ (\E p \in Pipes : SendData(p)) \/ ServerStartsPipes
            \/ Close \/ Reset

MainThread == Wire \/ StartPipe \/ SetPainter

SourceThread == Connect \/ RecvSome \/ RecvNothing \/ RecvError

Next == Server \/ MainThread \/ SourceThread

Spec == Init /\ [][Next]_vars

(* The operating system schedules both threads of the client; the server's *)
(* listen thread sends Capabilities right after accept().                  *)
FairSpec ==
  /\ Spec
  /\ WF_vars(MainThread)
  /\ WF_vars(SourceThread)
  /\ WF_vars(SendCapabilities)

-----------------------------------------------------------------------------
(* Properties.                                                             *)

(* Every variable has its type. *)
TypeOK ==
  /\ streaming \in BOOLEAN /\ greeted \in BOOLEAN
  /\ sent \in Seq(Pipes)
  /\ peer \in {"none", "open", "closed", "reset"}
  /\ inFlight \in Seq(Unit) /\ buffer \in Seq(Unit)
  /\ running \in BOOLEAN /\ connected \in BOOLEAN
  /\ setups \in Nat
  /\ delivered \in Seq(Delivery)
  /\ wired \in 0 .. NumLocalPipes /\ started \in 0 .. NumLocalPipes
  /\ painter \in BOOLEAN
  /\ dead \in {"no", "out_of_range", "bad_function_call"}

(* However recv() cuts the stream, the receiver keeps its place in it: it  *)
(* holds bytes back only while a field is incomplete, what it holds starts *)
(* at a field, and once everything the server sent has arrived nothing is  *)
(* left behind (SnpSourceNetworkTcp::connectToServer and dispatch).        *)
KeepsItsPlace ==
  /\ buffer # << >> => buffer[1].part # "body" /\ buffer[Len(buffer)].part = "head"
  /\ peer = "open" /\ inFlight = << >> => buffer = << >>

(* The decoder sees pictures in sending order and none of them twice,      *)
(* although one buffer can hold several messages, or parts of them         *)
(* (SnpSourceNetworkTcp::dispatch).                                        *)
InOrder ==
  \A j \in DOMAIN delivered :
    delivered[j].frame # 0 =>
      /\ delivered[j].frame <= Len(sent)
      /\ \A i \in 1 .. j - 1 : delivered[i].frame < delivered[j].frame

(* A picture of a pipe other than 0 reaches its own pipe even when its     *)
(* message was merged with others; only the pipe id 0, which is not        *)
(* written, can be overridden (SnpSinkNetworkTcp::sendDataMessage,         *)
(* SnpSourceNetworkTcp::dispatch).                                         *)
NonzeroPipeKept ==
  \A i \in DOMAIN delivered :
    LET d == delivered[i] IN
    d.frame # 0 /\ sent[d.frame] # 0 => d.pipe = sent[d.frame]

(* One connection makes the client send at most one Setup, also when the   *)
(* Capabilities message arrives in pieces that each parse                  *)
(* (handleCapabilitiesMessageCb); each Setup would start every pipe of the *)
(* server once more.                                                       *)
AtMostOneSetup == setups <= 1

(* Once runClient() has returned, no picture of pipe 0, and no empty one   *)
(* that a cut message turns into, can end the client with an uncaught      *)
(* exception (SnpPort::onData).                                            *)
SafeAfterStartup ==
  [][ painter /\ dead = "no" /\ dead' # "no" => delivered'[Len(delivered')].pipe # 0 ]_vars

(* Every picture, in sending order, is lost or given once to a pipe, its   *)
(* own unless that is 0: the link is a lossy channel (SnpSourceNetworkTcp, *)
(* SnpPort::onData).                                                       *)
Channel == INSTANCE LossyChannel WITH received <- delivered

ImplementsChannel == Channel!Spec

(* With a server that has no pipes yet, the greeting is always answered:   *)
(* the client sends its Setup unless the connection is lost                *)
(* (SnpSinkNetworkTcp::sendCapabilitiesMessage,                            *)
(* handleCapabilitiesMessageCb).                                           *)
GreetingAnswered == (greeted /\ ~streaming) ~> (setups > 0 \/ peer # "open")

(* "data is fed into correct pipe according to streamId" (TODO.md): a      *)
(* picture is given to the pipe whose id its message was sent with.        *)
DataIsFedIntoCorrectPipe ==
  \A i \in DOMAIN delivered :
    LET d == delivered[i] IN d.frame # 0 => d.pipe = sent[d.frame]

(* "paint on every frame" (snpclient.cpp): no decoded picture of pipe 0    *)
(* finds its display without the callback that paints it.                  *)
PaintOnEveryFrame ==
  dead = "bad_function_call" =>
    LET last == delivered[Len(delivered)] IN last.pipe # 0 \/ last.frame = 0

=============================================================================
