---------------------------- MODULE SnpPipeline ----------------------------
(***************************************************************************)
(* One pipe, from the list of component types it is built from to its      *)
(* stop: SnpPipeFactory::createPipe and SnpPipe::addComponentEnd wire it,   *)
(* SnpPipe::start and SnpPipe::stop walk over its components on the thread *)
(* of the pipe's owner, and the source's capture thread, which nobody      *)
(* joins, pushes every picture through the callbacks of all components.    *)
(*                                                                         *)
(* What start() allocates and stop() frees (encoder, decoder, screen       *)
(* duplication, file) is one `handle` per component.  Using a handle that  *)
(* was freed is undefined behaviour: the process ends or goes on.          *)
(***************************************************************************)
EXTENDS Integers, Sequences, FiniteSets

CONSTANTS
  Lists,        (* lists of component types a pipe is asked for              *)
  MaxPictures,  (* bound: pictures the sources capture                       *)
  MaxStarts,    (* bound: calls of SnpPipe::start                            *)
  MaxStops,     (* bound: calls of SnpPipe::stop                             *)
  MaxHeld       (* pictures the AMF encoder or decoder holds at most         *)

Sources  == {"Dummy", "Dda"}
OpenH264 == {"EncOpenH264", "DecOpenH264"}
Amf      == {"EncAmf", "DecAmf"}
Codecs   == OpenH264 \cup Amf
Sinks    == {"Display", "File", "Tcp"}

(* Types createPipe() has no constructor for are all "Unknown". *)
Types == Sources \cup Codecs \cup Sinks \cup {"Unknown"}

ASSUME PipelineAssumption ==
  /\ Lists \subseteq Seq(Types) /\ << >> \notin Lists
  /\ MaxPictures \in Nat /\ MaxStarts \in Nat /\ MaxStops \in Nat
  /\ MaxHeld \in Nat \ {0}

(* The stream types of getInputPort(0) and getOutputPort(0). *)
InputPort(t) ==
  CASE t \in {"EncOpenH264", "EncAmf", "Display"} -> "RGBA"
    [] t \in {"DecOpenH264", "DecAmf"} -> "H264"
    [] t \in {"File", "Tcp"} -> "GENERIC"
    [] OTHER -> "missing"

OutputPort(t) ==
  CASE t \in {"Dummy", "Dda", "DecOpenH264", "DecAmf"} -> "RGBA"
    [] t \in {"EncOpenH264", "EncAmf"} -> "H264"
    [] OTHER -> "missing"

(* Components whose start() allocates something. *)
Opens == {"Dda", "File"} \cup Codecs

VARIABLES
  list,       (* the types of the pipe's components, in the order of the data *)
  links,      (* i \in links: output i is connected to input i + 1            *)
  op, at,     (* what the owner is doing, and at which component              *)
  running,    (* the components whose member `running` is true                *)
  handle,     (* handle[i] is "null", "made" or "freed"                       *)
  failed,     (* components whose start() failed, which SnpPipe ignores       *)
  joinable,   (* the source's std::thread member holds a thread               *)
  threads,    (* the capture threads started, as [pc, pos, picture]           *)
  held,       (* held[i]: pictures inside AMF component i                     *)
  captured,   (* pictures captured; a picture is its number                   *)
  late,       (* pictures captured while the source was stopped               *)
  delivered,  (* pictures that were written to a file or sent                *)
  starts, stops,
  fault       (* what ended the process, or "none"                            *)

ownerVars == << op, at, starts, stops >>
pipeVars  == << list, links >>
partVars  == << running, handle, failed, joinable >>
dataVars  == << held, captured, late, delivered >>
vars == << ownerVars, pipeVars, partVars, threads, dataVars, fault >>

Faults == {"none", "nullComponent", "noPort", "notConnected", "noCallback",
           "nullHandle", "freedHandle", "joinableThread"}

Init ==
  /\ list = << >> /\ links = {}
  /\ op = "none" /\ at = 0 /\ starts = 0 /\ stops = 0
  /\ running = {} /\ handle = << >> /\ failed = {} /\ joinable = FALSE
  /\ threads = << >>
  /\ held = << >> /\ captured = 0 /\ late = 0 /\ delivered = << >>
  /\ fault = "none"

-----------------------------------------------------------------------------
(* The pipe is put together.                                               *)

(* SnpPort::canConnect *)
CanConnect(output, input) ==
  output = "GENERIC" \/ input = "GENERIC" \/ output = input

(* What createPipe() runs into: a type without a constructor leaves        *)
(* snpComponent null; ports.at(0) throws where there is no port.           *)
BuildFault(l) ==
  IF \E i \in DOMAIN l : l[i] = "Unknown" THEN "nullComponent"
  ELSE IF \E i \in 1 .. Len(l) - 1 :
            OutputPort(l[i]) = "missing" \/ InputPort(l[i + 1]) = "missing"
       THEN "noPort"
       ELSE "none"

(* Mutant: the ports of the next component but one are compared. *)
LinksShifted(l) ==
  {i \in 1 .. Len(l) - 2 : CanConnect(OutputPort(l[i]), InputPort(l[i + 2]))}

(* An incompatible pair stays unconnected: the result of addComponentEnd() *)
(* is not looked at.                                                       *)
Links(l) ==
  {i \in 1 .. Len(l) - 1 : CanConnect(OutputPort(l[i]), InputPort(l[i + 1]))}

(* createPipe(), and the addComponentEnd() of the network sink, which is   *)
(* shared by all pipes and has been running since the program started.     *)
Create(l) ==
  /\ op = "none"
  /\ list' = l /\ links' = Links(l)
  /\ running' = {i \in DOMAIN l : l[i] = "Tcp"}
  /\ handle' = [i \in DOMAIN l |-> "null"]
  /\ held' = [i \in DOMAIN l |-> << >>]
  /\ fault' = BuildFault(l)
  /\ op' = "idle"
  /\ UNCHANGED << at, starts, stops, failed, joinable, threads, captured, late, delivered >>

-----------------------------------------------------------------------------
(* SnpPipe::start(): the last component first.                             *)

(* Mutant: the walk backwards begins at the first component. *)
StartAtFirst ==
  /\ op = "idle" /\ fault = "none" /\ starts < MaxStarts
  /\ starts' = starts + 1
  /\ op' = "start" /\ at' = 1
  /\ UNCHANGED << stops, pipeVars, partVars, threads, dataVars, fault >>

Start ==
  /\ op = "idle" /\ fault = "none" /\ starts < MaxStarts
  /\ starts' = starts + 1
  /\ op' = "start" /\ at' = Len(list)
  /\ UNCHANGED << stops, pipeVars, partVars, threads, dataVars, fault >>

(* if(!components[i]->isRunning()) *)
SkipRunning ==
  /\ op = "start" /\ at > 0 /\ fault = "none" /\ at \in running
  /\ at' = at - 1
  /\ UNCHANGED << op, starts, stops, pipeVars, partVars, threads, dataVars, fault >>

(* Every start() calls SnpComponent::start() before anything else. *)
MarkRunning ==
  /\ op = "start" /\ at > 0 /\ fault = "none" /\ at \notin running
  /\ running' = running \cup {at}
  /\ op' = "init"
  /\ UNCHANGED << at, starts, stops, pipeVars, handle, failed, joinable, threads,
                  dataVars, fault >>

AfterInit ==
  IF list[at] \in Sources THEN op' = "spawn" /\ UNCHANGED at
                          ELSE op' = "start" /\ at' = at - 1

(* The shared D3D device: each stop() of a Dda releases it, though nothing *)
(* acquires it, so that a restart uses a device that is gone.              *)
DeviceGone == list[at] = "Dda" /\ handle[at] = "freed"

(* The rest of start().  A network sink that was stopped assigns over the  *)
(* listen thread it was started with, unless its bind() or listen() fails. *)
InitPart ==
  /\ op = "init" /\ fault = "none"
  /\ handle' = IF list[at] \in Opens THEN [handle EXCEPT ![at] = "made"] ELSE handle
  /\ \/ fault' = "none"
     \/ DeviceGone /\ fault' = "freedHandle"
     \/ list[at] = "Tcp" /\ fault' = "joinableThread"
  /\ AfterInit
  /\ UNCHANGED << starts, stops, pipeVars, running, failed, joinable, threads, dataVars >>

(* start() fails half-way; SnpPipe does not look at its result.  The AMF   *)
(* components go on with a null encoder when CreateComponent() fails.      *)
InitFails ==
  /\ op = "init" /\ fault = "none" /\ list[at] \in Opens \ {"File"}
  /\ failed' = failed \cup {at}
  /\ handle' = [handle EXCEPT ![at] = "null"]
  /\ \/ fault' = "none"
     \/ list[at] \in Amf /\ fault' = "nullHandle"
     \/ DeviceGone /\ fault' = "freedHandle"
  /\ AfterInit
  /\ UNCHANGED << starts, stops, pipeVars, running, joinable, threads, dataVars >>

NewThread == [pc |-> "check", pos |-> 1, picture |-> 0]

(* Assigning to a std::thread that is still joinable ends the process, and *)
(* no source ever joins or detaches its thread.                            *)
SpawnCapture ==
  /\ op = "spawn" /\ fault = "none"
  /\ \/ joinable /\ fault' = "joinableThread" /\ UNCHANGED << threads, joinable >>
     \/ /\ ~joinable
        /\ threads' = Append(threads, NewThread)
        /\ joinable' = TRUE
        /\ UNCHANGED fault
  /\ op' = "start" /\ at' = at - 1
  /\ UNCHANGED << starts, stops, pipeVars, running, handle, failed, dataVars >>

StartReturns ==
  /\ op = "start" /\ at = 0 /\ fault = "none"
  /\ op' = "idle"
  /\ UNCHANGED << at, starts, stops, pipeVars, partVars, threads, dataVars, fault >>

-----------------------------------------------------------------------------
(* SnpPipe::stop(): the first component first.                             *)

Stop ==
  /\ op = "idle" /\ fault = "none" /\ stops < MaxStops
  /\ stops' = stops + 1
  /\ op' = "stop" /\ at' = 1
  /\ UNCHANGED << starts, pipeVars, partVars, threads, dataVars, fault >>

MarkStopped ==
  /\ op = "stop" /\ at <= Len(list) /\ fault = "none"
  /\ running' = running \ {at}
  /\ op' = "free"
  /\ UNCHANGED << at, starts, stops, pipeVars, handle, failed, joinable, threads,
                  dataVars, fault >>

(* Mutant: the thread is detached, as SnpSourceX11::stop() does. *)
FreeDetaches ==
  /\ op = "free" /\ fault = "none"
  /\ joinable' = IF at = 1 THEN FALSE ELSE joinable
  /\ op' = "stop" /\ at' = at + 1
  /\ UNCHANGED << starts, stops, pipeVars, running, handle, failed, threads,
                  dataVars, fault >>

(* The rest of stop().  AMF components lose the pictures they hold and set *)
(* their pointers to null, and call through them when they are null        *)
(* already; the others keep dangling pointers, which a second stop() frees *)
(* again.  The network sink closes the socket it listens on and empties    *)
(* its buffer; its listen thread and its client stay (SnpServer).          *)
FreePart ==
  /\ op = "free" /\ fault = "none"
  /\ \/ list[at] \notin Opens /\ UNCHANGED << handle, fault >>
     \/ /\ list[at] \in Opens /\ handle[at] = "made"
        /\ handle' = [handle EXCEPT ![at] = IF list[at] \in Amf \cup {"File"} THEN "null" ELSE "freed"]
        /\ UNCHANGED fault
     \/ /\ list[at] \in Opens /\ handle[at] = "null"
        /\ fault' = IF list[at] \in Amf THEN "nullHandle" ELSE "none"
        /\ UNCHANGED handle
     \/ /\ list[at] \in Opens /\ handle[at] = "freed"
        /\ fault' \in {"none", "freedHandle"}
        /\ UNCHANGED handle
  /\ held' = [held EXCEPT ![at] = << >>]
  /\ op' = "stop" /\ at' = at + 1
  /\ UNCHANGED << starts, stops, pipeVars, running, failed, joinable, threads,
                  captured, late, delivered >>

StopReturns ==
  /\ op = "stop" /\ at > Len(list) /\ fault = "none"
  /\ op' = "idle" /\ at' = 0
  /\ UNCHANGED << starts, stops, pipeVars, partVars, threads, dataVars, fault >>

-----------------------------------------------------------------------------
(* The capture thread k.                                                   *)

Alive(k, pc) == fault = "none" /\ threads[k].pc = pc

Goto(k, pc) == threads' = [threads EXCEPT ![k].pc = pc]

(* Mutant: the loop of SnpSourceX11Cursor, which never ends. *)
CheckNever(k) ==
  /\ Alive(k, "check")
  /\ captured < MaxPictures \/ 1 \notin running
  /\ Goto(k, IF captured < MaxPictures THEN "capture" ELSE "check")
  /\ UNCHANGED << ownerVars, pipeVars, partVars, dataVars, fault >>

(* while(this->isRunning()) *)
CheckRunning(k) ==
  /\ Alive(k, "check")
  /\ captured < MaxPictures \/ 1 \notin running
  /\ Goto(k, IF 1 \in running THEN "capture" ELSE "ended")
  /\ UNCHANGED << ownerVars, pipeVars, partVars, dataVars, fault >>

(* Component i calls outputPort->onData(): getTargetPorts().at(pipeId)     *)
(* throws if nothing is connected.                                         *)
Push(k, i, picture) ==
  IF i \in links
  THEN /\ threads' = [threads EXCEPT ![k] = [pc |-> "enter", pos |-> i + 1, picture |-> picture]]
       /\ UNCHANGED fault
  ELSE /\ fault' = "notConnected"
       /\ UNCHANGED threads

(* The callbacks return, down to the loop of the source. *)
Return(k) == Goto(k, IF list[1] = "Dda" THEN "release" ELSE "check")

(* A picture is drawn, or the screen duplication yields one. *)
Capture(k) ==
  /\ Alive(k, "capture")
  /\ list[1] = "Dda" => handle[1] # "null"
  /\ captured' = captured + 1
  /\ late' = IF 1 \in running THEN late ELSE late + 1
  /\ Push(k, 1, captured')
  /\ UNCHANGED << ownerVars, pipeVars, partVars, held, delivered >>

(* AcquireNextFrame() times out, for nothing on the screen changed, or     *)
(* fails: the thread ends, although the component is still `running`.      *)
CaptureTimeout(k) ==
  /\ Alive(k, "capture") /\ list[1] = "Dda" /\ handle[1] # "null"
  /\ Goto(k, "ended")
  /\ UNCHANGED << ownerVars, pipeVars, partVars, dataVars, fault >>

(* initDda() failed, or stop() has released the duplication. *)
CaptureFault(k) ==
  /\ Alive(k, "capture") /\ list[1] = "Dda" /\ handle[1] # "made"
  /\ fault' = IF handle[1] = "null" THEN "nullHandle" ELSE "freedHandle"
  /\ UNCHANGED << ownerVars, pipeVars, partVars, threads, dataVars >>

(* A picture is an SnpDataDx11 behind Dda, and an SnpDataRam elsewhere. *)
IsTexture(i) == list[i - 1] = "Dda"

(* onInputData() of a codec: OpenH264 looks at isRunning(), AMF does not;  *)
(* only the AMF encoder takes textures.                                    *)
Enter(k) ==
  LET i == threads[k].pos IN
  /\ Alive(k, "enter") /\ list[i] \in Codecs
  /\ IF (list[i] \in OpenH264 /\ i \notin running) \/ (list[i] # "EncAmf" /\ IsTexture(i))
     THEN Return(k)
     ELSE Goto(k, "work")
  /\ UNCHANGED << ownerVars, pipeVars, partVars, dataVars, fault >>

(* OpenH264 has an output for the picture, or skips it. *)
WorkOpenH264(k) ==
  LET i == threads[k].pos IN
  /\ Alive(k, "work") /\ list[i] \in OpenH264 /\ handle[i] # "null"
  /\ \/ Push(k, i, threads[k].picture)
     \/ Return(k) /\ UNCHANGED fault
  /\ UNCHANGED << ownerVars, pipeVars, partVars, dataVars >>

(* Mutant: a picture is submitted again, as if it had been refused.        *)
SubmitTwice(queue, picture) ==
  IF Len(queue) < MaxHeld THEN queue \o << picture, picture >> ELSE queue

(* SubmitInput(): the picture is dropped if the queue is full. *)
Submit(queue, picture) ==
  IF Len(queue) < MaxHeld THEN Append(queue, picture) ELSE queue

(* One SubmitInput() is followed by one QueryOutput(), which has at most   *)
(* one picture; the decoder loses it if Convert() fails.  The encoder      *)
(* drops the picture when it gets no surface for it, or when SubmitInput() *)
(* fails though the queue has room; what it holds already may still leave. *)
WorkAmf(k) ==
  LET i == threads[k].pos
      queue == Submit(held[i], threads[k].picture) IN
  /\ Alive(k, "work") /\ list[i] \in Amf /\ handle[i] = "made"
  /\ \/ /\ held' = [held EXCEPT ![i] = Tail(queue)]
        /\ Push(k, i, Head(queue))
     \/ /\ held[i] # << >>
        /\ held' = [held EXCEPT ![i] = Tail(held[i])]
        /\ Push(k, i, Head(held[i]))
     \/ /\ held' = [held EXCEPT ![i] = queue]
        /\ Return(k) /\ UNCHANGED fault
     \/ /\ held' = held
        /\ Return(k) /\ UNCHANGED fault
     \/ /\ list[i] = "DecAmf"
        /\ held' = [held EXCEPT ![i] = Tail(queue)]
        /\ Return(k) /\ UNCHANGED fault
  /\ UNCHANGED << ownerVars, pipeVars, partVars, captured, late, delivered >>

(* The codec is not there: it could not be initialised, or stop() has come *)
(* between the check and its use.                                          *)
WorkFault(k) ==
  LET i == threads[k].pos IN
  /\ Alive(k, "work") /\ handle[i] # "made"
  /\ fault' = IF handle[i] = "null" THEN "nullHandle" ELSE "freedHandle"
  /\ UNCHANGED << ownerVars, pipeVars, partVars, threads, dataVars >>

(* The network sink has a picture for send(), which has no timeout: it may *)
(* return at once, or never, when the peer stops reading.                  *)
InSend(k) ==
  /\ Alive(k, "enter")
  /\ list[threads[k].pos] = "Tcp" /\ ~IsTexture(threads[k].pos)

(* onInputData() of the sinks.  The file may be closed already; the        *)
(* network sink may have no client, or a stop() or the listen thread may   *)
(* have emptied its buffer.                                                *)
Consume(k) ==
  LET i == threads[k].pos IN
  /\ Alive(k, "enter") /\ list[i] \in {"File", "Tcp"}
  /\ \/ UNCHANGED delivered /\ (list[i] = "File" => IsTexture(i) \/ handle[i] # "made")
     \/ /\ ~IsTexture(i) /\ (list[i] = "File" => handle[i] = "made")
        /\ delivered' = Append(delivered, threads[k].picture)
  /\ Return(k)
  /\ UNCHANGED << ownerVars, pipeVars, partVars, held, captured, late, fault >>

(* A Display has no callback unless the program sets one. *)
ConsumeFault(k) ==
  /\ Alive(k, "enter") /\ list[threads[k].pos] = "Display"
  /\ fault' = "noCallback"
  /\ UNCHANGED << ownerVars, pipeVars, partVars, threads, dataVars >>

(* duplication->ReleaseFrame() *)
ReleaseFrame(k) ==
  /\ Alive(k, "release")
  /\ \/ Goto(k, "check") /\ UNCHANGED fault
     \/ handle[1] = "freed" /\ fault' = "freedHandle" /\ UNCHANGED threads
  /\ UNCHANGED << ownerVars, pipeVars, partVars, dataVars >>

-----------------------------------------------------------------------------
StartSteps ==
  \/ Start \/ SkipRunning \/ MarkRunning \/ InitPart \/ InitFails
  \/ SpawnCapture \/ StartReturns

StopSteps == Stop \/ MarkStopped \/ FreePart \/ StopReturns

CaptureThread(k) ==
  \/ CheckRunning(k) \/ Capture(k) \/ CaptureTimeout(k) \/ CaptureFault(k)
  \/ Enter(k) \/ WorkOpenH264(k) \/ WorkAmf(k) \/ WorkFault(k)
  \/ Consume(k) \/ ConsumeFault(k) \/ ReleaseFrame(k)

Next ==
  \/ \E l \in Lists : Create(l)
  \/ StartSteps \/ StopSteps
  \/ \E k \in DOMAIN threads : CaptureThread(k)

Spec == Init /\ [][Next]_vars

(* The operating system schedules the capture threads, and acquiring a     *)
(* frame takes a second at most.  Nothing makes send() return.             *)
Scheduled(k) == CaptureThread(k) /\ ~InSend(k)

FairSpec == Spec /\ WF_vars(\E k \in DOMAIN threads : Scheduled(k))

-----------------------------------------------------------------------------
(* Properties.                                                             *)

Thread ==
  [pc : {"check", "capture", "enter", "work", "release", "ended"},
   pos : Nat \ {0}, picture : Nat]

(* Every variable has its type, and threads are at components of the pipe. *)
TypeOK ==
  /\ list \in Seq(Types) /\ links \subseteq DOMAIN list
  /\ op \in {"none", "idle", "start", "init", "spawn", "stop", "free"}
  /\ at \in 0 .. Len(list) + 1
  /\ op \in {"init", "spawn", "free"} => at \in DOMAIN list
  /\ running \subseteq DOMAIN list /\ failed \subseteq DOMAIN list
  /\ handle \in [DOMAIN list -> {"null", "made", "freed"}]
  /\ joinable \in BOOLEAN
  /\ threads \in Seq(Thread)
  /\ \A k \in DOMAIN threads : threads[k].pos \in DOMAIN list
  /\ held \in [DOMAIN list -> Seq(Nat)]
  /\ captured \in Nat /\ late \in Nat /\ delivered \in Seq(Nat)
  /\ starts \in 0 .. MaxStarts /\ stops \in 0 .. MaxStops
  /\ fault \in Faults

(* Component i has been started: it runs, and has its handle unless its    *)
(* start() failed.                                                         *)
Ready(i) ==
  /\ i \in running
  /\ list[i] \in Opens => handle[i] = "made" \/ i \in failed

(* Until the pipe is stopped for the first time, a picture is only ever in *)
(* components whose start() has returned: the last component is started    *)
(* first, the source with its thread last (SnpPipe::start).                *)
ReadyBeforeData ==
  stops = 0 => \A k \in DOMAIN threads :
                 /\ threads[k].pc \in {"enter", "work"} => Ready(threads[k].pos)
                 /\ threads[k].pc \in {"capture", "release"} => Ready(1)

(* A pipe that can work: a source, codecs, and a sink other than a display *)
(* without callback, with ports that fit.                                  *)
WellFormed(l) ==
  /\ Len(l) > 1
  /\ l[1] \in Sources /\ l[Len(l)] \in {"File", "Tcp"}
  /\ \A i \in 2 .. Len(l) - 1 : l[i] \in Codecs
  /\ \A i \in 1 .. Len(l) - 1 : CanConnect(OutputPort(l[i]), InputPort(l[i + 1]))

(* Until it is stopped, a well-formed pipe whose components could be       *)
(* initialised does not end the process, in whatever way its start and its *)
(* thread interleave (createPipe, SnpPipe::start, SnpPort::onData).        *)
SafeUntilStopped ==
  WellFormed(list) /\ failed = {} /\ stops = 0 => fault = "none"

(* Once the source has been stopped it captures no picture but the one it  *)
(* was at: what uses a freed handle or a null pointer after stop() is this *)
(* one call (SnpSourceDummy::renderFrame, SnpSourceDda::captureFrame).     *)
OnlyTheCallInFlight == late <= 1

(* Never do two capture threads push through the same pipe, restarts       *)
(* included (start() of the sources).                                      *)
OneCaptureThread ==
  \A j, k \in DOMAIN threads :
    threads[j].pc # "ended" /\ threads[k].pc # "ended" => j = k

(* Once the source is stopped its capture thread ends, unless the process  *)
(* does, the source is started again, or the thread stays for ever in one  *)
(* send() to a client that does not read (captureFrame, renderFrame,       *)
(* sendDataMessage).                                                       *)
StopEndsCapture ==
  (stops > 0 /\ op = "idle" /\ 1 \notin running)
    ~> \/ fault # "none" \/ 1 \in running
       \/ \A k \in DOMAIN threads : threads[k].pc = "ended"
       \/ [](\E k \in DOMAIN threads : InSend(k))

(* What reaches the sink is what was captured, with pictures missing but   *)
(* none repeated or reordered, also across stop and restart.               *)
Channel ==
  INSTANCE LossyChannel WITH
    Pipes <- {0},
    sent <- [i \in 1 .. captured |-> 0],
    received <- [i \in DOMAIN delivered |-> [frame |-> delivered[i], pipe |-> 0]]

ImplementsChannel == Channel!Spec

=============================================================================
