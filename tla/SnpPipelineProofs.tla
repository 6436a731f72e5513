------------------------- MODULE SnpPipelineProofs -------------------------
(* What start, stop and the capture thread of a pipe may do to each other,  *)
(* for any lists of components, numbers of pictures, restarts and stops,    *)
(* and that a pipe implements LossyChannel.                                 *)
EXTENDS SnpPipeline, TLAPS

(* Before createPipe() there is nothing.                                    *)
Unbuilt ==
  op = "none" =>
    /\ list = << >> /\ threads = << >> /\ running = {} /\ failed = {}
    /\ stops = 0 /\ joinable = FALSE /\ fault = "none" /\ late = 0

Wired ==
  op # "none" =>
    /\ list \in Lists /\ links = Links(list)
    /\ fault = "none" => BuildFault(list) = "none"

(* Where the owner is in start() or stop().                                 *)
Place ==
  /\ op = "start" => at \in 0 .. Len(list)
  /\ op = "stop" => at \in 1 .. Len(list) + 1
  /\ op = "spawn" => list[at] \in Sources
  /\ op \in {"init", "spawn"} => at \in running
  /\ op \in {"stop", "free"} => stops > 0

(* There is at most one thread, as none is joined or detached.              *)
Joined ==
  /\ joinable <=> threads # << >>
  /\ Len(threads) <= 1
  /\ threads # << >> => list[1] \in Sources

(* What is behind the component that start() is at has been started.        *)
StartedBehind ==
  stops = 0 =>
    /\ op \in {"start", "init", "spawn"} =>
         \A j \in DOMAIN list : j > at => j \in running
    /\ \A i \in running : (op = "init" /\ at = i) \/ Ready(i)
    /\ threads # << >> => running = DOMAIN list /\ op \notin {"init", "spawn"}
    /\ \A i \in DOMAIN list : handle[i] # "freed"

(* The network sink has been running from the beginning.                    *)
SinkRuns ==
  stops = 0 =>
    \A i \in DOMAIN list : list[i] = "Tcp" => i \in running /\ ~(op = "init" /\ at = i)

InCodec == \A k \in DOMAIN threads : threads[k].pc = "work" => list[threads[k].pos] \in Codecs

(* After the late picture the thread ends, or a restart ends the process.   *)
LateOnce ==
  /\ late \in {0, 1}
  /\ late = 1 =>
       /\ joinable
       /\ fault = "none" =>
            IF 1 \in running THEN op \in {"init", "spawn"} /\ at = 1
            ELSE \A k \in DOMAIN threads : threads[k].pc # "capture"

IInv ==
  TypeOK /\ Unbuilt /\ Wired /\ Place /\ Joined /\ StartedBehind /\ InCodec /\ LateOnce
  /\ SinkRuns /\ SafeUntilStopped

LEMMA InitIInv == Init => IInv
<1> SUFFICES ASSUME Init PROVE IInv
  OBVIOUS
<1> USE PipelineAssumption DEF Init
<1>1. ASSUME NEW S PROVE << >> \in [DOMAIN << >> -> S]
  <2>1. << >> \in Seq(S) /\ DOMAIN << >> = {}
    OBVIOUS
  <2> QED
    BY <2>1
<1>2. handle \in [DOMAIN list -> {"null", "made", "freed"}]
  BY <1>1
<1>3. held \in [DOMAIN list -> Seq(Nat)]
  BY <1>1
<1>4. TypeOK
  <2>1. list \in Seq(Types) /\ Len(list) = 0 /\ DOMAIN list = {} /\ DOMAIN threads = {}
    OBVIOUS
  <2>2. fault \in Faults
    BY DEF Faults
  <2>3. threads \in Seq(Thread) /\ delivered \in Seq(Nat) /\ links \subseteq DOMAIN list
        /\ running \subseteq DOMAIN list /\ failed \subseteq DOMAIN list
    OBVIOUS
  <2>4. at \in 0 .. Len(list) + 1 /\ starts \in 0 .. MaxStarts /\ stops \in 0 .. MaxStops
    BY <2>1
  <2>5. op = "none" /\ captured = 0 /\ late = 0 /\ joinable = FALSE
    OBVIOUS
  <2> HIDE DEF Init
  <2> QED
    BY <1>2, <1>3, <2>1, <2>2, <2>3, <2>4, <2>5 DEF TypeOK
<1> QED
  BY <1>4
  DEF IInv, Unbuilt, Wired, Place, Joined, StartedBehind, InCodec,
      LateOnce, SinkRuns, SafeUntilStopped, WellFormed

-----------------------------------------------------------------------------
(* Lists of components.                                                     *)

LEMMA ListTypes == \A l \in Lists : l \in Seq(Types) /\ l # << >> /\ Len(l) \in Nat \ {0}
  BY PipelineAssumption

(* createPipe() throws for a source that is not the first component.        *)
LEMMA SourceFirst ==
  ASSUME NEW l \in Seq(Types), BuildFault(l) = "none", NEW i \in DOMAIN l, l[i] \in Sources
  PROVE  i = 1
<1> SUFFICES ASSUME i # 1 PROVE FALSE
  OBVIOUS
<1>1. i - 1 \in 1 .. Len(l) - 1 /\ InputPort(l[(i - 1) + 1]) = "missing"
  BY DEF InputPort, Sources
<1> QED
  BY <1>1 DEF BuildFault

(* A well-formed pipe is built, and connected from end to end.              *)
LEMMA WellFormedBuilds ==
  ASSUME NEW l \in Seq(Types), WellFormed(l)
  PROVE  BuildFault(l) = "none" /\ Links(l) = 1 .. Len(l) - 1
<1> USE DEF WellFormed, Sources, Codecs, OpenH264, Amf
<1>1. ASSUME NEW i \in DOMAIN l PROVE l[i] # "Unknown"
  BY <1>1
<1>2. ASSUME NEW i \in 1 .. Len(l) - 1 PROVE OutputPort(l[i]) # "missing"
  <2>1. i = 1 \/ i \in 2 .. Len(l) - 1
    OBVIOUS
  <2> QED
    BY <2>1 DEF OutputPort
<1>3. ASSUME NEW i \in 1 .. Len(l) - 1 PROVE InputPort(l[i + 1]) # "missing"
  <2>1. i + 1 = Len(l) \/ i + 1 \in 2 .. Len(l) - 1
    OBVIOUS
  <2> QED
    BY <2>1 DEF InputPort
<1> QED
  BY <1>1, <1>2, <1>3 DEF BuildFault, Links

LEMMA BuildFaultType == ASSUME NEW l PROVE BuildFault(l) \in Faults
  BY DEF BuildFault, Faults

LEMMA SubmitType ==
  ASSUME NEW queue \in Seq(Nat), NEW picture \in Nat
  PROVE  /\ Submit(queue, picture) \in Seq(Nat)
         /\ Head(Submit(queue, picture)) \in Nat
         /\ Tail(Submit(queue, picture)) \in Seq(Nat)
         /\ Submit(queue, picture) # << >>
<1>1. Submit(queue, picture) \in Seq(Nat) /\ Submit(queue, picture) # << >>
  BY PipelineAssumption DEF Submit
<1> QED
  BY <1>1

-----------------------------------------------------------------------------
(* The capture thread.                                                      *)

Pcs == {"check", "capture", "enter", "work", "release", "ended"}

(* The thread moves to a place that exists.                                 *)
Moved(k) ==
  \E r \in Thread :
    /\ threads' = [threads EXCEPT ![k] = r]
    /\ r.pos \in DOMAIN list
    /\ r.pc = "work" => list[r.pos] \in Codecs
    /\ r.pc = "capture" => 1 \in running

LEMMA ThreadFrame ==
  ASSUME NEW k, CaptureThread(k)
  PROVE  fault = "none" /\ UNCHANGED << ownerVars, pipeVars, partVars >>
  BY DEF CaptureThread, CheckRunning, Capture, CaptureTimeout, CaptureFault, Enter,
         WorkOpenH264, WorkAmf, WorkFault, Consume, ConsumeFault, ReleaseFrame, Alive

LEMMA GotoMoves ==
  ASSUME TypeOK, NEW k \in DOMAIN threads, NEW pc \in Pcs, Goto(k, pc),
         pc = "work" => list[threads[k].pos] \in Codecs,
         pc = "capture" => 1 \in running
  PROVE  Moved(k)
<1> DEFINE r == [pc |-> pc, pos |-> threads[k].pos, picture |-> threads[k].picture]
<1>1. threads[k] \in Thread
  BY DEF TypeOK
<1>2. r \in Thread /\ r = [threads[k] EXCEPT !.pc = pc]
  BY <1>1 DEF Thread, Pcs
<1>4. threads' = [threads EXCEPT ![k] = r]
  BY <1>2 DEF Goto
<1>3. r.pos \in DOMAIN list
  BY DEF TypeOK
<1> QED
  BY <1>2, <1>3, <1>4 DEF Moved

LEMMA ReturnMoves ==
  ASSUME TypeOK, NEW k \in DOMAIN threads, Return(k)
  PROVE  Moved(k)
  BY GotoMoves DEF Return, Pcs

LEMMA PushMoves ==
  ASSUME IInv, NEW k \in DOMAIN threads, NEW i \in DOMAIN list, NEW picture \in Nat,
         fault = "none", Push(k, i, picture)
  PROVE  /\ fault' \in Faults
         /\ (threads' = threads) \/ Moved(k)
         /\ WellFormed(list) /\ i < Len(list) => fault' = "none"
<1>1. op # "none"
  BY DEF IInv, Unbuilt
<1>2. list \in Seq(Types) /\ links = Links(list)
  BY <1>1 DEF IInv, Wired, TypeOK
<1>3. CASE i \in links
  <2> DEFINE r == [pc |-> "enter", pos |-> i + 1, picture |-> picture]
  <2>1. i + 1 \in DOMAIN list /\ i + 1 \in Nat \ {0}
    BY <1>2, <1>3 DEF Links
  <2>2. r \in Thread /\ threads' = [threads EXCEPT ![k] = r] /\ fault' = fault
    BY <1>3, <2>1 DEF Push, Thread
  <2> QED
    BY <2>1, <2>2 DEF Moved, Faults
<1>4. CASE i \notin links
  <2>1. threads' = threads /\ fault' = "notConnected"
    BY <1>4 DEF Push
  <2>2. ~ (WellFormed(list) /\ i < Len(list))
    BY <1>2, <1>4, WellFormedBuilds
  <2> QED
    BY <2>1, <2>2 DEF Faults
<1> QED
  BY <1>3, <1>4

(* In a well-formed pipe that is not stopped, what a component uses is there. *)
LEMMA MadeUntilStopped ==
  ASSUME IInv, NEW k \in DOMAIN threads, failed = {}, stops = 0,
         NEW i \in DOMAIN list, list[i] \in Opens
  PROVE  handle[i] = "made"
<1>1. Ready(i)
  BY DEF IInv, StartedBehind
<1> QED
  BY <1>1 DEF Ready

(* What a step of the thread leaves true.                                   *)
ThreadStep(k) ==
  /\ (threads' = threads) \/ Moved(k)
  /\ held' \in [DOMAIN list -> Seq(Nat)]
  /\ captured' \in Nat /\ delivered' \in Seq(Nat)
  /\ fault' \in Faults
  /\ WellFormed(list) /\ failed = {} /\ stops = 0 => fault' = "none"

LEMMA ThreadSteps ==
  ASSUME IInv, NEW k \in DOMAIN threads, CaptureThread(k)
  PROVE  ThreadStep(k)
<1>0. fault = "none" /\ threads[k] \in Thread /\ threads[k].pos \in DOMAIN list /\ 1 \in DOMAIN list
      /\ list \in Seq(Types)
  BY ThreadFrame, ListTypes DEF IInv, TypeOK, Unbuilt, Wired
<1> DEFINE i == threads[k].pos
<1> DEFINE Same == UNCHANGED << held, captured, delivered >>
<1>a. TypeOK /\ held \in [DOMAIN list -> Seq(Nat)] /\ captured \in Nat /\ delivered \in Seq(Nat)
  BY DEF IInv, TypeOK
<1>b. list[1] \in Sources
  BY DEF IInv, Joined
<1>1. CASE CheckRunning(k)
  <2>1. Moved(k)
    BY <1>1, <1>a, GotoMoves DEF CheckRunning, Pcs
  <2> QED
    BY <1>0, <1>1, <1>a, <2>1 DEF CheckRunning, dataVars, ThreadStep, Faults
<1>2. CASE Capture(k)
  <2>1. captured' \in Nat /\ Push(k, 1, captured') /\ UNCHANGED << held, delivered >>
    BY <1>2, <1>a DEF Capture
  <2>2. WellFormed(list) => 1 < Len(list)
    BY <1>0 DEF WellFormed
  <2> QED
    BY <1>0, <1>a, <2>1, <2>2, PushMoves DEF ThreadStep
<1>3. CASE CaptureTimeout(k)
  <2>1. Moved(k)
    BY <1>3, <1>a, GotoMoves DEF CaptureTimeout, Pcs
  <2> QED
    BY <1>0, <1>3, <1>a, <2>1 DEF CaptureTimeout, dataVars, ThreadStep, Faults
<1>4. CASE CaptureFault(k)
  <2>1. ~ (failed = {} /\ stops = 0)
    BY <1>0, <1>4, MadeUntilStopped DEF CaptureFault, Opens
  <2> QED
    BY <1>4, <1>a, <2>1 DEF CaptureFault, dataVars, ThreadStep, Faults
<1>5. CASE Enter(k)
  <2>1. Moved(k)
    BY <1>5, <1>a, GotoMoves, ReturnMoves DEF Enter, Pcs
  <2> QED
    BY <1>0, <1>5, <1>a, <2>1 DEF Enter, dataVars, ThreadStep, Faults
<1>c. ASSUME list[i] \in Codecs, WellFormed(list) PROVE i < Len(list)
  <2>1. i # Len(list)
    BY <1>c DEF WellFormed, Codecs, OpenH264, Amf
  <2> QED
    BY <1>0, <2>1
<1>6. CASE WorkOpenH264(k)
  <2>1. list[i] \in Codecs /\ threads[k].picture \in Nat
    BY <1>0, <1>6 DEF WorkOpenH264, Codecs, Thread
  <2>2. CASE Push(k, i, threads[k].picture)
    BY <1>0, <1>6, <1>a, <1>c, <2>1, <2>2, PushMoves DEF WorkOpenH264, dataVars, ThreadStep
  <2>3. CASE Return(k) /\ UNCHANGED fault
    BY <1>0, <1>6, <1>a, <2>3, ReturnMoves DEF WorkOpenH264, dataVars, ThreadStep, Faults
  <2> QED
    BY <1>6, <2>2, <2>3 DEF WorkOpenH264
<1>7. CASE WorkAmf(k)
  <2> DEFINE queue == Submit(held[i], threads[k].picture)
  <2>1. list[i] \in Codecs /\ threads[k].picture \in Nat
    BY <1>0, <1>7 DEF WorkAmf, Codecs, Thread
  <2>2. queue \in Seq(Nat) /\ Head(queue) \in Nat /\ Tail(queue) \in Seq(Nat)
    BY <1>0, <1>a, <2>1, SubmitType
  <2>3. ASSUME NEW q \in Seq(Nat), q # << >>,
               held' = [held EXCEPT ![i] = Tail(q)], Push(k, i, Head(q))
        PROVE  ThreadStep(k)
    <3>1. Head(q) \in Nat /\ Tail(q) \in Seq(Nat)
      BY <2>3
    <3>2. held' \in [DOMAIN list -> Seq(Nat)]
      BY <1>a, <2>3, <3>1
    <3> QED
      BY <1>0, <1>7, <1>a, <1>c, <2>1, <2>3, <3>1, <3>2, PushMoves DEF WorkAmf, ThreadStep
  <2>4. CASE held' \in {held, [held EXCEPT ![i] = queue], [held EXCEPT ![i] = Tail(queue)]}
             /\ Return(k) /\ UNCHANGED fault
    <3>1. held' \in [DOMAIN list -> Seq(Nat)]
      BY <1>a, <2>2, <2>4
    <3> QED
      BY <1>0, <1>7, <1>a, <2>4, <3>1, ReturnMoves DEF WorkAmf, ThreadStep, Faults
  <2>5. queue # << >>
    BY <1>0, <1>a, <2>1, SubmitType
  <2>6. held[i] \in Seq(Nat)
    BY <1>0, <1>a
  <2> QED
    BY <1>7, <2>2, <2>3, <2>4, <2>5, <2>6 DEF WorkAmf
<1>8. CASE WorkFault(k)
  <2>1. list[i] \in Opens
    BY <1>8 DEF WorkFault, Alive, IInv, InCodec, Opens
  <2>2. ~ (failed = {} /\ stops = 0)
    BY <1>0, <1>8, <2>1, MadeUntilStopped DEF WorkFault
  <2> QED
    BY <1>8, <1>a, <2>2 DEF WorkFault, dataVars, ThreadStep, Faults
<1>9. CASE Consume(k)
  <2>1. Moved(k)
    BY <1>9, <1>a, ReturnMoves DEF Consume
  <2>2. delivered' \in Seq(Nat)
    <3>1. delivered' = delivered \/ delivered' = Append(delivered, threads[k].picture)
      BY <1>9 DEF Consume
    <3>2. threads[k].picture \in Nat
      BY <1>0 DEF Thread
    <3>3. Append(delivered, threads[k].picture) \in Seq(Nat)
      BY <1>a, <3>2
    <3> QED
      BY <1>a, <3>1, <3>3
  <2> QED
    BY <1>0, <1>9, <1>a, <2>1, <2>2 DEF Consume, ThreadStep, Faults
<1>10. CASE ConsumeFault(k)
  <2>1. ~ WellFormed(list)
    <3>1. i = 1 \/ i = Len(list) \/ i \in 2 .. Len(list) - 1
      BY <1>0
    <3> QED
      BY <1>10, <3>1 DEF ConsumeFault, WellFormed, Sources, Codecs, OpenH264, Amf
  <2> QED
    BY <1>10, <1>a, <2>1 DEF ConsumeFault, dataVars, ThreadStep, Faults
<1>11. CASE ReleaseFrame(k)
  <2>1. CASE Goto(k, "check") /\ UNCHANGED fault
    BY <1>0, <1>11, <1>a, <2>1, GotoMoves DEF ReleaseFrame, dataVars, ThreadStep, Faults, Pcs
  <2>2. CASE handle[1] = "freed" /\ fault' = "freedHandle" /\ UNCHANGED threads
    <3>1. stops # 0
      BY <1>0, <2>2 DEF IInv, StartedBehind
    <3> QED
      BY <1>11, <1>a, <2>2, <3>1 DEF ReleaseFrame, dataVars, ThreadStep, Faults
  <2> QED
    BY <1>11, <2>1, <2>2 DEF ReleaseFrame
<1> QED
  BY <1>1, <1>2, <1>3, <1>4, <1>5, <1>6, <1>7, <1>8, <1>9, <1>10, <1>11 DEF CaptureThread

(* The late picture.                                                        *)
LEMMA ThreadLate ==
  ASSUME IInv, NEW k \in DOMAIN threads, CaptureThread(k)
  PROVE  LateOnce'
<1>0. k = 1 /\ DOMAIN threads = {1} /\ joinable /\ fault = "none"
  <2>1. threads \in Seq(Thread) /\ Len(threads) <= 1 /\ (threads # << >> => joinable)
    BY DEF IInv, TypeOK, Joined
  <2> QED
    BY <2>1, ThreadFrame
<1>1. UNCHANGED << op, at, running, joinable >>
  BY ThreadFrame DEF ownerVars, partVars
<1>2. ThreadStep(k)
  BY ThreadSteps
<1>3. DOMAIN threads' = {1}
  BY <1>0, <1>2 DEF ThreadStep, Moved
<1>4. CASE Capture(k) /\ 1 \notin running
  <2>1. late = 0
    BY <1>0, <1>4 DEF Capture, Alive, IInv, LateOnce
  <2>2. late' = 1 /\ (fault' = "none" => threads'[1].pc = "enter")
    <3>1. late' = 1
      BY <1>4, <2>1 DEF Capture
    <3>2. CASE 1 \in links
      BY <1>0, <1>4, <3>1, <3>2 DEF Capture, Push
    <3>3. CASE 1 \notin links
      BY <1>0, <1>4, <3>1, <3>3 DEF Capture, Push
    <3> QED
      BY <3>2, <3>3
  <2> QED
    BY <1>0, <1>1, <1>3, <1>4, <2>2 DEF LateOnce
<1>5. CASE ~ (Capture(k) /\ 1 \notin running)
  <2>1. late' = late
    BY <1>5 DEF CaptureThread, CheckRunning, Capture, CaptureTimeout, CaptureFault, Enter,
         WorkOpenH264, WorkAmf, WorkFault, Consume, ConsumeFault, ReleaseFrame, dataVars
  <2>2. 1 \notin running /\ threads[1].pc # "capture" => threads'[1].pc # "capture"
    BY <1>0, <1>2 DEF ThreadStep, Moved
  <2> QED
    BY <1>0, <1>1, <1>3, <2>1, <2>2 DEF IInv, LateOnce
<1> QED
  BY <1>4, <1>5

LEMMA ThreadIInv ==
  ASSUME IInv, NEW k \in DOMAIN threads, CaptureThread(k)
  PROVE  IInv'
<1>1. fault = "none" /\ UNCHANGED << ownerVars, pipeVars, partVars >>
  BY ThreadFrame
<1>2. ThreadStep(k)
  BY ThreadSteps
<1>3. threads' \in Seq(Thread) /\ Len(threads') = Len(threads)
  <2>1. threads \in Seq(Thread)
    BY DEF IInv, TypeOK
  <2>2. ASSUME NEW q \in Thread, threads' = [threads EXCEPT ![k] = q]
        PROVE  threads' \in Seq(Thread) /\ Len(threads') = Len(threads)
    BY <2>1, <2>2
  <2> QED
    BY <1>2, <2>1, <2>2 DEF ThreadStep, Moved
<1>4. \A j \in DOMAIN threads' : threads'[j].pos \in DOMAIN list
  BY <1>2 DEF ThreadStep, Moved, IInv, TypeOK
<1>5. LateOnce'
  BY ThreadLate
<1>6. TypeOK'
  <2>1. held' \in [DOMAIN list' -> Seq(Nat)] /\ captured' \in Nat /\ delivered' \in Seq(Nat)
        /\ fault' \in Faults /\ late' \in Nat
    BY <1>1, <1>2, <1>5 DEF ThreadStep, pipeVars, LateOnce
  <2>2. threads' \in Seq(Thread) /\ \A j \in DOMAIN threads' : threads'[j].pos \in DOMAIN list'
    BY <1>1, <1>3, <1>4 DEF pipeVars
  <2> QED
    BY <1>1, <2>1, <2>2 DEF ownerVars, pipeVars, partVars, IInv, TypeOK
<1>7. Unbuilt' /\ Wired' /\ Place'
  BY <1>1 DEF ownerVars, pipeVars, partVars, IInv, Unbuilt, Wired, Place, TypeOK
<1>8. Joined' /\ StartedBehind'
  BY <1>1, <1>3 DEF ownerVars, pipeVars, partVars, IInv, Joined, StartedBehind, Ready, TypeOK
<1>9. InCodec'
  BY <1>1, <1>2 DEF ThreadStep, Moved, pipeVars, IInv, InCodec, TypeOK
<1>10. SafeUntilStopped'
  BY <1>1, <1>2 DEF ThreadStep, ownerVars, pipeVars, partVars, SafeUntilStopped
<1>11. SinkRuns'
  BY <1>1 DEF ownerVars, pipeVars, partVars, IInv, SinkRuns
<1> QED
  BY <1>5, <1>6, <1>7, <1>8, <1>9, <1>10, <1>11 DEF IInv

-----------------------------------------------------------------------------
(* The owner.                                                               *)

OwnerStep == StartSteps \/ StopSteps

InitEffect ==
  /\ at \in DOMAIN list /\ at \in Nat /\ at - 1 \in 0 .. Len(list)
  /\ op = "init" /\ at \in running
  /\ UNCHANGED << list, links, running, joinable, threads, held, captured, late,
                  delivered, starts, stops >>
  /\ \/ op' = "spawn" /\ at' = at /\ list[at] \in Sources
     \/ op' = "start" /\ at' = at - 1 /\ list[at] \notin Sources
  /\ handle' \in [DOMAIN list -> {"null", "made", "freed"}]
  /\ failed' \subseteq DOMAIN list /\ failed \subseteq failed'
  /\ fault' \in {"none", "nullHandle", "freedHandle", "joinableThread"}
  /\ list[at] \in Opens => handle'[at] = "made" \/ at \in failed'
  /\ \A i \in DOMAIN list : i # at => handle'[i] = handle[i]
  /\ stops = 0 => handle'[at] # "freed"
  /\ stops = 0 /\ failed' = {} => fault' = "none"

LEMMA InitFacts ==
  ASSUME IInv, InitPart \/ InitFails, list \in Seq(Types)
  PROVE  InitEffect
<1> USE DEF InitEffect
<1>1. at \in DOMAIN list /\ at \in Nat /\ at - 1 \in 0 .. Len(list)
  BY DEF IInv, TypeOK, InitPart, InitFails
<1>2. op = "init" /\ at \in running
  BY DEF IInv, Place, InitPart, InitFails
<1>3. handle \in [DOMAIN list -> {"null", "made", "freed"}] /\ failed \subseteq DOMAIN list
  BY DEF IInv, TypeOK
<1>4. stops = 0 => handle[at] # "freed" /\ list[at] # "Tcp"
  BY <1>1, <1>2 DEF IInv, StartedBehind, SinkRuns
<1>5. CASE InitPart
  BY <1>1, <1>2, <1>3, <1>4, <1>5 DEF InitPart, AfterInit, DeviceGone, pipeVars, dataVars
<1>6. CASE InitFails
  BY <1>1, <1>2, <1>3, <1>4, <1>6 DEF InitFails, AfterInit, DeviceGone, pipeVars, dataVars
<1> QED
  BY <1>5, <1>6

SpawnEffect ==
  /\ op = "spawn" /\ at = 1 /\ 1 \in DOMAIN list /\ 1 \in running /\ list[1] \in Sources
  /\ op' = "start" /\ at' = 0
  /\ UNCHANGED << list, links, running, handle, failed, held, captured, late,
                  delivered, starts, stops >>
  /\ \/ joinable /\ fault' = "joinableThread" /\ UNCHANGED << threads, joinable >>
     \/ threads = << >> /\ threads' = << NewThread >> /\ joinable' = TRUE
        /\ joinable = FALSE /\ fault' = "none"

LEMMA SpawnFacts ==
  ASSUME IInv, SpawnCapture, list \in Seq(Types), op # "none"
  PROVE  SpawnEffect
<1> USE DEF SpawnEffect
<1>1. at \in DOMAIN list /\ list[at] \in Sources /\ at \in running /\ op = "spawn" /\ fault = "none"
  BY DEF IInv, TypeOK, Place, SpawnCapture
<1>2. at = 1
  BY <1>1, SourceFirst DEF IInv, Wired
<1>3. ~ joinable => threads = << >>
  BY DEF IInv, Joined
<1>4. joinable \in BOOLEAN
  BY DEF IInv, TypeOK
<1> QED
  BY <1>1, <1>2, <1>3, <1>4 DEF SpawnCapture, pipeVars, dataVars

FreeEffect ==
  /\ at \in DOMAIN list /\ op' = "stop" /\ at' \in 1 .. Len(list) + 1
  /\ stops > 0 /\ stops \in Nat /\ op = "free"
  /\ UNCHANGED << list, links, running, failed, joinable, threads, captured, late,
                  delivered, starts, stops >>
  /\ handle' \in [DOMAIN list -> {"null", "made", "freed"}]
  /\ held' \in [DOMAIN list -> Seq(Nat)]
  /\ fault' \in {"none", "nullHandle", "freedHandle"}

LEMMA FreeFacts ==
  ASSUME IInv, FreePart, list \in Seq(Types)
  PROVE  FreeEffect
<1> USE DEF FreeEffect
<1>1. at \in DOMAIN list /\ stops \in Nat
  BY DEF IInv, TypeOK, FreePart
<1>2. stops > 0
  BY DEF IInv, Place, FreePart
<1>3. handle \in [DOMAIN list -> {"null", "made", "freed"}] /\ held \in [DOMAIN list -> Seq(Nat)]
  BY DEF IInv, TypeOK
<1>4. held' \in [DOMAIN list -> Seq(Nat)]
  <2>1. held' = [held EXCEPT ![at] = << >>] /\ << >> \in Seq(Nat)
    BY DEF FreePart
  <2> QED
    BY <1>3, <2>1
<1>5. handle' \in [DOMAIN list -> {"null", "made", "freed"}]
  BY <1>3 DEF FreePart
<1> QED
  BY <1>1, <1>2, <1>4, <1>5 DEF FreePart, pipeVars

LEMMA OwnerType ==
  ASSUME IInv, OwnerStep
  PROVE  TypeOK'
<1>0. /\ op # "none" /\ fault = "none"
      /\ list \in Seq(Types) /\ Len(list) \in Nat \ {0}
  BY ListTypes DEF OwnerStep, StartSteps, StopSteps, Start, SkipRunning, MarkRunning, InitPart, InitFails, SpawnCapture, StartReturns, Stop, MarkStopped, FreePart, StopReturns,
     IInv, TypeOK, Wired
<1>1. CASE Start
  <2>1. /\ UNCHANGED << stops, list, links, running, handle, failed, joinable, threads, held,
                        captured, late, delivered, fault >>
        /\ op' = "start" /\ at' = Len(list)
    BY <1>1 DEF Start, pipeVars, partVars, dataVars
  <2>2. starts' \in 0 .. MaxStarts
    BY <1>1, PipelineAssumption DEF Start, IInv, TypeOK
  <2>3. at' \in 0 .. Len(list) + 1
    BY <1>0, <2>1
  <2> QED
    BY <2>1, <2>2, <2>3 DEF IInv, TypeOK
<1>2. CASE SkipRunning
  BY <1>2, <1>0, PipelineAssumption DEF SkipRunning, ownerVars, pipeVars, partVars, dataVars, IInv, TypeOK, Place, Faults
<1>3. CASE MarkRunning
  BY <1>3, <1>0, PipelineAssumption DEF MarkRunning, ownerVars, pipeVars, partVars, dataVars, IInv, TypeOK, Place, Faults
<1>4. CASE InitPart
  <2>1. InitEffect
    BY <1>4, <1>0, InitFacts
  <2> QED
    BY <2>1, <1>0, PipelineAssumption DEF InitEffect, IInv, TypeOK, Place, Faults
<1>5. CASE InitFails
  <2>1. InitEffect
    BY <1>5, <1>0, InitFacts
  <2> QED
    BY <2>1, <1>0, PipelineAssumption DEF InitEffect, IInv, TypeOK, Place, Faults
<1>6. CASE SpawnCapture
  <2>1. SpawnEffect
    BY <1>6, <1>0, SpawnFacts
  <2>2. NewThread \in Thread /\ NewThread.pos = 1 /\ NewThread.pc = "check"
    BY DEF NewThread, Thread
  <2>3. << NewThread >> \in Seq(Thread) /\ Len(<< NewThread >>) = 1
        /\ DOMAIN << NewThread >> = {1} /\ << NewThread >>[1] = NewThread
    BY <2>2
  <2>4. threads' \in Seq(Thread) /\ \A k \in DOMAIN threads' : threads'[k].pos \in DOMAIN list'
    BY <2>1, <2>2, <2>3 DEF SpawnEffect, IInv, TypeOK
  <2>5. joinable' \in BOOLEAN /\ fault' \in Faults
    BY <2>1 DEF SpawnEffect, IInv, TypeOK, Faults
  <2>6. TypeOK /\ op' = "start" /\ at' \in 0 .. Len(list) + 1
        /\ UNCHANGED << list, links, running, handle, failed, held, captured, late,
                        delivered, starts, stops >>
    BY <1>0, <2>1 DEF SpawnEffect, IInv
  <2> QED
    BY <2>4, <2>5, <2>6 DEF TypeOK
<1>7. CASE StartReturns
  BY <1>7, <1>0, PipelineAssumption DEF StartReturns, ownerVars, pipeVars, partVars, dataVars, IInv, TypeOK, Place, Faults
<1>8. CASE Stop
  BY <1>8, <1>0, PipelineAssumption DEF Stop, ownerVars, pipeVars, partVars, dataVars, IInv, TypeOK, Place, Faults
<1>9. CASE MarkStopped
  BY <1>9, <1>0, PipelineAssumption DEF MarkStopped, ownerVars, pipeVars, partVars, dataVars, IInv, TypeOK, Place, Faults
<1>10. CASE FreePart
  <2>1. FreeEffect
    BY <1>10, <1>0, FreeFacts
  <2> QED
    BY <2>1, <1>0, PipelineAssumption DEF FreeEffect, IInv, TypeOK, Place, Faults
<1>11. CASE StopReturns
  BY <1>11, <1>0, PipelineAssumption DEF StopReturns, ownerVars, pipeVars, partVars, dataVars, IInv, TypeOK, Place, Faults
<1> QED
  BY <1>1, <1>2, <1>3, <1>4, <1>5, <1>6, <1>7, <1>8, <1>9, <1>10, <1>11 DEF OwnerStep, StartSteps, StopSteps

LEMMA OwnerPlace ==
  ASSUME IInv, OwnerStep
  PROVE  Unbuilt' /\ Wired' /\ Place' /\ Joined' /\ InCodec'
<1>0. /\ op # "none" /\ fault = "none"
      /\ list \in Seq(Types) /\ Len(list) \in Nat \ {0}
  BY ListTypes DEF OwnerStep, StartSteps, StopSteps, Start, SkipRunning, MarkRunning, InitPart, InitFails, SpawnCapture, StartReturns, Stop, MarkStopped, FreePart, StopReturns,
     IInv, TypeOK, Wired
<1>1. CASE Start
  BY <1>1, <1>0 DEF Start, ownerVars, pipeVars, partVars, dataVars, IInv, TypeOK, Unbuilt, Wired, Place, Joined, InCodec
<1>2. CASE SkipRunning
  <2>1. /\ UNCHANGED << op, stops, list, links, running, failed, joinable, threads, late, fault >>
        /\ op = "start" /\ at > 0 /\ at' = at - 1
    BY <1>2 DEF SkipRunning, pipeVars, partVars, dataVars
  <2>2. at' \in 0 .. Len(list)
    BY <1>0, <2>1 DEF IInv, Place
  <2> QED
    BY <1>0, <2>1, <2>2 DEF IInv, Unbuilt, Wired, Place, Joined, InCodec
<1>3. CASE MarkRunning
  BY <1>3, <1>0 DEF MarkRunning, ownerVars, pipeVars, partVars, dataVars, IInv, TypeOK, Unbuilt, Wired, Place, Joined, InCodec
<1>4. CASE InitPart
  <2>1. InitEffect
    BY <1>4, <1>0, InitFacts
  <2> QED
    BY <2>1, <1>0 DEF InitEffect, IInv, TypeOK, Unbuilt, Wired, Place, Joined, InCodec
<1>5. CASE InitFails
  <2>1. InitEffect
    BY <1>5, <1>0, InitFacts
  <2> QED
    BY <2>1, <1>0 DEF InitEffect, IInv, TypeOK, Unbuilt, Wired, Place, Joined, InCodec
<1>6. CASE SpawnCapture
  <2>1. SpawnEffect
    BY <1>6, <1>0, SpawnFacts
  <2>2. NewThread \in Thread /\ NewThread.pos = 1 /\ NewThread.pc = "check"
    BY DEF NewThread, Thread
  <2>3. << NewThread >> \in Seq(Thread) /\ Len(<< NewThread >>) = 1
        /\ DOMAIN << NewThread >> = {1} /\ << NewThread >>[1] = NewThread
    BY <2>2
  <2>4. Joined'
    <3>1. CASE UNCHANGED << threads, joinable >>
      BY <2>1, <3>1 DEF SpawnEffect, IInv, Joined
    <3>2. CASE threads' = << NewThread >> /\ joinable' = TRUE
      <4>1. << NewThread >> # << >>
        OBVIOUS
      <4> QED
        BY <2>1, <2>3, <3>2, <4>1 DEF SpawnEffect, Joined
    <3> QED
      BY <2>1, <3>1, <3>2 DEF SpawnEffect
  <2>5. InCodec'
    BY <2>1, <2>2, <2>3 DEF SpawnEffect, IInv, InCodec
  <2> QED
    BY <1>0, <2>1, <2>4, <2>5 DEF SpawnEffect, IInv, TypeOK, Unbuilt, Wired, Place
<1>7. CASE StartReturns
  BY <1>7, <1>0 DEF StartReturns, ownerVars, pipeVars, partVars, dataVars, IInv, TypeOK, Unbuilt, Wired, Place, Joined, InCodec
<1>8. CASE Stop
  BY <1>8, <1>0 DEF Stop, ownerVars, pipeVars, partVars, dataVars, IInv, TypeOK, Unbuilt, Wired, Place, Joined, InCodec
<1>9. CASE MarkStopped
  BY <1>9, <1>0 DEF MarkStopped, ownerVars, pipeVars, partVars, dataVars, IInv, TypeOK, Unbuilt, Wired, Place, Joined, InCodec
<1>10. CASE FreePart
  <2>1. FreeEffect
    BY <1>10, <1>0, FreeFacts
  <2> QED
    BY <2>1, <1>0 DEF FreeEffect, IInv, TypeOK, Unbuilt, Wired, Place, Joined, InCodec
<1>11. CASE StopReturns
  BY <1>11, <1>0 DEF StopReturns, ownerVars, pipeVars, partVars, dataVars, IInv, TypeOK, Unbuilt, Wired, Place, Joined, InCodec
<1> QED
  BY <1>1, <1>2, <1>3, <1>4, <1>5, <1>6, <1>7, <1>8, <1>9, <1>10, <1>11 DEF OwnerStep, StartSteps, StopSteps

LEMMA OwnerStarted ==
  ASSUME IInv, OwnerStep
  PROVE  StartedBehind'
<1>0. /\ op # "none" /\ fault = "none"
      /\ list \in Seq(Types) /\ Len(list) \in Nat \ {0}
  BY ListTypes DEF OwnerStep, StartSteps, StopSteps, Start, SkipRunning, MarkRunning, InitPart, InitFails, SpawnCapture, StartReturns, Stop, MarkStopped, FreePart, StopReturns,
     IInv, TypeOK, Wired
<1>1. CASE Start
  BY <1>1, <1>0 DEF Start, ownerVars, pipeVars, partVars, dataVars, IInv, TypeOK, Wired, Place, Joined, StartedBehind, Ready
<1>2. CASE SkipRunning
  BY <1>2, <1>0 DEF SkipRunning, ownerVars, pipeVars, partVars, dataVars, IInv, TypeOK, Wired, Place, Joined, StartedBehind, Ready
<1>3. CASE MarkRunning
  BY <1>3, <1>0 DEF MarkRunning, ownerVars, pipeVars, partVars, dataVars, IInv, TypeOK, Wired, Place, Joined, StartedBehind, Ready
<1>4. CASE InitPart
  <2>1. InitEffect
    BY <1>4, <1>0, InitFacts
  <2> SUFFICES ASSUME stops = 0 PROVE StartedBehind'
    BY <2>1 DEF InitEffect, StartedBehind
  <2>2. \A j \in DOMAIN list : j > at => j \in running
    BY <2>1 DEF InitEffect, IInv, StartedBehind
  <2>3. \A j \in DOMAIN list : j > at - 1 => j \in running
    BY <1>0, <2>1, <2>2 DEF InitEffect
  <2>4. ASSUME NEW i \in running PROVE Ready(i)'
    <3>1. i \in DOMAIN list
      BY DEF IInv, TypeOK
    <3>2. CASE i = at
      BY <2>1, <3>1, <3>2 DEF InitEffect, Ready
    <3>3. CASE i # at
      <4>1. Ready(i)
        BY <3>3 DEF IInv, StartedBehind
      <4> QED
        BY <2>1, <3>1, <3>3, <4>1 DEF InitEffect, Ready
    <3> QED
      BY <3>2, <3>3
  <2>5. \A i \in DOMAIN list : handle'[i] # "freed"
    BY <2>1 DEF InitEffect, IInv, StartedBehind
  <2>6. threads = << >>
    BY <2>1 DEF InitEffect, IInv, StartedBehind
  <2> QED
    BY <2>1, <2>2, <2>3, <2>4, <2>5, <2>6 DEF InitEffect, StartedBehind
<1>5. CASE InitFails
  <2>1. InitEffect
    BY <1>5, <1>0, InitFacts
  <2> SUFFICES ASSUME stops = 0 PROVE StartedBehind'
    BY <2>1 DEF InitEffect, StartedBehind
  <2>2. \A j \in DOMAIN list : j > at => j \in running
    BY <2>1 DEF InitEffect, IInv, StartedBehind
  <2>3. \A j \in DOMAIN list : j > at - 1 => j \in running
    BY <1>0, <2>1, <2>2 DEF InitEffect
  <2>4. ASSUME NEW i \in running PROVE Ready(i)'
    <3>1. i \in DOMAIN list
      BY DEF IInv, TypeOK
    <3>2. CASE i = at
      BY <2>1, <3>1, <3>2 DEF InitEffect, Ready
    <3>3. CASE i # at
      <4>1. Ready(i)
        BY <3>3 DEF IInv, StartedBehind
      <4> QED
        BY <2>1, <3>1, <3>3, <4>1 DEF InitEffect, Ready
    <3> QED
      BY <3>2, <3>3
  <2>5. \A i \in DOMAIN list : handle'[i] # "freed"
    BY <2>1 DEF InitEffect, IInv, StartedBehind
  <2>6. threads = << >>
    BY <2>1 DEF InitEffect, IInv, StartedBehind
  <2> QED
    BY <2>1, <2>2, <2>3, <2>4, <2>5, <2>6 DEF InitEffect, StartedBehind
<1>6. CASE SpawnCapture
  <2>1. SpawnEffect
    BY <1>6, <1>0, SpawnFacts
  <2>2. ASSUME stops = 0, NEW j \in DOMAIN list PROVE j \in running
    BY <1>0, <2>1, <2>2 DEF SpawnEffect, IInv, StartedBehind
  <2>3. running \subseteq DOMAIN list
    BY DEF IInv, TypeOK
  <2> QED
    BY <1>0, <2>1, <2>2, <2>3 DEF SpawnEffect, IInv, StartedBehind, Ready
<1>7. CASE StartReturns
  BY <1>7, <1>0 DEF StartReturns, ownerVars, pipeVars, partVars, dataVars, IInv, TypeOK, Wired, Place, Joined, StartedBehind, Ready
<1>8. CASE Stop
  BY <1>8, <1>0 DEF Stop, ownerVars, pipeVars, partVars, dataVars, IInv, TypeOK, Wired, Place, Joined, StartedBehind, Ready
<1>9. CASE MarkStopped
  BY <1>9, <1>0 DEF MarkStopped, ownerVars, pipeVars, partVars, dataVars, IInv, TypeOK, Wired, Place, Joined, StartedBehind, Ready
<1>10. CASE FreePart
  <2>1. FreeEffect
    BY <1>10, <1>0, FreeFacts
  <2> QED
    BY <2>1, <1>0 DEF FreeEffect, IInv, TypeOK, Wired, Place, Joined, StartedBehind, Ready
<1>11. CASE StopReturns
  BY <1>11, <1>0 DEF StopReturns, ownerVars, pipeVars, partVars, dataVars, IInv, TypeOK, Wired, Place, Joined, StartedBehind, Ready
<1> QED
  BY <1>1, <1>2, <1>3, <1>4, <1>5, <1>6, <1>7, <1>8, <1>9, <1>10, <1>11 DEF OwnerStep, StartSteps, StopSteps

LEMMA OwnerLate ==
  ASSUME IInv, OwnerStep
  PROVE  LateOnce'
<1>0. /\ op # "none" /\ fault = "none"
      /\ list \in Seq(Types) /\ Len(list) \in Nat \ {0}
  BY ListTypes DEF OwnerStep, StartSteps, StopSteps, Start, SkipRunning, MarkRunning, InitPart, InitFails, SpawnCapture, StartReturns, Stop, MarkStopped, FreePart, StopReturns,
     IInv, TypeOK, Wired
<1>1. CASE Start
  BY <1>1, <1>0 DEF Start, ownerVars, pipeVars, partVars, dataVars, IInv, TypeOK, Wired, Place, Joined, LateOnce
<1>2. CASE SkipRunning
  BY <1>2, <1>0 DEF SkipRunning, ownerVars, pipeVars, partVars, dataVars, IInv, TypeOK, Wired, Place, Joined, LateOnce
<1>3. CASE MarkRunning
  BY <1>3, <1>0 DEF MarkRunning, ownerVars, pipeVars, partVars, dataVars, IInv, TypeOK, Wired, Place, Joined, LateOnce
<1>4. CASE InitPart
  <2>1. InitEffect
    BY <1>4, <1>0, InitFacts
  <2> QED
    BY <2>1, <1>0 DEF InitEffect, IInv, TypeOK, Wired, Place, Joined, LateOnce
<1>5. CASE InitFails
  <2>1. InitEffect
    BY <1>5, <1>0, InitFacts
  <2> QED
    BY <2>1, <1>0 DEF InitEffect, IInv, TypeOK, Wired, Place, Joined, LateOnce
<1>6. CASE SpawnCapture
  <2>1. SpawnEffect
    BY <1>6, <1>0, SpawnFacts
  <2> QED
    BY <2>1, <1>0 DEF SpawnEffect, IInv, TypeOK, Wired, Place, Joined, LateOnce, NewThread, Thread
<1>7. CASE StartReturns
  BY <1>7, <1>0 DEF StartReturns, ownerVars, pipeVars, partVars, dataVars, IInv, TypeOK, Wired, Place, Joined, LateOnce
<1>8. CASE Stop
  BY <1>8, <1>0 DEF Stop, ownerVars, pipeVars, partVars, dataVars, IInv, TypeOK, Wired, Place, Joined, LateOnce
<1>9. CASE MarkStopped
  BY <1>9, <1>0 DEF MarkStopped, ownerVars, pipeVars, partVars, dataVars, IInv, TypeOK, Wired, Place, Joined, LateOnce
<1>10. CASE FreePart
  <2>1. FreeEffect
    BY <1>10, <1>0, FreeFacts
  <2> QED
    BY <2>1, <1>0 DEF FreeEffect, IInv, TypeOK, Wired, Place, Joined, LateOnce
<1>11. CASE StopReturns
  BY <1>11, <1>0 DEF StopReturns, ownerVars, pipeVars, partVars, dataVars, IInv, TypeOK, Wired, Place, Joined, LateOnce
<1> QED
  BY <1>1, <1>2, <1>3, <1>4, <1>5, <1>6, <1>7, <1>8, <1>9, <1>10, <1>11 DEF OwnerStep, StartSteps, StopSteps

LEMMA OwnerSafe ==
  ASSUME IInv, OwnerStep
  PROVE  SafeUntilStopped'
<1>0. /\ op # "none" /\ fault = "none"
      /\ list \in Seq(Types) /\ Len(list) \in Nat \ {0}
  BY ListTypes DEF OwnerStep, StartSteps, StopSteps, Start, SkipRunning, MarkRunning, InitPart, InitFails, SpawnCapture, StartReturns, Stop, MarkStopped, FreePart, StopReturns,
     IInv, TypeOK, Wired
<1>1. CASE Start
  BY <1>1, <1>0 DEF Start, ownerVars, pipeVars, partVars, dataVars, IInv, TypeOK, Wired, Place, Joined, StartedBehind, SafeUntilStopped
<1>2. CASE SkipRunning
  BY <1>2, <1>0 DEF SkipRunning, ownerVars, pipeVars, partVars, dataVars, IInv, TypeOK, Wired, Place, Joined, StartedBehind, SafeUntilStopped
<1>3. CASE MarkRunning
  BY <1>3, <1>0 DEF MarkRunning, ownerVars, pipeVars, partVars, dataVars, IInv, TypeOK, Wired, Place, Joined, StartedBehind, SafeUntilStopped
<1>4. CASE InitPart
  <2>1. InitEffect
    BY <1>4, <1>0, InitFacts
  <2> QED
    BY <2>1, <1>0 DEF InitEffect, IInv, TypeOK, Wired, Place, Joined, StartedBehind, SafeUntilStopped
<1>5. CASE InitFails
  <2>1. InitEffect
    BY <1>5, <1>0, InitFacts
  <2> QED
    BY <2>1, <1>0 DEF InitEffect, IInv, TypeOK, Wired, Place, Joined, StartedBehind, SafeUntilStopped
<1>6. CASE SpawnCapture
  <2>1. SpawnEffect
    BY <1>6, <1>0, SpawnFacts
  <2> QED
    BY <2>1, <1>0 DEF SpawnEffect, IInv, TypeOK, Wired, Place, Joined, StartedBehind, SafeUntilStopped, NewThread, Thread
<1>7. CASE StartReturns
  BY <1>7, <1>0 DEF StartReturns, ownerVars, pipeVars, partVars, dataVars, IInv, TypeOK, Wired, Place, Joined, StartedBehind, SafeUntilStopped
<1>8. CASE Stop
  BY <1>8, <1>0 DEF Stop, ownerVars, pipeVars, partVars, dataVars, IInv, TypeOK, Wired, Place, Joined, StartedBehind, SafeUntilStopped
<1>9. CASE MarkStopped
  BY <1>9, <1>0 DEF MarkStopped, ownerVars, pipeVars, partVars, dataVars, IInv, TypeOK, Wired, Place, Joined, StartedBehind, SafeUntilStopped
<1>10. CASE FreePart
  <2>1. FreeEffect
    BY <1>10, <1>0, FreeFacts
  <2> QED
    BY <2>1, <1>0 DEF FreeEffect, IInv, TypeOK, Wired, Place, Joined, StartedBehind, SafeUntilStopped
<1>11. CASE StopReturns
  BY <1>11, <1>0 DEF StopReturns, ownerVars, pipeVars, partVars, dataVars, IInv, TypeOK, Wired, Place, Joined, StartedBehind, SafeUntilStopped
<1> QED
  BY <1>1, <1>2, <1>3, <1>4, <1>5, <1>6, <1>7, <1>8, <1>9, <1>10, <1>11 DEF OwnerStep, StartSteps, StopSteps

(* Until it is stopped the network sink is not started, for it runs.        *)
LEMMA OwnerSinkRuns ==
  ASSUME IInv, OwnerStep
  PROVE  SinkRuns'
<1> SUFFICES ASSUME stops' = 0 PROVE SinkRuns'
  BY DEF SinkRuns
<1>1. stops = 0 /\ UNCHANGED list
  <2>1. stops \in Nat /\ (stops' = stops \/ stops' = stops + 1) /\ UNCHANGED list
    BY DEF OwnerStep, StartSteps, StopSteps, Start, SkipRunning, MarkRunning, InitPart, InitFails,
           SpawnCapture, StartReturns, Stop, MarkStopped, FreePart, StopReturns, pipeVars,
           IInv, TypeOK
  <2> QED
    BY <2>1
<1>2. ~ (MarkStopped \/ FreePart \/ StopReturns)
  BY <1>1 DEF MarkStopped, FreePart, StopReturns, IInv, Place
<1>3. running \subseteq running'
  BY <1>2 DEF OwnerStep, StartSteps, StopSteps, Start, SkipRunning, MarkRunning, InitPart, InitFails,
           SpawnCapture, StartReturns, Stop, partVars
<1>4. op' = "init" => at' \notin running
  BY <1>2 DEF OwnerStep, StartSteps, StopSteps, Start, SkipRunning, MarkRunning, InitPart, InitFails,
           SpawnCapture, StartReturns, Stop, AfterInit
<1> QED
  BY <1>1, <1>3, <1>4 DEF IInv, SinkRuns

LEMMA CreateIInv ==
  ASSUME IInv, NEW l \in Lists, Create(l)
  PROVE  IInv'
<1>0. l \in Seq(Types) /\ Len(l) \in Nat \ {0} /\ fault' \in Faults
  BY ListTypes, BuildFaultType DEF Create
<1>1. threads = << >> /\ joinable = FALSE /\ failed = {} /\ stops = 0 /\ late = 0
  BY DEF Create, IInv, Unbuilt
<1>2. TypeOK'
  <2>1. links' \subseteq DOMAIN list'
    BY <1>0 DEF Create, Links
  <2>2. handle' \in [DOMAIN list' -> {"null", "made", "freed"}]
    BY DEF Create
  <2>3. held' \in [DOMAIN list' -> Seq(Nat)]
    <3>1. << >> \in Seq(Nat)
      OBVIOUS
    <3> QED
      BY <3>1 DEF Create
  <2>4. at' \in 0 .. Len(list') + 1
    <3>1. at \in 0 .. 1
      BY DEF Create, IInv, Unbuilt, TypeOK
    <3> QED
      BY <1>0, <3>1 DEF Create
  <2>5. running' \subseteq DOMAIN list' /\ failed' = {} /\ list' \in Seq(Types) /\ op' = "idle"
    BY <1>0, <1>1 DEF Create
  <2>6. threads' = << >> /\ threads' \in Seq(Thread) /\ DOMAIN threads' = {}
    BY <1>1 DEF Create
  <2>7. UNCHANGED << starts, stops, joinable, captured, late, delivered >>
    BY DEF Create
  <2> QED
    BY <1>0, <2>1, <2>2, <2>3, <2>4, <2>5, <2>6, <2>7 DEF IInv, TypeOK
<1>3. Unbuilt' /\ Wired' /\ Place' /\ Joined' /\ InCodec'
  BY <1>1 DEF Create, Unbuilt, Wired, Place, Joined, InCodec
<1>4. StartedBehind' /\ LateOnce'
  BY <1>0, <1>1 DEF Create, StartedBehind, Ready, Opens, Codecs, OpenH264, Amf, LateOnce
<1>5. SafeUntilStopped'
  BY <1>0, WellFormedBuilds DEF Create, SafeUntilStopped
<1>6. SinkRuns'
  BY <1>0 DEF Create, SinkRuns
<1> QED
  BY <1>2, <1>3, <1>4, <1>5, <1>6 DEF IInv

LEMMA StutterIInv ==
  ASSUME IInv, UNCHANGED vars
  PROVE  IInv'
  BY DEF vars, ownerVars, pipeVars, partVars, dataVars, IInv, TypeOK, Unbuilt, Wired, Place,
         Joined, StartedBehind, Ready, InCodec, LateOnce, SinkRuns, SafeUntilStopped

LEMMA StepIInv == IInv /\ [Next]_vars => IInv'
<1> SUFFICES ASSUME IInv, [Next]_vars PROVE IInv'
  OBVIOUS
<1>1. CASE OwnerStep
  BY <1>1, OwnerType, OwnerPlace, OwnerStarted, OwnerLate, OwnerSinkRuns,
     OwnerSafe DEF IInv
<1> QED
  BY <1>1, CreateIInv, ThreadIInv, StutterIInv DEF Next, OwnerStep

-----------------------------------------------------------------------------
(* The order of the pictures.                                               *)

(* Pictures are inside AMF components only, in the order they were captured *)
(* in: what is further down the pipe is older, and what was delivered is    *)
(* older than all of it.                                                    *)
HeldInOrder ==
  /\ \A i \in DOMAIN list : list[i] \notin Amf => held[i] = << >>
  /\ \A n \in DOMAIN delivered : delivered[n] \in 1 .. captured
  /\ \A i \in DOMAIN list : \A m \in DOMAIN held[i] :
       /\ held[i][m] \in 1 .. captured
       /\ \A n \in DOMAIN held[i] : m < n => held[i][m] < held[i][n]
       /\ \A n \in DOMAIN delivered : delivered[n] < held[i][m]
       /\ \A j \in DOMAIN list : i < j =>
            \A n \in DOMAIN held[j] : held[j][n] < held[i][m]

(* Where picture p belongs that is on its way into component i.             *)
Between(i, p) ==
  /\ p \in 1 .. captured
  /\ \A j \in DOMAIN list : \A m \in DOMAIN held[j] :
       IF j < i THEN p < held[j][m] ELSE held[j][m] < p
  /\ \A n \in DOMAIN delivered : delivered[n] < p

(* The picture the thread carries has its place among the held ones.        *)
CarriedInOrder ==
  fault = "none" =>
    \A k \in DOMAIN threads :
      threads[k].pc \in {"enter", "work"} => Between(threads[k].pos, threads[k].picture)

(* q may take the place of what component i holds.                          *)
Fits(i, q) ==
  /\ q \in Seq(Nat)
  /\ \A m \in DOMAIN q :
       /\ q[m] \in 1 .. captured
       /\ \A n \in DOMAIN q : m < n => q[m] < q[n]
       /\ \A n \in DOMAIN delivered : delivered[n] < q[m]
       /\ \A j \in DOMAIN list : \A n \in DOMAIN held[j] :
            /\ i < j => held[j][n] < q[m]
            /\ j < i => q[m] < held[j][n]

LEMMA EmptyFits == ASSUME NEW i PROVE Fits(i, << >>)
<1>1. << >> \in Seq(Nat) /\ DOMAIN << >> = {}
  OBVIOUS
<1> QED
  BY <1>1 DEF Fits

(* What a component holds has its place already.                            *)
LEMMA HeldFits ==
  ASSUME TypeOK, HeldInOrder, NEW i \in DOMAIN list
  PROVE  Fits(i, held[i])
<1>1. held[i] \in Seq(Nat) /\ i \in Nat /\ DOMAIN list \subseteq Nat
  <2>1. list \in Seq(Types)
    BY DEF TypeOK
  <2>2. held[i] \in Seq(Nat)
    BY DEF TypeOK
  <2> QED BY <2>1, <2>2
<1> QED
  BY <1>1 DEF HeldInOrder, Fits

(* Between(i, p) puts p behind what component i holds.                      *)
LEMMA SubmitFits ==
  ASSUME TypeOK, HeldInOrder, NEW i \in DOMAIN list, NEW p \in Nat, Between(i, p)
  PROVE  Fits(i, Submit(held[i], p)) /\ Submit(held[i], p) # << >>
<1> DEFINE q == Submit(held[i], p)
<1>1. held[i] \in Seq(Nat) /\ i \in Nat /\ DOMAIN list \subseteq Nat
  <2>1. list \in Seq(Types)
    BY DEF TypeOK
  <2>2. held[i] \in Seq(Nat)
    BY DEF TypeOK
  <2> QED BY <2>1, <2>2
<1>2. q \in Seq(Nat) /\ q # << >>
  <2>1. CASE Len(held[i]) < MaxHeld
    <3>1. q = Append(held[i], p)
      BY <2>1 DEF Submit
    <3>2. Append(held[i], p) \in Seq(Nat) /\ Append(held[i], p) # << >>
      BY <1>1
    <3> QED BY <3>1, <3>2
  <2>2. CASE ~ (Len(held[i]) < MaxHeld)
    <3>1. Len(held[i]) > 0
      BY <1>1, <2>2, PipelineAssumption
    <3> QED
      BY <1>1, <2>2, <3>1 DEF Submit
  <2> QED BY <2>1, <2>2
<1>3. ASSUME NEW m \in DOMAIN q
      PROVE  \/ m \in DOMAIN held[i] /\ q[m] = held[i][m]
             \/ q[m] = p /\ m = Len(held[i]) + 1
  BY <1>1, <1>3 DEF Submit
<1>4. ASSUME NEW m \in DOMAIN held[i] PROVE held[i][m] < p
  BY <1>1, <1>4 DEF Between
<1> HIDE DEF q
<1>5. ASSUME NEW m \in DOMAIN q PROVE q[m] \in 1 .. captured
  BY <1>3, <1>5 DEF HeldInOrder, Between
<1>6. ASSUME NEW m \in DOMAIN q, NEW n \in DOMAIN q, m < n PROVE q[m] < q[n]
  <2>1. m \in DOMAIN held[i] /\ q[m] = held[i][m]
    <3>1. n \in 1 .. Len(held[i]) + 1
      BY <1>1, <1>3
    <3> QED
      BY <1>1, <1>3, <1>6, <3>1
  <2> QED
    BY <1>3, <1>4, <1>6, <2>1 DEF HeldInOrder
<1>7. ASSUME NEW m \in DOMAIN q, NEW n \in DOMAIN delivered PROVE delivered[n] < q[m]
  BY <1>3, <1>7 DEF HeldInOrder, Between
<1>8. ASSUME NEW m \in DOMAIN q, NEW j \in DOMAIN list, NEW n \in DOMAIN held[j]
      PROVE  /\ i < j => held[j][n] < q[m]
             /\ j < i => q[m] < held[j][n]
  <2>1. CASE m \in DOMAIN held[i] /\ q[m] = held[i][m]
    BY <1>8, <2>1 DEF HeldInOrder
  <2>2. CASE q[m] = p
    <3>1. i < j => ~(j < i)
      BY <1>1
    <3> QED
      BY <1>8, <2>2, <3>1 DEF Between
  <2> QED
    BY <1>3, <2>1, <2>2
<1>9. Fits(i, q)
  BY <1>2, <1>5, <1>6, <1>7, <1>8 DEF Fits
<1> QED
  BY <1>2, <1>9 DEF q

LEMMA TailFits ==
  ASSUME NEW i, NEW q, Fits(i, q), q # << >>
  PROVE  /\ Fits(i, Tail(q)) /\ Head(q) = q[1] /\ 1 \in DOMAIN q
         /\ \A m \in DOMAIN Tail(q) : Head(q) < Tail(q)[m]
<1>1. q \in Seq(Nat)
  BY DEF Fits
<1>2. Tail(q) \in Seq(Nat) /\ Head(q) = q[1] /\ 1 \in DOMAIN q
  BY <1>1
<1>3. ASSUME NEW m \in DOMAIN Tail(q)
      PROVE  m \in Nat /\ m + 1 \in DOMAIN q /\ Tail(q)[m] = q[m + 1] /\ 1 < m + 1
  BY <1>1, <1>3
<1>4. ASSUME NEW m \in DOMAIN Tail(q), NEW n \in DOMAIN Tail(q), m < n
      PROVE  Tail(q)[m] < Tail(q)[n]
  <2>1. m + 1 < n + 1
    BY <1>3, <1>4
  <2> QED
    BY <1>3, <2>1 DEF Fits
<1>5. Fits(i, Tail(q))
  BY <1>2, <1>3, <1>4 DEF Fits
<1> QED
  BY <1>2, <1>3, <1>5 DEF Fits

LEMMA Replaced ==
  ASSUME TypeOK, HeldInOrder, NEW i \in DOMAIN list, NEW q, Fits(i, q),
         list[i] \in Amf \/ q = << >>,
         held' = [held EXCEPT ![i] = q], UNCHANGED << list, captured, delivered >>
  PROVE  HeldInOrder'
<1>1. /\ held'[i] = q
      /\ \A j \in DOMAIN list : j # i => held'[j] = held[j]
  BY DEF TypeOK
<1>2. i \in Nat /\ DOMAIN list \subseteq Nat
  <2>1. list \in Seq(Types)
    BY DEF TypeOK
  <2> QED BY <2>1
<1>3. \A j \in DOMAIN list : list[j] \notin Amf => held'[j] = << >>
  BY <1>1 DEF HeldInOrder
<1>4. ASSUME NEW j \in DOMAIN list, NEW m \in DOMAIN held'[j]
      PROVE  /\ held'[j][m] \in 1 .. captured
             /\ \A n \in DOMAIN held'[j] : m < n => held'[j][m] < held'[j][n]
             /\ \A n \in DOMAIN delivered : delivered[n] < held'[j][m]
  <2>1. CASE j = i
    BY <1>1, <1>4, <2>1 DEF Fits
  <2>2. CASE j # i
    BY <1>1, <1>4, <2>2 DEF HeldInOrder
  <2> QED
    BY <2>1, <2>2
<1>5. ASSUME NEW j \in DOMAIN list, NEW m \in DOMAIN held'[j],
             NEW l \in DOMAIN list, NEW n \in DOMAIN held'[l], j < l
      PROVE  held'[l][n] < held'[j][m]
  <2>1. j # l
    BY <1>2, <1>5
  <2>2. CASE j = i
    BY <1>1, <1>5, <2>1, <2>2 DEF Fits
  <2>3. CASE l = i
    BY <1>1, <1>5, <2>1, <2>3 DEF Fits
  <2>4. CASE j # i /\ l # i
    BY <1>1, <1>5, <2>4 DEF HeldInOrder
  <2> QED
    BY <2>2, <2>3, <2>4
<1>6. \A n \in DOMAIN delivered : delivered[n] \in 1 .. captured
  BY DEF HeldInOrder
<1> QED
  BY <1>3, <1>4, <1>5, <1>6 DEF HeldInOrder

LEMMA Alone ==
  ASSUME IInv, NEW k \in DOMAIN threads
  PROVE  k = 1 /\ DOMAIN threads = {1} /\ threads[k] \in Thread
<1>1. threads \in Seq(Thread) /\ Len(threads) <= 1
  BY DEF IInv, TypeOK, Joined
<1>2. DOMAIN threads = 1 .. Len(threads) /\ Len(threads) \in Nat /\ threads[k] \in Thread
  BY <1>1
<1>3. k = 1 /\ Len(threads) = 1
  BY <1>1, <1>2
<1> QED
  BY <1>2, <1>3

LEMMA UntouchedInOrder ==
  ASSUME HeldInOrder, UNCHANGED << list, held, captured, delivered >>
  PROVE  HeldInOrder'
  BY DEF HeldInOrder

(* The thread's picture goes into the next component, or nowhere.           *)
LEMMA PushedInOrder ==
  ASSUME IInv, NEW k \in DOMAIN threads, NEW i, NEW p, Push(k, i, p), Between(i + 1, p)'
  PROVE  CarriedInOrder'
<1>1. k = 1 /\ DOMAIN threads = {1}
  BY Alone
<1>2. CASE i \in links
  <2>1. DOMAIN threads' = {1} /\ threads'[1] = [pc |-> "enter", pos |-> i + 1, picture |-> p]
    BY <1>1, <1>2 DEF Push
  <2> QED
    BY <2>1 DEF CarriedInOrder
<1>3. CASE i \notin links
  BY <1>3 DEF Push, CarriedInOrder
<1> QED
  BY <1>2, <1>3

LEMMA WentInOrder ==
  ASSUME IInv, NEW k \in DOMAIN threads, NEW pc, pc \notin {"enter", "work"}, Goto(k, pc)
  PROVE  CarriedInOrder'
<1>1. k = 1 /\ DOMAIN threads = {1} /\ threads[k] \in Thread
  BY Alone
<1>2. DOMAIN threads' = {1} /\ threads'[1].pc = pc
  BY <1>1 DEF Goto, Thread
<1> QED
  BY <1>2 DEF CarriedInOrder

LEMMA ReturnedInOrder ==
  ASSUME IInv, NEW k \in DOMAIN threads, Return(k)
  PROVE  CarriedInOrder'
<1>1. PICK pc \in {"release", "check"} : Goto(k, pc)
  BY DEF Return
<1> QED
  BY <1>1, WentInOrder

(* A sink is the last component: it has no output to connect another to.    *)
LEMMA SinkIsLast ==
  ASSUME IInv, fault = "none", NEW i \in DOMAIN list, list[i] \in {"File", "Tcp"}
  PROVE  i = Len(list)
<1>1. list \in Seq(Types) /\ BuildFault(list) = "none"
  BY DEF IInv, TypeOK, Unbuilt, Wired
<1>2. OutputPort(list[i]) = "missing"
  BY DEF OutputPort
<1> SUFFICES ASSUME i # Len(list) PROVE FALSE
  OBVIOUS
<1>3. i \in 1 .. Len(list) - 1
  BY <1>1
<1> QED
  BY <1>1, <1>2, <1>3 DEF BuildFault

LEMMA CaptureInOrder ==
  ASSUME IInv, HeldInOrder, NEW k \in DOMAIN threads, Capture(k)
  PROVE  HeldInOrder' /\ CarriedInOrder'
<1>1. /\ captured \in Nat /\ captured' = captured + 1
      /\ UNCHANGED << list, held, delivered >> /\ Push(k, 1, captured')
  BY DEF Capture, pipeVars, IInv, TypeOK
<1>2. 1 \in DOMAIN list /\ list[1] \notin Amf /\ list \in Seq(Types)
  BY ListTypes DEF IInv, Joined, TypeOK, Amf, Sources
<1>3. \A p \in 1 .. captured : p \in 1 .. captured' /\ p < captured'
  BY <1>1
<1>4. HeldInOrder'
  BY <1>1, <1>3 DEF HeldInOrder
<1>5. ASSUME NEW j \in DOMAIN list, NEW m \in DOMAIN held[j]
      PROVE  ~(j < 2) /\ held[j][m] < captured'
  <2>1. j # 1
    BY <1>2, <1>5 DEF HeldInOrder
  <2>2. ~(j < 2)
    BY <1>2, <2>1
  <2> QED
    BY <1>3, <1>5, <2>2 DEF HeldInOrder
<1>6. captured' \in 1 .. captured'
  BY <1>1
<1>7. PICK p : p = captured'
  OBVIOUS
<1>8. Between(1 + 1, p)'
  BY <1>1, <1>3, <1>5, <1>6, <1>7 DEF Between, HeldInOrder
<1>9. CarriedInOrder'
  BY <1>1, <1>7, <1>8, PushedInOrder
<1> QED
  BY <1>4, <1>9

LEMMA EnterInOrder ==
  ASSUME IInv, HeldInOrder, CarriedInOrder, NEW k \in DOMAIN threads, Enter(k)
  PROVE  HeldInOrder' /\ CarriedInOrder'
<1>1. /\ UNCHANGED << list, held, captured, delivered >>
      /\ fault = "none" /\ threads[k].pc = "enter"
  BY DEF Enter, Alive, pipeVars, dataVars
<1>2. k = 1 /\ DOMAIN threads = {1} /\ threads[k] \in Thread
  BY Alone
<1>3. CASE Goto(k, "work")
  <2>0. PICK i, p : i = threads[1].pos /\ p = threads[1].picture
    OBVIOUS
  <2>1. DOMAIN threads' = {1} /\ threads'[1].pos = i /\ threads'[1].picture = p
    BY <1>2, <1>3, <2>0 DEF Goto, Thread
  <2>2. Between(i, p)
    BY <1>1, <1>2, <2>0 DEF CarriedInOrder
  <2>3. Between(i, p)'
    BY <1>1, <2>2 DEF Between
  <2>4. CarriedInOrder'
    BY <2>1, <2>3 DEF CarriedInOrder
  <2> QED
    BY <1>1, <2>4, UntouchedInOrder
<1>4. CASE Return(k)
  BY <1>1, <1>4, UntouchedInOrder, ReturnedInOrder
<1> QED
  BY <1>3, <1>4 DEF Enter

LEMMA WorkOpenH264InOrder ==
  ASSUME IInv, HeldInOrder, CarriedInOrder, NEW k \in DOMAIN threads, WorkOpenH264(k)
  PROVE  HeldInOrder' /\ CarriedInOrder'
<1>0. PICK i, p : i = threads[k].pos /\ p = threads[k].picture
  OBVIOUS
<1>1. /\ UNCHANGED << list, held, captured, delivered >>
      /\ Between(i, p) /\ i \in DOMAIN list /\ list[i] \in OpenH264
  BY <1>0 DEF WorkOpenH264, Alive, pipeVars, dataVars, CarriedInOrder, IInv, TypeOK
<1>2. held[i] = << >> /\ i \in Nat /\ DOMAIN list \subseteq Nat
  <2>1. list \in Seq(Types) /\ list[i] \notin Amf
    BY <1>1 DEF IInv, TypeOK, Amf, OpenH264
  <2> QED
    BY <1>1, <2>1 DEF HeldInOrder
<1>3. CASE Push(k, i, p)
  <2>1. ASSUME NEW j \in DOMAIN list, NEW m \in DOMAIN held[j]
        PROVE  j < i + 1 <=> j < i
    <3>1. j # i
      BY <1>2, <2>1
    <3> QED
      BY <1>2, <3>1
  <2>2. Between(i + 1, p)
    BY <1>1, <2>1 DEF Between
  <2>3. Between(i + 1, p)'
    BY <1>1, <2>2 DEF Between
  <2> QED
    BY <1>1, <1>3, <2>3, UntouchedInOrder, PushedInOrder
<1>4. CASE Return(k)
  BY <1>1, <1>4, UntouchedInOrder, ReturnedInOrder
<1> QED
  BY <1>0, <1>3, <1>4 DEF WorkOpenH264

LEMMA WorkAmfInOrder ==
  ASSUME IInv, HeldInOrder, CarriedInOrder, NEW k \in DOMAIN threads, WorkAmf(k)
  PROVE  HeldInOrder' /\ CarriedInOrder'
<1>0. PICK i, p, q : i = threads[k].pos /\ p = threads[k].picture /\ q = Submit(held[i], p)
  OBVIOUS
<1>1. /\ UNCHANGED << list, captured, delivered >> /\ TypeOK
      /\ Between(i, p) /\ i \in DOMAIN list /\ list[i] \in Amf
  BY <1>0 DEF WorkAmf, Alive, pipeVars, CarriedInOrder, IInv, TypeOK
<1>2. p \in Nat /\ i \in Nat /\ DOMAIN list \subseteq Nat
  <2>1. list \in Seq(Types)
    BY DEF IInv, TypeOK
  <2> QED
    BY <1>0, <1>1, <2>1, Alone DEF Thread
<1>3. Fits(i, q) /\ q # << >>
  BY <1>0, <1>1, <1>2, SubmitFits
<1>4. Fits(i, Tail(q)) /\ Head(q) = q[1] /\ 1 \in DOMAIN q
      /\ \A m \in DOMAIN Tail(q) : Head(q) < Tail(q)[m]
  BY <1>3, TailFits
<1>8. Fits(i, held[i])
  BY <1>1, HeldFits
<1>5. ASSUME NEW r, Fits(i, r), held' = [held EXCEPT ![i] = r] PROVE HeldInOrder'
  BY <1>1, <1>5, Replaced
<1>6. ASSUME NEW r, r # << >>, Fits(i, r), held' = [held EXCEPT ![i] = Tail(r)],
             Push(k, i, Head(r))
      PROVE  HeldInOrder' /\ CarriedInOrder'
  <2>0. Fits(i, Tail(r)) /\ Head(r) = r[1] /\ 1 \in DOMAIN r
        /\ \A m \in DOMAIN Tail(r) : Head(r) < Tail(r)[m]
    BY <1>6, TailFits
  <2>1. held'[i] = Tail(r) /\ \A j \in DOMAIN list : j # i => held'[j] = held[j]
    BY <1>1, <1>6 DEF TypeOK
  <2>2. PICK h : h = Head(r)
    OBVIOUS
  <2>3. ASSUME NEW j \in DOMAIN list, NEW m \in DOMAIN held'[j]
        PROVE  IF j < i + 1 THEN h < held'[j][m] ELSE held'[j][m] < h
    <3>1. CASE j = i
      BY <1>2, <2>0, <2>1, <2>2, <2>3, <3>1
    <3>2. CASE j # i
      <4>1. held'[j] = held[j] /\ (j < i + 1 => j < i) /\ (~(j < i + 1) => i < j)
        BY <1>2, <2>1, <3>2
      <4> QED
        BY <1>6, <2>0, <2>2, <2>3, <4>1 DEF Fits
    <3> QED BY <3>1, <3>2
  <2>4. h \in 1 .. captured /\ \A n \in DOMAIN delivered : delivered[n] < h
    BY <1>6, <2>0, <2>2 DEF Fits
  <2>5. Between(i + 1, h)'
    BY <1>1, <2>3, <2>4 DEF Between
  <2>6. HeldInOrder'
    BY <1>5, <1>6, <2>0
  <2> QED
    BY <1>6, <2>2, <2>5, <2>6, PushedInOrder
<1>7. CASE (\E r \in {q, Tail(q)} : held' = [held EXCEPT ![i] = r]) /\ Return(k)
  BY <1>3, <1>4, <1>5, <1>7, ReturnedInOrder
<1>9. CASE held' = held /\ Return(k)
  BY <1>1, <1>9, UntouchedInOrder, ReturnedInOrder
<1> QED
  BY <1>0, <1>3, <1>6, <1>7, <1>8, <1>9 DEF WorkAmf

LEMMA ConsumeInOrder ==
  ASSUME IInv, HeldInOrder, CarriedInOrder, NEW k \in DOMAIN threads, Consume(k)
  PROVE  HeldInOrder' /\ CarriedInOrder'
<1>0. PICK i, p : i = threads[k].pos /\ p = threads[k].picture
  OBVIOUS
<1>1. /\ UNCHANGED << list, captured, held >> /\ fault = "none"
      /\ Between(i, p) /\ i \in DOMAIN list /\ list[i] \in {"File", "Tcp"}
  BY <1>0 DEF Consume, Alive, pipeVars, CarriedInOrder, IInv, TypeOK
<1>2. delivered \in Seq(Nat) /\ p \in Nat /\ i = Len(list) /\ list \in Seq(Types)
  BY <1>0, <1>1, Alone, SinkIsLast DEF Thread, IInv, TypeOK
<1>3. ASSUME NEW n \in DOMAIN delivered'
      PROVE  (n \in DOMAIN delivered /\ delivered'[n] = delivered[n]) \/ delivered'[n] = p
  <2>1. delivered' = delivered \/ delivered' = Append(delivered, p)
    BY <1>0 DEF Consume
  <2> QED
    BY <1>2, <1>3, <2>1
<1>4. ASSUME NEW j \in DOMAIN list, NEW m \in DOMAIN held[j] PROVE p < held[j][m]
  <2>1. held[i] = << >>
    BY <1>1 DEF HeldInOrder, Amf
  <2>2. j # i
    BY <1>4, <2>1
  <2>3. j < i
    BY <1>2, <2>2
  <2> QED
    BY <1>1, <1>4, <2>3 DEF Between
<1>5. HeldInOrder'
  BY <1>1, <1>3, <1>4 DEF HeldInOrder, Between
<1>6. CarriedInOrder'
  BY ReturnedInOrder DEF Consume
<1> QED
  BY <1>5, <1>6

LEMMA ThreadInOrder ==
  ASSUME IInv, HeldInOrder, CarriedInOrder, NEW k \in DOMAIN threads, CaptureThread(k)
  PROVE  HeldInOrder' /\ CarriedInOrder'
<1>1. CASE CheckRunning(k) \/ CaptureTimeout(k)
  <2>1. PICK pc : pc \notin {"enter", "work"} /\ Goto(k, pc)
    BY <1>1 DEF CheckRunning, CaptureTimeout
  <2> QED
    BY <1>1, <2>1, WentInOrder, UntouchedInOrder DEF CheckRunning, CaptureTimeout, pipeVars, dataVars
<1>2. CASE CaptureFault(k) \/ WorkFault(k) \/ ConsumeFault(k)
  <2>1. fault' # "none" /\ UNCHANGED << list, held, captured, delivered >>
    BY <1>2 DEF CaptureFault, WorkFault, ConsumeFault, pipeVars, dataVars
  <2> QED
    BY <2>1, UntouchedInOrder DEF CarriedInOrder
<1>3. CASE ReleaseFrame(k)
  <2>1. UNCHANGED << list, held, captured, delivered >>
    BY <1>3 DEF ReleaseFrame, pipeVars, dataVars
  <2>2. CASE Goto(k, "check")
    BY <2>1, <2>2, WentInOrder, UntouchedInOrder
  <2>3. CASE fault' = "freedHandle"
    BY <2>1, <2>3, UntouchedInOrder DEF CarriedInOrder
  <2> QED
    BY <1>3, <2>2, <2>3 DEF ReleaseFrame
<1> QED
  BY <1>1, <1>2, <1>3, CaptureInOrder, EnterInOrder, WorkOpenH264InOrder, WorkAmfInOrder,
     ConsumeInOrder DEF CaptureThread

LEMMA FreePartInOrder ==
  ASSUME IInv, HeldInOrder, CarriedInOrder, FreePart
  PROVE  HeldInOrder' /\ CarriedInOrder'
<1>1. /\ at \in DOMAIN list /\ held' = [held EXCEPT ![at] = << >>] /\ fault = "none" /\ TypeOK
      /\ UNCHANGED << list, captured, delivered, threads >>
  BY DEF FreePart, pipeVars, IInv, TypeOK
<1>2. HeldInOrder'
  BY <1>1, EmptyFits, Replaced
<1>3. ASSUME NEW j \in DOMAIN list, NEW m \in DOMAIN held'[j]
      PROVE  held'[j] = held[j]
  <2>1. DOMAIN << >> = {} /\ DOMAIN held = DOMAIN list
    BY <1>1 DEF TypeOK
  <2> QED
    BY <1>1, <1>3, <2>1
<1>4. ASSUME NEW i, NEW p, Between(i, p) PROVE Between(i, p)'
  BY <1>1, <1>3, <1>4 DEF Between
<1>5. ASSUME fault' = "none", NEW k \in DOMAIN threads, threads[k].pc \in {"enter", "work"}
      PROVE  Between(threads[k].pos, threads[k].picture)'
  <2>1. PICK i, p : i = threads[k].pos /\ p = threads[k].picture
    OBVIOUS
  <2>2. Between(i, p)'
    BY <1>1, <1>4, <1>5, <2>1 DEF CarriedInOrder
  <2> QED
    BY <1>1, <2>1, <2>2 DEF Between
<1>6. CarriedInOrder'
  BY <1>1, <1>5 DEF CarriedInOrder
<1> QED
  BY <1>2, <1>6

LEMMA UncarriedInOrder ==
  ASSUME CarriedInOrder, fault = "none",
         UNCHANGED << list, held, captured, delivered, threads >>
  PROVE  CarriedInOrder'
  BY DEF CarriedInOrder, Between

LEMMA OwnerInOrder ==
  ASSUME IInv, HeldInOrder, CarriedInOrder, OwnerStep
  PROVE  HeldInOrder' /\ CarriedInOrder'
<1>1. CASE FreePart
  BY <1>1, FreePartInOrder
<1>2. CASE SpawnCapture
  <2>1. UNCHANGED << list, held, captured, delivered >> /\ fault = "none"
    BY <1>2 DEF SpawnCapture, pipeVars, dataVars
  <2>2. CASE UNCHANGED threads
    BY <2>1, <2>2, UntouchedInOrder, UncarriedInOrder
  <2>3. CASE threads' = << NewThread >>
    <3>1. DOMAIN threads' = {1} /\ threads'[1].pc = "check"
      BY <2>3 DEF NewThread
    <3> QED
      BY <2>1, <3>1, UntouchedInOrder DEF CarriedInOrder
  <2>4. op # "none" /\ list \in Seq(Types)
    BY <1>2 DEF SpawnCapture, IInv, TypeOK
  <2> QED
    BY <1>2, <2>2, <2>3, <2>4, SpawnFacts DEF SpawnEffect
<1>3. CASE ~ (FreePart \/ SpawnCapture)
  <2>1. UNCHANGED << list, held, captured, delivered, threads >> /\ fault = "none"
    BY <1>3 DEF OwnerStep, StartSteps, StopSteps, Start, SkipRunning, MarkRunning, InitPart,
       InitFails, StartReturns, Stop, MarkStopped, StopReturns, pipeVars, dataVars
  <2> QED
    BY <2>1, UntouchedInOrder, UncarriedInOrder
<1> QED
  BY <1>1, <1>2, <1>3

LEMMA CreateInOrder ==
  ASSUME IInv, HeldInOrder, NEW l \in Lists, Create(l)
  PROVE  HeldInOrder' /\ CarriedInOrder'
<1>1. threads' = << >> /\ DOMAIN threads' = {}
  BY DEF Create, IInv, Unbuilt
<1>2. /\ \A i \in DOMAIN list' : held'[i] = << >> /\ DOMAIN held'[i] = {}
      /\ UNCHANGED << captured, delivered >>
  BY DEF Create
<1>3. HeldInOrder'
  BY <1>2 DEF HeldInOrder
<1> QED
  BY <1>1, <1>3 DEF CarriedInOrder

Order == IInv /\ HeldInOrder /\ CarriedInOrder

LEMMA InitOrder == Init => Order
<1> SUFFICES ASSUME Init PROVE Order
  OBVIOUS
<1>1. DOMAIN list = {} /\ DOMAIN delivered = {} /\ DOMAIN threads = {}
  BY DEF Init
<1>2. HeldInOrder /\ CarriedInOrder
  BY <1>1 DEF HeldInOrder, CarriedInOrder
<1> QED
  BY <1>2, InitIInv DEF Order

LEMMA StepOrder == Order /\ [Next]_vars => Order'
<1> SUFFICES ASSUME Order, [Next]_vars PROVE Order'
  OBVIOUS
<1> USE DEF Order
<1>1. IInv'
  BY StepIInv
<1>2. CASE OwnerStep
  BY <1>1, <1>2, OwnerInOrder
<1>3. CASE UNCHANGED vars
  BY <1>1, <1>3, UntouchedInOrder DEF vars, pipeVars, dataVars, CarriedInOrder, Between
<1> QED
  BY <1>1, <1>2, <1>3, CreateInOrder, ThreadInOrder DEF Next, OwnerStep

(* A captured picture is a picture sent into the channel.                   *)
LEMMA CaptureSends ==
  ASSUME TypeOK, captured' = captured + 1, UNCHANGED delivered
  PROVE  Channel!Send(0)
<1> DEFINE Zeros(n) == [i \in 1 .. n |-> 0]
<1>1. captured \in Nat
  BY DEF TypeOK
<1>2. Zeros(captured) \in Seq({0}) /\ Len(Zeros(captured)) = captured
  BY <1>1
<1>3. Append(Zeros(captured), 0) = Zeros(captured + 1)
  BY <1>1, <1>2
<1> QED
  BY <1>3 DEF Channel!Send

LEMMA ConsumeDelivers ==
  ASSUME TypeOK, NEW p, Between(Len(list), p), delivered' = Append(delivered, p),
         UNCHANGED captured
  PROVE  Channel!Next
<1> DEFINE Given(f) == [frame |-> f, pipe |-> 0]
           Received(d) == [i \in DOMAIN d |-> Given(d[i])]
<1>1. delivered \in Seq(Nat) /\ p \in 1 .. captured /\ captured \in Nat /\ p \in Nat
  BY DEF TypeOK, Between
<1>2. Received(Append(delivered, p)) = Append(Received(delivered), Given(p))
  <2> DEFINE Gifts == [frame : Nat, pipe : {0}]
  <2>1. \A f \in Nat : Given(f) \in Gifts
    OBVIOUS
  <2>2. Received(delivered) \in Seq(Gifts) /\ Len(Received(delivered)) = Len(delivered)
    <3>1. DOMAIN delivered = 1 .. Len(delivered) /\ Len(delivered) \in Nat
          /\ \A i \in DOMAIN delivered : delivered[i] \in Nat
      BY <1>1
    <3>2. Received(delivered) \in [1 .. Len(delivered) -> Gifts]
      BY <2>1, <3>1
    <3> HIDE DEF Received, Gifts
    <3> QED BY <3>1, <3>2
  <2>3. Received(Append(delivered, p)) \in Seq(Gifts)
        /\ Len(Received(Append(delivered, p))) = Len(delivered) + 1
    BY <1>1, <2>1
  <2> QED
    BY <1>1, <2>1, <2>2, <2>3
<1>3. Channel!Newer(p)
  BY DEF Channel!Newer, Between
<1>4. Channel!Deliver(p, 0)
  BY <1>1, <1>2, <1>3 DEF Channel!Deliver
<1>5. p \in DOMAIN [i \in 1 .. captured |-> 0]
  BY <1>1
<1> QED
  BY <1>4, <1>5 DEF Channel!Next

-----------------------------------------------------------------------------
(* The theorems.                                                            *)

(* The variables of a pipe keep their types.                                *)
THEOREM PipeIsTyped == Spec => []TypeOK
<1>1. IInv => TypeOK
  BY DEF IInv
<1> QED
  BY <1>1, InitIInv, StepIInv, PTL DEF Spec

(* start() readies every component a picture can reach before there is a    *)
(* picture, for pipes of any length.                                        *)
THEOREM DataFindsReady == Spec => []ReadyBeforeData
<1>1. IInv => ReadyBeforeData
  <2> SUFFICES ASSUME IInv, stops = 0, NEW k \in DOMAIN threads
               PROVE  Ready(threads[k].pos) /\ Ready(1)
    BY DEF ReadyBeforeData
  <2>1. threads # << >> /\ threads[k].pos \in DOMAIN list /\ list # << >>
    BY DEF IInv, TypeOK
  <2>2. 1 \in DOMAIN list
    BY <2>1 DEF IInv, TypeOK
  <2> QED
    BY <2>1, <2>2 DEF IInv, StartedBehind
<1> QED
  BY <1>1, InitIInv, StepIInv, PTL DEF Spec

(* A well-formed pipe that could be initialised works until it is stopped.  *)
THEOREM WorksUntilStopped == Spec => []SafeUntilStopped
<1>1. IInv => SafeUntilStopped
  BY DEF IInv
<1> QED
  BY <1>1, InitIInv, StepIInv, PTL DEF Spec

(* At most one picture is captured after stop(), however often the pipe is  *)
(* restarted.                                                               *)
THEOREM OnePictureIsLate == Spec => []OnlyTheCallInFlight
<1>1. IInv => OnlyTheCallInFlight
  BY DEF IInv, LateOnce, OnlyTheCallInFlight
<1> QED
  BY <1>1, InitIInv, StepIInv, PTL DEF Spec

(* No restart gives a pipe a second capture thread.                         *)
THEOREM ThreadIsAlone == Spec => []OneCaptureThread
<1>1. IInv => OneCaptureThread
  BY DEF IInv, Joined, OneCaptureThread, TypeOK
<1> QED
  BY <1>1, InitIInv, StepIInv, PTL DEF Spec

(* What a pipe writes or sends is what its source captured, with pictures   *)
(* missing but none repeated or reordered, for any number of components,    *)
(* of held pictures and of restarts: the pipe implements LossyChannel.      *)
THEOREM PipeImplementsChannel == Spec => ImplementsChannel
<1>1. Init => Channel!Init
  BY DEF Init, Channel!Init
<1>2. ASSUME Order, [Next]_vars
      PROVE  [Channel!Next]_<< [i \in 1 .. captured |-> 0],
                               [i \in DOMAIN delivered |-> [frame |-> delivered[i], pipe |-> 0]] >>
  <2>1. TypeOK
    BY <1>2 DEF Order, IInv
  <2>2. CASE UNCHANGED << captured, delivered >>
    BY <2>2
  <2>3. ASSUME NEW k \in DOMAIN threads, Capture(k) PROVE Channel!Next
    <3>1. Channel!Send(0)
      BY <2>1, <2>3, CaptureSends DEF Capture
    <3> QED
      BY <3>1 DEF Channel!Next
  <2>4. ASSUME NEW k \in DOMAIN threads, Consume(k), delivered' # delivered PROVE Channel!Next
    <3>1. PICK p : p = threads[k].picture
      OBVIOUS
    <3>2. delivered' = Append(delivered, p) /\ UNCHANGED captured
      BY <2>4, <3>1 DEF Consume
    <3>3. threads[k].pos = Len(list) /\ Between(threads[k].pos, p)
      BY <1>2, <2>1, <2>4, <3>1, SinkIsLast DEF Order, CarriedInOrder, Consume, Alive, TypeOK
    <3> QED
      BY <2>1, <3>2, <3>3, ConsumeDelivers
  <2>5. \/ UNCHANGED << captured, delivered >>
        \/ \E k \in DOMAIN threads : Capture(k) \/ Consume(k)
    BY <1>2 DEF Next, vars, Create, StartSteps, Start, SkipRunning, MarkRunning, InitPart,
       InitFails, SpawnCapture, StartReturns, StopSteps, Stop, MarkStopped, FreePart,
       StopReturns, CaptureThread, CheckRunning, CaptureTimeout, CaptureFault, Enter,
       WorkOpenH264, WorkAmf, WorkFault, ConsumeFault, ReleaseFrame, dataVars
  <2>6. ASSUME NEW k \in DOMAIN threads, Consume(k), delivered' = delivered
        PROVE  UNCHANGED << captured, delivered >>
    BY <2>6 DEF Consume
  <2> QED
    BY <2>2, <2>3, <2>4, <2>5, <2>6
<1> QED
  BY <1>1, <1>2, InitOrder, StepOrder, PTL DEF Spec, ImplementsChannel, Channel!Spec

=============================================================================
