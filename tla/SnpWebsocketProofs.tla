------------------------- MODULE SnpWebsocketProofs -------------------------
(***************************************************************************)
(* Proofs about the websocket server.                                      *)
(***************************************************************************)
EXTENDS SnpWebsocket, TLAPS

(* The state is of its type: a request belongs to a connection there is, a *)
(* connection has a client object (callback_http's clients.at() finds it), *)
(* and messages in the queue are for handles that had an object.           *)
THEOREM ServerIsTyped == Spec => []TypeOK
<1>1. Init => TypeOK
  <2> SUFFICES ASSUME Init
               PROVE  TypeOK
    OBVIOUS
  <2>1. outputQueue \in Seq(clients)
    BY DEF Init
  <2>2. pipes \subseteq [client : clients, stream : Streams, pipe : 1 .. created]
    BY DEF Init
  <2>3. /\ open \subseteq Handles /\ requested \subseteq open /\ open \subseteq clients
        /\ running \subseteq 1 .. created /\ abandoned \in BOOLEAN
        /\ fault \in {"none", "noPipe", "noListener"}
    BY DEF Init
  <2>4. connections \in 0 .. MaxConnections /\ created \in 0 .. MaxPipes
    BY WebsocketAssumption DEF Init
  <2> QED
    BY <2>1, <2>2, <2>3, <2>4 DEF TypeOK
<1>2. TypeOK /\ [Next]_vars => TypeOK'
  <2> SUFFICES ASSUME TypeOK, [Next]_vars
               PROVE  TypeOK'
    OBVIOUS
  <2> USE WebsocketAssumption
  <2>1. ASSUME NEW w \in Handles, Established(w) PROVE TypeOK'
    <3>1. outputQueue' \in Seq(clients')
      <4>1. outputQueue \in Seq(clients') /\ w \in clients'
        BY <2>1 DEF Established, TypeOK
      <4> QED
        BY <2>1, <4>1 DEF Established, SendMessage
    <3>2. pipes' \subseteq [client : clients', stream : Streams, pipe : 1 .. created']
      BY <2>1 DEF Established, TypeOK
    <3> QED
      BY <2>1, <3>1, <3>2 DEF Established, SendMessage, TypeOK
  <2>2. ASSUME NEW w \in Handles, Closed(w) PROVE TypeOK'
    BY <2>2 DEF Closed, TypeOK
  <2>3. ASSUME NEW w \in Handles, Writeable(w) PROVE TypeOK'
    <3>1. outputQueue' \in Seq(clients')
      BY <2>3 DEF Writeable, TypeOK
    <3> QED
      BY <2>3, <3>1 DEF Writeable, TypeOK
  <2>4. ASSUME NEW w \in Handles, NEW stream \in Streams, StreamInit(w, stream)
        PROVE  TypeOK'
    <3>1. created' = created + 1 /\ created' \in 0 .. MaxPipes /\ clients' = clients
      BY <2>4 DEF StreamInit, TypeOK
    <3>2. pipes' \subseteq [client : clients', stream : Streams, pipe : 1 .. created']
      <4>1. Entry(w, stream) \in [client : clients', stream : Streams, pipe : 1 .. created']
        BY <2>4, <3>1 DEF StreamInit, Entry, TypeOK
      <4>2. pipes \subseteq [client : clients', stream : Streams, pipe : 1 .. created']
        BY <3>1 DEF TypeOK
      <4> QED
        BY <2>4, <4>1, <4>2 DEF StreamInit
    <3>3. outputQueue' \in Seq(clients')
      BY <2>4, <3>1 DEF StreamInit, SendMessage, TypeOK
    <3>4. running' \subseteq 1 .. created'
      BY <2>4, <3>1 DEF StreamInit, TypeOK
    <3> QED
      BY <2>4, <3>1, <3>2, <3>3, <3>4 DEF StreamInit, SendMessage, TypeOK
  <2>5. ASSUME NEW w \in Handles, NEW stream \in Streams,
               \/ StreamStart(w, stream) \/ StreamStop(w, stream)
               \/ StreamDestroy(w, stream) \/ UnknownStream(w, stream)
        PROVE  TypeOK'
    BY <2>5 DEF StreamStart, StreamStop, StreamDestroy, UnknownStream, Entries, TypeOK
  <2>6. CASE UNCHANGED vars
    BY <2>6 DEF vars, TypeOK
  <2> QED
    BY <2>1, <2>2, <2>3, <2>4, <2>5, <2>6 DEF Next, Receive
<1> QED
  BY <1>1, <1>2, PTL DEF Spec

-----------------------------------------------------------------------------
(* The server never has messages to send and no writeable callback to come *)
(* (callback_http, sendMessage), unless a connection went with the request.*)
THEOREM MessagesAreAsked == Spec => []NothingIsStuck
<1>1. Init => NothingIsStuck
  BY DEF Init, NothingIsStuck
<1>2. NothingIsStuck /\ [Next]_vars => NothingIsStuck'
  <2> SUFFICES ASSUME NothingIsStuck, [Next]_vars
               PROVE  NothingIsStuck'
    OBVIOUS
  <2>1. ASSUME NEW w \in Handles, Established(w) PROVE NothingIsStuck'
    BY <2>1 DEF Established, SendMessage, NothingIsStuck
  <2>2. ASSUME NEW w \in Handles, Closed(w) PROVE NothingIsStuck'
    BY <2>2 DEF Closed, NothingIsStuck
  <2>3. ASSUME NEW w \in Handles, Writeable(w) PROVE NothingIsStuck'
    BY <2>3 DEF Writeable, NothingIsStuck
  <2>4. ASSUME NEW w \in Handles, NEW stream \in Streams, StreamInit(w, stream)
        PROVE  NothingIsStuck'
    BY <2>4 DEF StreamInit, SendMessage, NothingIsStuck
  <2>5. ASSUME NEW w \in Handles, NEW stream \in Streams,
               \/ StreamStart(w, stream) \/ StreamStop(w, stream)
               \/ StreamDestroy(w, stream) \/ UnknownStream(w, stream)
        PROVE  NothingIsStuck'
    BY <2>5 DEF StreamStart, StreamStop, StreamDestroy, UnknownStream, NothingIsStuck
  <2>6. CASE UNCHANGED vars
    BY <2>6 DEF vars, NothingIsStuck
  <2> QED
    BY <2>1, <2>2, <2>3, <2>4, <2>5, <2>6 DEF Next, Receive
<1> QED
  BY <1>1, <1>2, PTL DEF Spec

-----------------------------------------------------------------------------
(* What RunningIsKnown needs to be inductive: pipes are numbered as they   *)
(* are created, and no pipe is in two entries, so that stopping the pipe   *)
(* of an entry that goes leaves no entry of it behind.                     *)
PipesAreOwned ==
  /\ created \in Nat
  /\ \A e \in pipes : e.pipe \in Nat /\ e.pipe <= created
  /\ \A e, f \in pipes : e.pipe = f.pipe => e = f
  /\ RunningIsKnown

LEMMA OwnedStep == PipesAreOwned /\ [Next]_vars => PipesAreOwned'
<1> SUFFICES ASSUME PipesAreOwned, [Next]_vars
             PROVE  PipesAreOwned'
  OBVIOUS
<1>1. ASSUME NEW w \in Handles, Established(w) \/ Closed(w) \/ Writeable(w)
      PROVE  PipesAreOwned'
  BY <1>1 DEF Established, Closed, Writeable, PipesAreOwned, RunningIsKnown
<1>2. ASSUME NEW w \in Handles, NEW stream \in Streams, StreamInit(w, stream)
      PROVE  PipesAreOwned'
  <2>1. CASE pipes' = pipes
    BY <1>2, <2>1 DEF StreamInit, PipesAreOwned, RunningIsKnown
  <2>2. CASE pipes' = pipes \cup {Entry(w, stream)}
    <3>1. Entry(w, stream).pipe = created + 1
      BY DEF Entry
    <3>2. created' = created + 1 /\ running' = running
      BY <1>2 DEF StreamInit
    <3> QED
      BY <2>2, <3>1, <3>2 DEF PipesAreOwned, RunningIsKnown
  <2> QED
    BY <1>2, <2>1, <2>2 DEF StreamInit
<1>3. ASSUME NEW w \in Handles, NEW stream \in Streams, StreamStart(w, stream)
      PROVE  PipesAreOwned'
  BY <1>3 DEF StreamStart, Entries, PipesAreOwned, RunningIsKnown
<1>4. ASSUME NEW w \in Handles, NEW stream \in Streams, StreamStop(w, stream)
      PROVE  PipesAreOwned'
  BY <1>4 DEF StreamStop, PipesAreOwned, RunningIsKnown
<1>5. ASSUME NEW w \in Handles, NEW stream \in Streams, StreamDestroy(w, stream)
      PROVE  PipesAreOwned'
  <2>1. PICK e \in pipes : running' = running \ {e.pipe} /\ pipes' = pipes \ {e}
    BY <1>5 DEF StreamDestroy, Entries
  <2>2. created' = created
    BY <1>5 DEF StreamDestroy
  <2> QED
    BY <2>1, <2>2 DEF PipesAreOwned, RunningIsKnown
<1>6. ASSUME NEW w \in Handles, NEW stream \in Streams, UnknownStream(w, stream)
      PROVE  PipesAreOwned'
  BY <1>6 DEF UnknownStream, PipesAreOwned, RunningIsKnown
<1>7. CASE UNCHANGED vars
  BY <1>7 DEF vars, PipesAreOwned, RunningIsKnown
<1> QED
  BY <1>1, <1>2, <1>3, <1>4, <1>5, <1>6, <1>7 DEF Next, Receive

(* A pipe that runs is in the map of a client object, if only of one that  *)
(* a closed connection has left, whatever is made, closed and sent         *)
(* (SnpClientWebsocket::onStreamChange).                                   *)
THEOREM RunningIsReachable == Spec => []RunningIsKnown
<1>1. Init => PipesAreOwned
  BY DEF Init, PipesAreOwned, RunningIsKnown
<1>2. PipesAreOwned => RunningIsKnown
  BY DEF PipesAreOwned
<1> QED
  BY <1>1, <1>2, OwnedStep, PTL DEF Spec

=============================================================================
