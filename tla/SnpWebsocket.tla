---------------------------- MODULE SnpWebsocket ----------------------------
(***************************************************************************)
(* The websocket server: one thread in lws_service() that runs the         *)
(* callbacks of SnpWebsocket for all connections, the output queue they    *)
(* share, and the client objects (SnpClientWebsocket) with their pipes.    *)
(* The libwebsockets library is the environment: it calls back when a      *)
(* connection is made, has a message, can be written to or is gone; a      *)
(* request to write is remembered once per connection, and the handle of a *)
(* connection that is gone may be used again for the next.                 *)
(*                                                                         *)
(* The sink that would send pictures from the threads of the pipes has its *)
(* call commented out ("TODO: websocket"), so every message here comes     *)
(* from the service thread.                                                *)
(***************************************************************************)
EXTENDS Naturals, Sequences

CONSTANTS
  Handles,         (* handles of connections (lws pointers)       *)
  Streams,         (* ids of streams                              *)
  MaxConnections,  (* bound: connections that are made            *)
  MaxPipes         (* bound: pipes that are created               *)

ASSUME WebsocketAssumption == MaxConnections \in Nat /\ MaxPipes \in Nat

VARIABLES
  open,         (* handles of the connections there are                       *)
  requested,    (* those with a writeable callback to come                    *)
  clients,      (* handles that have a client object                          *)
  pipes,        (* entries [client, stream, pipe] of the objects' maps        *)
  running,      (* pipes that were started and not stopped                    *)
  outputQueue,  (* for every message the handle it was queued for             *)
  abandoned,    (* a connection went with a request, and messages are left    *)
  connections, created,
  fault         (* what ended the process, or "none"                          *)

vars == << open, requested, clients, pipes, running, outputQueue, abandoned,
           connections, created, fault >>

Init ==
  /\ open = {} /\ requested = {} /\ clients = {} /\ pipes = {} /\ running = {}
  /\ outputQueue = << >> /\ abandoned = FALSE
  /\ connections = 0 /\ created = 0 /\ fault = "none"

(* sendMessage() *)
SendMessage(w) ==
  /\ outputQueue' = Append(outputQueue, w)
  /\ requested' = requested \cup {w}

(* LWS_CALLBACK_ESTABLISHED: insert() keeps the object that an earlier     *)
(* connection with the same handle has left, and the new one is lost.      *)
Established(w) ==
  /\ fault = "none" /\ w \notin open /\ connections < MaxConnections
  /\ open' = open \cup {w}
  /\ connections' = connections + 1
  /\ clients' = clients \cup {w}
  /\ SendMessage(w)
  /\ UNCHANGED << pipes, running, abandoned, created, fault >>

(* LWS_CALLBACK_CLOSED does nothing: the object stays, its pipes run on,   *)
(* and messages for it stay in the queue. The library forgets the request. *)
Closed(w) ==
  /\ fault = "none" /\ w \in open
  /\ open' = open \ {w}
  /\ requested' = requested \ {w}
  /\ abandoned' = (abandoned \/ (w \in requested /\ outputQueue # << >>))
  /\ UNCHANGED << clients, pipes, running, outputQueue, connections, created, fault >>

(* Mutant: the callback is not asked for again while messages wait. *)
WriteableOnce(w) ==
  /\ fault = "none" /\ w \in requested
  /\ outputQueue' = IF outputQueue = << >> THEN << >> ELSE Tail(outputQueue)
  /\ requested' = requested \ {w}
  /\ abandoned' = (abandoned /\ outputQueue' # << >>)
  /\ UNCHANGED << open, clients, pipes, running, connections, created, fault >>

(* LWS_CALLBACK_SERVER_WRITEABLE: the first message of the queue is        *)
(* written to w, whoever it was queued for.                                *)
Writeable(w) ==
  /\ fault = "none" /\ w \in requested
  /\ outputQueue' = IF outputQueue = << >> THEN << >> ELSE Tail(outputQueue)
  /\ requested' = IF outputQueue' = << >> THEN requested \ {w} ELSE requested
  /\ abandoned' = (abandoned /\ outputQueue' # << >>)
  /\ UNCHANGED << open, clients, pipes, running, connections, created, fault >>

-----------------------------------------------------------------------------
(* LWS_CALLBACK_RECEIVE: the message of an open connection is given to the *)
(* object of its handle.  Fragments and messages without a known type are  *)
(* dropped.                                                                *)
Entries(w, stream) == {e \in pipes : e.client = w /\ e.stream = stream}

Entry(w, stream) == [client |-> w, stream |-> stream, pipe |-> created + 1]

(* Mutant: the entry of the stream is replaced. *)
InitReplaces(w, stream) ==
  /\ fault = "none" /\ w \in open /\ created < MaxPipes
  /\ created' = created + 1
  /\ pipes' = (pipes \ Entries(w, stream)) \cup {Entry(w, stream)}
  /\ SendMessage(w)
  /\ UNCHANGED << open, clients, running, abandoned, connections, fault >>

(* onStreamChangeInit(): insert() keeps the pipe the stream has already,   *)
(* and the new one is lost; the answer is sent in both cases. (Nothing     *)
(* happens when the factory has no such pipe.)                             *)
StreamInit(w, stream) ==
  /\ fault = "none" /\ w \in open /\ created < MaxPipes
  /\ created' = created + 1
  /\ pipes' = IF Entries(w, stream) = {} THEN pipes \cup {Entry(w, stream)} ELSE pipes
  /\ SendMessage(w)
  /\ UNCHANGED << open, clients, running, abandoned, connections, fault >>

StreamStart(w, stream) ==
  /\ fault = "none" /\ w \in open
  /\ \E e \in Entries(w, stream) : running' = running \cup {e.pipe}
  /\ UNCHANGED << open, requested, clients, pipes, outputQueue, abandoned,
                  connections, created, fault >>

StreamStop(w, stream) ==
  /\ fault = "none" /\ w \in open
  /\ \E e \in Entries(w, stream) : running' = running \ {e.pipe}
  /\ UNCHANGED << open, requested, clients, pipes, outputQueue, abandoned,
                  connections, created, fault >>

(* onStreamChangeDestroy(): the pipe itself is not deleted. *)
StreamDestroy(w, stream) ==
  /\ fault = "none" /\ w \in open
  /\ \E e \in Entries(w, stream) :
       /\ running' = running \ {e.pipe}
       /\ pipes' = pipes \ {e}
  /\ UNCHANGED << open, requested, clients, outputQueue, abandoned,
                  connections, created, fault >>

(* pipes.find() and streamListeners.find() are not compared with end();    *)
(* nothing calls setStreamListener(), so that no stream has a listener.    *)
UnknownStream(w, stream) ==
  /\ fault = "none" /\ w \in open
  /\ \/ Entries(w, stream) = {} /\ fault' = "noPipe"
     \/ fault' = "noListener"
  /\ UNCHANGED << open, requested, clients, pipes, running, outputQueue, abandoned,
                  connections, created >>

Receive(w) ==
  \E stream \in Streams :
    \/ StreamInit(w, stream) \/ StreamDestroy(w, stream)
    \/ StreamStart(w, stream) \/ StreamStop(w, stream)
    \/ UnknownStream(w, stream)

Next == \E w \in Handles : Established(w) \/ Closed(w) \/ Writeable(w) \/ Receive(w)

Spec == Init /\ [][Next]_vars

-----------------------------------------------------------------------------
(* Properties.                                                             *)

TypeOK ==
  /\ open \subseteq Handles /\ requested \subseteq open /\ open \subseteq clients
  /\ pipes \subseteq [client : clients, stream : Streams, pipe : 1 .. created]
  /\ running \subseteq 1 .. created
  /\ outputQueue \in Seq(clients)
  /\ abandoned \in BOOLEAN
  /\ connections \in 0 .. MaxConnections /\ created \in 0 .. MaxPipes
  /\ fault \in {"none", "noPipe", "noListener"}

(* Messages in the queue always have a writeable callback to come, though  *)
(* requests of one connection count once and one callback writes one       *)
(* message.  Only a connection that goes with its request can leave them   *)
(* behind; nothing is promised then until the queue has been empty once    *)
(* (callback_http, sendMessage).                                           *)
NothingIsStuck == outputQueue # << >> => requested # {} \/ abandoned

(* However ids of streams and handles of connections are used again, the   *)
(* server never loses the pointer to a pipe that runs: it is in the map of *)
(* a client object.  That somebody can stop it is not said: the object may *)
(* be one that a closed connection has left ("TODO: remove client pointer  *)
(* and clean up", SnpWebsocket.cpp:101), and then no message reaches it    *)
(* until its handle is used again (SnpClientWebsocket::onStreamChange...). *)
RunningIsKnown == running \subseteq {e.pipe : e \in pipes}

=============================================================================
