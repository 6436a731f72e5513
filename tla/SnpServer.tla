----------------------------- MODULE SnpServer -----------------------------
(***************************************************************************)
(* The server program (snpserver.cpp, main2): SnpSinkNetworkTcp, whose     *)
(* listen thread serves one client at a time and starts pipes when a Setup *)
(* arrives, and the thread of every pipe started so far, which captures,   *)
(* encodes and pushes the layers of each picture into the same sink.       *)
(*                                                                         *)
(* All these threads share the members `buffer`, `clientConnected` and     *)
(* `clientSocket` of the sink without a lock.  A write of `buffer` that    *)
(* overlaps another thread's write may be lost (see Write); what else a    *)
(* data race on a std::vector can do is not modelled.                      *)
(*                                                                         *)
(* The clients are the environment: they connect, answer Capabilities with *)
(* Setup messages, close in an orderly way (recv() returns 0) or abort     *)
(* (recv() and send() fail).                                               *)
(***************************************************************************)
EXTENDS Integers, Sequences, FiniteSetsExt

CONSTANTS
  Pipes,            (* pipe ids a Setup may carry                            *)
  Fragments,        (* layers of an encoded picture; the last is `complete`  *)
  MaxConnections,   (* bound: connections made by clients                    *)
  MaxSetups,        (* bound: Setup messages sent by clients                 *)
  MaxPictures,      (* bound: pictures every source captures                 *)
  MaxInstances      (* bound: pipes whose source thread is followed          *)

ASSUME ServerAssumption ==
  /\ Pipes \subseteq Nat /\ 0 \in Pipes
  /\ Fragments \in Nat \ {0}
  /\ MaxConnections \in Nat /\ MaxSetups \in Nat
  /\ MaxPictures \in Nat /\ MaxInstances \in Nat

VARIABLES
  (* the clients and their connections *)
  conn,            (* conn[c] is "none", "open", "closed" or "reset"         *)
  incoming,        (* incoming[c]: units on their way to the server          *)
  asked,           (* the Setup messages sent, as [client, pipe, command]    *)
  (* SnpSinkNetworkTcp and its listen thread *)
  pc,              (* where listenForConnections() is                        *)
  listening,       (* the listen socket is open                              *)
  accepted,        (* connections accepted; their sockets are never closed   *)
  clientSocket,    (* member; 0 is INVALID_SOCKET                            *)
  clientConnected, (* member                                                 *)
  chunk,           (* local recvBuffer                                       *)
  buffer,          (* member                                                 *)
  (* snpserver.cpp and the pipes *)
  pipeMap,         (* global: pipe id |-> number of sources in its list      *)
  todo,            (* pipes createPipes() returned that are not started yet  *)
  instances,       (* the source threads, one for every pipe started         *)
  (* what was sent first on connection c, and whether the process lives *)
  first,           (* first[c]: "nothing", "greeting" or "data"              *)
  dead             (* an exception ended the process                         *)

clientVars == << conn, incoming, asked >>
listenVars == << pc, listening, accepted, chunk >>
pipeVars   == << pipeMap, todo >>
vars == << clientVars, listenVars, clientSocket, clientConnected, buffer,
           pipeVars, instances, first, dead >>

Connections == 1 .. MaxConnections
Commands == {"START", "STOP"}

(* A unit of `buffer`: one half of the bytes of Setup `item` (from = 0), or *)
(* a layer of picture `item` of source thread `from`.                       *)
Unit == [from : Nat, item : Nat, part : Nat]

UnitOf(from, item, part) == [from |-> from, item |-> item, part |-> part]

Init ==
  /\ conn = [c \in Connections |-> "none"] /\ incoming = [c \in Connections |-> << >>]
  /\ asked = << >>
  /\ pc = "wait" /\ listening = TRUE /\ accepted = 0 /\ chunk = << >>
  /\ clientSocket = 0 /\ clientConnected = FALSE /\ buffer = << >>
  /\ pipeMap = << >> /\ todo = {} /\ instances = << >>
  /\ first = [c \in Connections |-> "nothing"]
  /\ dead = FALSE

-----------------------------------------------------------------------------
(* The clients.                                                            *)

ClientConnects(c) ==
  /\ conn[c] = "none" /\ (c > 1 => conn[c - 1] # "none")
  /\ conn' = [conn EXCEPT ![c] = "open"]
  /\ UNCHANGED << incoming, asked, listenVars, clientSocket, clientConnected,
                  buffer, pipeVars, instances, first, dead >>

(* A client asks for a pipe to be started or stopped. *)
SendSetup(c, p, command) ==
  /\ conn[c] = "open" /\ Len(asked) < MaxSetups
  /\ asked' = Append(asked, [client |-> c, pipe |-> p, command |-> command])
  /\ incoming' = [incoming EXCEPT ![c] =
                    @ \o << UnitOf(0, Len(asked'), 1), UnitOf(0, Len(asked'), 2) >>]
  /\ UNCHANGED << conn, listenVars, clientSocket, clientConnected,
                  buffer, pipeVars, instances, first, dead >>

ClientCloses(c) ==
  /\ conn[c] = "open"
  /\ conn' = [conn EXCEPT ![c] = "closed"]
  /\ UNCHANGED << incoming, asked, listenVars, clientSocket, clientConnected,
                  buffer, pipeVars, instances, first, dead >>

ClientResets(c) ==
  /\ conn[c] \in {"open", "closed"}
  /\ conn' = [conn EXCEPT ![c] = "reset"]
  /\ incoming' = [incoming EXCEPT ![c] = << >>]
  /\ UNCHANGED << asked, listenVars, clientSocket, clientConnected,
                  buffer, pipeVars, instances, first, dead >>

-----------------------------------------------------------------------------
(* What the threads share.                                                 *)

(* send() on socket s: it works until the peer's reset has arrived, and    *)
(* once the peer has closed it may fail.                                   *)
CanSend(s) == s # 0 /\ conn[s] # "reset"
CanFail(s) == s # 0 => conn[s] # "open"

NoteFirst(s, kind) ==
  first' = [first EXCEPT ![s] = IF @ = "nothing" THEN kind ELSE @]

(* Writing `buffer` while another thread is about to write it. *)
ListenWrites == pc \in {"insert", "clear"}
SourceWrites(k) == instances[k].pc \in {"insert", "clear"}

Write(b, overlapped) ==
  \/ buffer' = b
  \/ overlapped /\ UNCHANGED buffer

-----------------------------------------------------------------------------
(* The listen thread: listenForConnections().                              *)

(* conditionVariable.wait(lock, !clientConnected).  Nothing ever notifies  *)
(* the condition variable: the thread passes only if the predicate holds   *)
(* when it gets here.                                                      *)
Wait ==
  /\ ~dead /\ pc = "wait" /\ ~clientConnected
  /\ pc' = "accept"
  /\ UNCHANGED << clientVars, listening, accepted, chunk, clientSocket, clientConnected,
                  buffer, pipeVars, instances, first, dead >>

Accept ==
  /\ ~dead /\ pc = "accept" /\ listening
  /\ accepted < MaxConnections /\ conn[accepted + 1] # "none"
  /\ accepted' = accepted + 1
  /\ clientSocket' = accepted + 1
  /\ pc' = "connected"
  /\ UNCHANGED << clientVars, listening, chunk, clientConnected, buffer, pipeVars,
                  instances, first, dead >>

(* Any failure of accept() closes the listen socket, after which every     *)
(* further accept() fails too.                                             *)
AcceptFails ==
  /\ ~dead /\ pc = "accept"
  /\ listening' = FALSE
  /\ clientSocket' = 0
  /\ clientConnected' = FALSE
  /\ pc' = "wait"
  /\ UNCHANGED << clientVars, accepted, chunk, buffer, pipeVars, instances, first, dead >>

(* Mutant: sendCapabilitiesMessage() is forgotten. *)
ConnectedWithoutGreeting ==
  /\ ~dead /\ pc = "connected"
  /\ clientConnected' = TRUE
  /\ pc' = "loop"
  /\ UNCHANGED << clientVars, listening, accepted, chunk, clientSocket, buffer, pipeVars,
                  instances, first, dead >>

Connected ==
  /\ ~dead /\ pc = "connected"
  /\ clientConnected' = TRUE
  /\ pc' = "greet"
  /\ UNCHANGED << clientVars, listening, accepted, chunk, clientSocket, buffer, pipeVars,
                  instances, first, dead >>

(* sendCapabilitiesMessage() *)
Greet ==
  /\ ~dead /\ pc = "greet"
  /\ pc' = "loop"
  /\ \/ /\ CanSend(clientSocket)
        /\ NoteFirst(clientSocket, "greeting")
        /\ UNCHANGED clientConnected
     \/ /\ CanFail(clientSocket)
        /\ clientConnected' = FALSE
        /\ UNCHANGED first
  /\ UNCHANGED << clientVars, listening, accepted, chunk, clientSocket, buffer, pipeVars,
                  instances, dead >>

(* while(clientConnected) *)
Loop ==
  /\ ~dead /\ pc = "loop"
  /\ pc' = IF clientConnected THEN "recv" ELSE "wait"
  /\ UNCHANGED << clientVars, listening, accepted, chunk, clientSocket, clientConnected,
                  buffer, pipeVars, instances, first, dead >>

Recv ==
  /\ ~dead /\ pc = "recv"
  /\ \E n \in 1 .. Len(incoming[clientSocket]) :
       /\ chunk' = SubSeq(incoming[clientSocket], 1, n)
       /\ incoming' = [incoming EXCEPT ![clientSocket] = SubSeq(@, n + 1, Len(@))]
  /\ pc' = "insert"
  /\ UNCHANGED << conn, asked, listening, accepted, clientSocket, clientConnected,
                  buffer, pipeVars, instances, first, dead >>

(* After an orderly close recv() returns 0, which is not distinguished     *)
(* from data.                                                              *)
RecvNothing ==
  /\ ~dead /\ pc = "recv"
  /\ conn[clientSocket] = "closed" /\ incoming[clientSocket] = << >>
  /\ chunk' = << >>
  /\ pc' = "insert"
  /\ UNCHANGED << conn, incoming, asked, listening, accepted, clientSocket, clientConnected,
                  buffer, pipeVars, instances, first, dead >>

(* Mutants: a failed recv() leaves the loop without clearing               *)
(* clientConnected, for the wait or for accept(), or is ignored.           *)
RecvErrorBreaks ==
  /\ ~dead /\ pc = "recv" /\ conn[clientSocket] = "reset"
  /\ pc' = "wait"
  /\ UNCHANGED << clientVars, listening, accepted, chunk, clientSocket, clientConnected,
                  buffer, pipeVars, instances, first, dead >>

RecvErrorReaccepts ==
  /\ ~dead /\ pc = "recv" /\ conn[clientSocket] = "reset"
  /\ pc' = "accept"
  /\ UNCHANGED << clientVars, listening, accepted, chunk, clientSocket, clientConnected,
                  buffer, pipeVars, instances, first, dead >>

RecvErrorIgnored ==
  /\ ~dead /\ pc = "recv" /\ conn[clientSocket] = "reset"
  /\ pc' = "loop"
  /\ UNCHANGED << clientVars, listening, accepted, chunk, clientSocket, clientConnected,
                  buffer, pipeVars, instances, first, dead >>

RecvError ==
  /\ ~dead /\ pc = "recv" /\ conn[clientSocket] = "reset"
  /\ clientConnected' = FALSE
  /\ pc' = "loop"
  /\ UNCHANGED << clientVars, listening, accepted, chunk, clientSocket, buffer, pipeVars,
                  instances, first, dead >>

(* Mutant: what was received before is overwritten. *)
InsertOverwriting ==
  /\ ~dead /\ pc = "insert"
  /\ Write(chunk, \E k \in DOMAIN instances : SourceWrites(k))
  /\ chunk' = << >>
  /\ pc' = "dispatch"
  /\ UNCHANGED << clientVars, listening, accepted, clientSocket, clientConnected, pipeVars,
                  instances, first, dead >>

InsertChunk ==
  /\ ~dead /\ pc = "insert"
  /\ Write(buffer \o chunk, \E k \in DOMAIN instances : SourceWrites(k))
  /\ chunk' = << >>
  /\ pc' = "dispatch"
  /\ UNCHANGED << clientVars, listening, accepted, clientSocket, clientConnected, pipeVars,
                  instances, first, dead >>

(* message.ParseFromArray(): only whole Setup messages parse (none is a    *)
(* Setup with default values).  A layer starts with zero bytes, no field;  *)
(* so does not begin a message that was broken off.                        *)
WholeSetups(b) ==
  /\ Len(b) % 2 = 0
  /\ \A i \in DOMAIN b : b[i].from = 0 /\ b[i].part = 2 - (i % 2)
  /\ \A i \in DOMAIN b : i % 2 = 0 => b[i].item = b[i - 1].item

(* Several Setups in one buffer merge: their component lists are joined,   *)
(* and the last pipe id that is not 0 wins.                                *)
ParsedPipe(b) ==
  LET nonzero == {i \in DOMAIN b : asked[b[i].item].pipe # 0} IN
  IF nonzero = {} THEN 0 ELSE asked[b[Max(nonzero)].item].pipe

(* A START carries a list with one source, a STOP an empty list. *)
ParsedSources(b) ==
  Cardinality({r \in {b[i].item : i \in DOMAIN b} : asked[r].command = "START"})

(* std::map::insert: an entry that exists already stays as it is. *)
Registered(p, n) ==
  [q \in DOMAIN pipeMap \cup {p} |-> IF q \in DOMAIN pipeMap THEN pipeMap[q] ELSE n]

(* dispatch() and handleSetupMessageCb() up to createPipes(), which makes  *)
(* new components for every pipe of pipeMap, whatever the command.  A list *)
(* with a second source makes getInputPort(0) throw.                       *)
Dispatch ==
  /\ ~dead /\ pc = "dispatch"
  /\ \/ /\ ~WholeSetups(buffer)
        /\ pc' = "loop"
        /\ UNCHANGED << pipeVars, dead >>
     \/ /\ WholeSetups(buffer)
        /\ pipeMap' = Registered(ParsedPipe(buffer), ParsedSources(buffer))
        /\ dead' = \E q \in DOMAIN pipeMap' : pipeMap'[q] > 1
        /\ todo' = DOMAIN pipeMap'
        /\ pc' = "create"
  /\ UNCHANGED << clientVars, listening, accepted, chunk, clientSocket, clientConnected,
                  buffer, instances, first >>

(* localPipe->addComponentEnd(snpSinkNetworkTcp) and localPipe->start(), in *)
(* the order of the map; the source's start() spawns its thread.  At the    *)
(* bound the thread of a pipe that is started is not followed.             *)
StartPipe ==
  /\ ~dead /\ pc = "create" /\ todo # {}
  /\ LET p == Min(todo) IN
     /\ todo' = todo \ {p}
     /\ instances' =
          IF pipeMap[p] = 0 \/ Len(instances) = MaxInstances THEN instances
          ELSE Append(instances, [pipe |-> p, pc |-> "check", picture |-> 1, fragment |-> 1,
                                  message |-> << >>])
  /\ UNCHANGED << clientVars, listenVars, clientSocket, clientConnected, buffer, pipeMap,
                  first, dead >>

AllStarted ==
  /\ ~dead /\ pc = "create" /\ todo = {}
  /\ pc' = "clear"
  /\ UNCHANGED << clientVars, listening, accepted, chunk, clientSocket, clientConnected,
                  buffer, pipeVars, instances, first, dead >>

ClearParsed ==
  /\ ~dead /\ pc = "clear"
  /\ Write(<< >>, \E k \in DOMAIN instances : SourceWrites(k))
  /\ pc' = "loop"
  /\ UNCHANGED << clientVars, listening, accepted, chunk, clientSocket, clientConnected,
                  pipeVars, instances, first, dead >>

-----------------------------------------------------------------------------
(* The source threads: SnpSourceDummy::renderFrame, the encoder and        *)
(* SnpSinkNetworkTcp::onInputData, called once for every layer.            *)

(* Mutant: one layer too many. *)
NextLayerOffByOne(inst) ==
  IF inst.fragment <= Fragments
  THEN [inst EXCEPT !.pc = "check", !.fragment = @ + 1]
  ELSE [inst EXCEPT !.pc = "check", !.fragment = 1, !.picture = @ + 1]

(* Thread k goes on to its next layer, of the same picture or the next. *)
NextLayer(inst) ==
  IF inst.fragment < Fragments
  THEN [inst EXCEPT !.pc = "check", !.fragment = @ + 1]
  ELSE [inst EXCEPT !.pc = "check", !.fragment = 1, !.picture = @ + 1]

(* if(!clientConnected) return; *)
Check(k) ==
  /\ ~dead /\ instances[k].pc = "check" /\ instances[k].picture <= MaxPictures
  /\ instances' =
       [instances EXCEPT ![k] = IF clientConnected THEN [@ EXCEPT !.pc = "insert"]
                                                   ELSE NextLayer(@)]
  /\ UNCHANGED << clientVars, listenVars, clientSocket, clientConnected, buffer, pipeVars,
                  first, dead >>

InsertLayer(k) ==
  LET inst == instances[k] IN
  /\ ~dead /\ inst.pc = "insert"
  /\ Write(Append(buffer, UnitOf(k, inst.picture, inst.fragment)),
           ListenWrites \/ \E j \in DOMAIN instances \ {k} : SourceWrites(j))
  /\ instances' =
       [instances EXCEPT ![k] = IF inst.fragment = Fragments THEN [@ EXCEPT !.pc = "build"]
                                                             ELSE NextLayer(@)]
  /\ UNCHANGED << clientVars, listenVars, clientSocket, clientConnected, pipeVars,
                  first, dead >>

(* sendDataMessage() copies the whole buffer into the message ... *)
Build(k) ==
  /\ ~dead /\ instances[k].pc = "build"
  /\ instances' = [instances EXCEPT ![k].pc = "send", ![k].message = buffer]
  /\ UNCHANGED << clientVars, listenVars, clientSocket, clientConnected, buffer, pipeVars,
                  first, dead >>

(* ... and sends it on whatever clientSocket is by then. *)
Send(k) ==
  /\ ~dead /\ instances[k].pc = "send"
  /\ \/ /\ CanSend(clientSocket)
        /\ NoteFirst(clientSocket, "data")
        /\ instances' = [instances EXCEPT ![k].pc = "clear", ![k].message = << >>]
     \/ /\ CanFail(clientSocket)
        /\ instances' = [instances EXCEPT ![k].pc = "failed", ![k].message = << >>]
        /\ UNCHANGED first
  /\ UNCHANGED << clientVars, listenVars, clientSocket, clientConnected, buffer, pipeVars,
                  dead >>

(* The failed send() may have been on an earlier socket. *)
SendFailed(k) ==
  /\ ~dead /\ instances[k].pc = "failed"
  /\ clientConnected' = FALSE
  /\ instances' = [instances EXCEPT ![k].pc = "clear"]
  /\ UNCHANGED << clientVars, listenVars, clientSocket, buffer, pipeVars, first, dead >>

(* Mutant: the buffer is not cleared after a message was sent. *)
ClearForgotten(k) ==
  /\ ~dead /\ instances[k].pc = "clear"
  /\ instances' = [instances EXCEPT ![k] = NextLayer(@)]
  /\ UNCHANGED << clientVars, listenVars, clientSocket, clientConnected, buffer, pipeVars,
                  first, dead >>

ClearSent(k) ==
  /\ ~dead /\ instances[k].pc = "clear"
  /\ Write(<< >>, ListenWrites \/ \E j \in DOMAIN instances \ {k} : SourceWrites(j))
  /\ instances' = [instances EXCEPT ![k] = NextLayer(@)]
  /\ UNCHANGED << clientVars, listenVars, clientSocket, clientConnected, pipeVars,
                  first, dead >>

-----------------------------------------------------------------------------
Clients ==
  \E c \in Connections :
    \/ ClientConnects(c) \/ ClientCloses(c) \/ ClientResets(c)
    \/ \E p \in Pipes, command \in Commands : SendSetup(c, p, command)

(* The steps of the listen thread that do not wait for a client. *)
Working ==
  \/ Wait \/ Connected \/ Greet \/ Loop \/ RecvError
  \/ InsertChunk \/ Dispatch \/ StartPipe \/ AllStarted \/ ClearParsed

ListenThread == Working \/ Accept \/ AcceptFails \/ Recv \/ RecvNothing

Source(k) ==
  Check(k) \/ InsertLayer(k) \/ Build(k) \/ Send(k) \/ SendFailed(k) \/ ClearSent(k)

Next ==
  \/ Clients
  \/ ListenThread
  \/ \E k \in DOMAIN instances : Source(k)

Spec == Init /\ [][Next]_vars

(* The operating system schedules the listen thread: while it is in recv() *)
(* it goes on when there is something to receive, or an error.             *)
FairSpec == Spec /\ WF_vars(Working) /\ WF_vars(Recv)

-----------------------------------------------------------------------------
(* Properties.                                                             *)

Instance ==
  [pipe : Pipes, pc : {"check", "insert", "build", "send", "failed", "clear"},
   picture : Nat, fragment : 1 .. Fragments, message : Seq(Unit)]

(* Every variable has its type. *)
TypeOK ==
  /\ conn \in [Connections -> {"none", "open", "closed", "reset"}]
  /\ incoming \in [Connections -> Seq(Unit)]
  /\ asked \in Seq([client : Connections, pipe : Pipes, command : Commands])
  /\ pc \in {"wait", "accept", "connected", "greet", "loop", "recv", "insert",
             "dispatch", "create", "clear"}
  /\ listening \in BOOLEAN /\ clientConnected \in BOOLEAN /\ dead \in BOOLEAN
  /\ accepted \in 0 .. MaxConnections /\ clientSocket \in 0 .. accepted
  /\ chunk \in Seq(Unit) /\ buffer \in Seq(Unit)
  /\ DOMAIN pipeMap \subseteq Pipes /\ \A p \in DOMAIN pipeMap : pipeMap[p] \in Nat
  /\ todo \subseteq DOMAIN pipeMap
  /\ instances \in Seq(Instance)
  /\ first \in [Connections -> {"nothing", "greeting", "data"}]

(* The listen thread never sleeps on its condition variable, which nothing *)
(* notifies: whenever it gets to the wait, clientConnected is FALSE,       *)
(* whatever the source threads do to it (listenForConnections).            *)
NoLostWakeup == pc = "wait" => ~clientConnected

(* The socket of a connected client is never replaced, nor is a client     *)
(* accepted while another is connected: clients are served one at a time   *)
(* (listenForConnections).                                                 *)
OneClientAtATime == [][clientSocket' # clientSocket => ~clientConnected]_vars

(* The first client gets Capabilities before any picture (later clients    *)
(* may not: a source can hold a message when their socket is assigned).    *)
FirstClientIsGreeted == accepted > 0 => first[1] # "data"

(* While a single source runs, and the listen thread sits in recv(), a     *)
(* buffer that holds exactly the layers of the current picture goes on     *)
(* doing so, and so does the message built from it (onInputData,           *)
(* sendDataMessage).                                                       *)
Undisturbed == Len(instances) = 1 /\ clientConnected /\ pc = "recv"

CurrentPicture ==
  LET inst == instances[1]
      inserted == IF inst.pc \in {"check", "insert"} THEN inst.fragment - 1 ELSE Fragments
      layers == [i \in 1 .. inserted |-> UnitOf(1, inst.picture, i)]
  IN /\ buffer = layers
     /\ inst.pc = "send" => inst.message = layers

PictureStaysWhole ==
  [][Undisturbed /\ Undisturbed' /\ CurrentPicture => CurrentPicture']_vars

(* The first Setup is served: nothing else writes the buffer yet, so it    *)
(* parses however it was cut, unless its client leaves or the server is    *)
(* ended (dispatch, handleSetupMessageCb).                                 *)
FirstSetupIsServed ==
  (asked # << >> /\ asked[1].command = "START" /\ asked[1].client = 1 /\ accepted = 1)
    ~> (instances # << >> \/ conn[1] # "open" \/ dead)

(* After a client's connection was reset the server goes back to accept(), *)
(* even if pipes are running (listenForConnections).                       *)
AcceptsAfterReset ==
  (clientConnected /\ pc # "accept" /\ conn[clientSocket] = "reset")
    ~> (pc = "accept" \/ dead)

(* "nalus should not be split/combined on protobuf layer" (TODO.md): the   *)
(* payload of a Data message is all the layers of one picture.             *)
NalusStayTogether ==
  \A k \in DOMAIN instances :
    LET inst == instances[k] IN
    inst.pc = "send" =>
      inst.message = [i \in 1 .. Fragments |-> UnitOf(k, inst.picture, i)]

(* A pipe is started because a client asked for a start: it has no more    *)
(* instances than such Setups were sent. README.md shows two requests,     *)
(* "Start a stream: snpclient->>snpserver: Setup" and "Stop a stream:      *)
(* snpclient->>snpserver: Setup, command: stop".                           *)
StartedOnRequest ==
  Len(instances) <= Cardinality({r \in DOMAIN asked : asked[r].command = "START"})

=============================================================================
