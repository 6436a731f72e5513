-------------------------- MODULE SnpServerProofs --------------------------
(***************************************************************************)
(* Proofs about SnpServer for every number of clients, Setups, pictures,   *)
(* layers and pipes started: type correctness, NoLostWakeup,               *)
(* OneClientAtATime, FirstClientIsGreeted and PictureStaysWhole.           *)
(***************************************************************************)
EXTENDS SnpServer, SequenceTheorems, FiniteSetTheorems, WellFoundedInduction, TLAPS

-----------------------------------------------------------------------------
(* The part of TypeOK that the arguments below need. *)
Typed ==
  /\ accepted \in 0 .. MaxConnections /\ clientSocket \in 0 .. accepted
  /\ first \in [Connections -> {"nothing", "greeting", "data"}]

(* Between two clients clientConnected is FALSE: only the listen thread    *)
(* ever sets it, and it leaves the receive loop by reading it.             *)
Between == pc \in {"wait", "accept", "connected"} => ~clientConnected

(* Nothing runs before a client was accepted ... *)
Idle ==
  accepted = 0 =>
    /\ pc \in {"wait", "accept"} /\ instances = << >>
    /\ 1 \in Connections => first[1] # "data"

(* ... and once the receive loop was entered, or a pipe was started, the   *)
(* first client was greeted or is gone.                                    *)
Past == first[1] = "greeting" \/ clientSocket # 1

Greeted ==
  \/ clientConnected /\ pc = "loop"
  \/ pc \in {"recv", "insert", "dispatch", "create", "clear"}
  \/ instances # << >>
  => Past

IInv == Typed /\ Between /\ Idle /\ Greeted /\ FirstClientIsGreeted

-----------------------------------------------------------------------------
(* A socket that can send belongs to a connection that was accepted. *)
LEMMA SocketIsConnection ==
  ASSUME Typed, CanSend(clientSocket)
  PROVE  clientSocket \in Connections /\ 1 \in Connections
  BY ServerAssumption, SMT DEF Typed, CanSend, Connections

(* What NoteFirst does to the first connection. *)
LEMMA Noted ==
  ASSUME NEW kind \in {"greeting", "data"}, Typed, CanSend(clientSocket),
         accepted' = accepted, clientSocket' = clientSocket, NoteFirst(clientSocket, kind)
  PROVE  /\ Typed'
         /\ clientSocket # 1 \/ first[1] = "greeting" => first'[1] = first[1]
         /\ clientSocket = 1 /\ first[1] # "data" /\ kind = "greeting"
              => first'[1] = "greeting"
<1>1. clientSocket \in Connections /\ 1 \in Connections
  BY SocketIsConnection
<1>2. first \in [Connections -> {"nothing", "greeting", "data"}]
  BY DEF Typed
<1>3. Typed'
  BY <1>1, <1>2, SMT DEF Typed, NoteFirst
<1> QED
  BY <1>1, <1>2, <1>3, SMT DEF NoteFirst

LEMMA InitEstablishes == Init => IInv
  BY ServerAssumption, SMT
  DEF Init, IInv, Typed, Between, Idle, Greeted, Past, FirstClientIsGreeted

(* Actions of the clients change nothing the invariant speaks of. *)
LEMMA ClientsPreserve == IInv /\ Clients => IInv'
<1> SUFFICES ASSUME IInv,
                    UNCHANGED << pc, accepted, clientSocket, clientConnected, instances, first >>
             PROVE  IInv'
  BY DEF Clients, ClientConnects, ClientCloses, ClientResets, SendSetup, listenVars
<1> QED
  BY SMT DEF IInv, Typed, Between, Idle, Greeted, Past, FirstClientIsGreeted

(* The listen thread, one action after the other. *)
LEMMA ListenPreserves == IInv /\ ListenThread => IInv'
<1> SUFFICES ASSUME IInv, ListenThread PROVE IInv'
  OBVIOUS
<1> USE DEF IInv, Typed, Between, Idle, Greeted, Past, FirstClientIsGreeted
<1>1. CASE Wait
  BY <1>1, SMT DEF Wait
<1>2. CASE Connected
  BY <1>2, SMT DEF Connected
<1>3. CASE Greet
  <2>1. pc = "greet" /\ pc' = "loop" /\ UNCHANGED << accepted, clientSocket, instances >>
    BY <1>3, SMT DEF Greet, listenVars
  <2>2. CASE CanSend(clientSocket) /\ NoteFirst(clientSocket, "greeting")
    <3>0. accepted > 0 /\ first[1] # "data"
      BY <2>1, SMT
    <3>1. Typed' /\ accepted' = accepted
      BY <2>1, <2>2, Noted
    <3>2. CASE clientSocket = 1
      <4>1. first'[1] = "greeting"
        BY <2>1, <2>2, <3>0, <3>2, Noted
      <4> QED
        BY <2>1, <3>0, <3>1, <4>1, SMT
    <3>3. CASE clientSocket # 1
      <4>1. first'[1] = first[1]
        BY <2>1, <2>2, <3>3, Noted
      <4> QED
        BY <2>1, <3>0, <3>1, <3>3, <4>1, SMT
    <3> QED
      BY <2>1, <3>2, <3>3
  <2>3. CASE clientConnected' = FALSE /\ first' = first
    BY <2>1, <2>3, SMT
  <2> QED
    BY <1>3, <2>2, <2>3 DEF Greet
<1>4. CASE Loop
  BY <1>4, SMT DEF Loop
<1>5. CASE RecvError
  BY <1>5, SMT DEF RecvError
<1>6. CASE InsertChunk
  BY <1>6, SMT DEF InsertChunk
<1>7. CASE Dispatch
  <2>1. /\ pc = "dispatch" /\ pc' \in {"loop", "create"}
        /\ UNCHANGED << accepted, clientSocket, clientConnected, instances, first >>
    BY <1>7 DEF Dispatch
  <2> QED
    BY <2>1, SMT
<1>8. CASE StartPipe
  BY <1>8, SMT DEF StartPipe, listenVars
<1>9. CASE AllStarted
  BY <1>9, SMT DEF AllStarted
<1>10. CASE ClearParsed
  BY <1>10, SMT DEF ClearParsed
<1>11. CASE Accept
  BY <1>11, ServerAssumption, SMT DEF Accept, Connections
<1>12. CASE AcceptFails
  BY <1>12, SMT DEF AcceptFails
<1>13. CASE Recv
  BY <1>13, SMT DEF Recv
<1>14. CASE RecvNothing
  BY <1>14, SMT DEF RecvNothing
<1> QED
  BY <1>1, <1>2, <1>3, <1>4, <1>5, <1>6, <1>7, <1>8, <1>9, <1>10, <1>11, <1>12, <1>13, <1>14
  DEF ListenThread, Working

(* A source thread clears clientConnected at most, and sends nothing to    *)
(* the first client before it was greeted.                                 *)
LEMMA SourcesPreserve ==
  ASSUME NEW k \in DOMAIN instances, IInv, Source(k)
  PROVE  IInv'
<1> USE DEF IInv, Typed, Between, Idle, Greeted, Past, FirstClientIsGreeted, listenVars
<1>1. instances # << >> /\ Past /\ accepted > 0
  BY SMT
<1>2. ASSUME UNCHANGED << pc, accepted, clientSocket, clientConnected, first >>
      PROVE  IInv'
  BY <1>1, <1>2, SMT
<1>3. CASE Check(k)
  BY <1>2, <1>3 DEF Check
<1>4. CASE InsertLayer(k)
  BY <1>2, <1>4 DEF InsertLayer
<1>5. CASE Build(k)
  BY <1>2, <1>5 DEF Build
<1>6. CASE ClearSent(k)
  BY <1>2, <1>6 DEF ClearSent
<1>7. CASE SendFailed(k)
  BY <1>1, <1>7, SMT DEF SendFailed
<1>8. CASE Send(k)
  <2>1. CASE CanSend(clientSocket) /\ NoteFirst(clientSocket, "data")
    <3>1. accepted' = accepted /\ clientSocket' = clientSocket
      BY <1>8 DEF Send
    <3>2. Typed' /\ first'[1] = first[1]
      BY <1>1, <2>1, <3>1, Noted, SMT
    <3> QED
      BY <1>1, <1>8, <3>2, SMT DEF Send
  <2>2. CASE UNCHANGED first
    BY <1>2, <1>8, <2>2 DEF Send
  <2> QED
    BY <1>8, <2>1, <2>2 DEF Send
<1> QED
  BY <1>3, <1>4, <1>5, <1>6, <1>7, <1>8 DEF Source

LEMMA NextPreserves == IInv /\ [Next]_vars => IInv'
<1> SUFFICES ASSUME IInv, [Next]_vars PROVE IInv'
  OBVIOUS
<1>1. CASE UNCHANGED vars
  BY <1>1, SMT DEF IInv, Typed, Between, Idle, Greeted, Past, FirstClientIsGreeted,
                   vars, listenVars
<1> QED
  BY <1>1, ClientsPreserve, ListenPreserves, SourcesPreserve DEF Next

LEMMA Invariance == Spec => []IInv
  BY InitEstablishes, NextPreserves, PTL DEF Spec

-----------------------------------------------------------------------------
(* The listen thread never sleeps on its condition variable                *)
(* (SnpSinkNetworkTcp::listenForConnections), however many sources run.    *)
THEOREM NeverSleeps == Spec => []NoLostWakeup
<1>1. IInv => NoLostWakeup
  BY DEF IInv, Between, NoLostWakeup
<1> QED
  BY <1>1, Invariance, PTL

(* The socket of a connected client is never replaced                      *)
(* (SnpSinkNetworkTcp::listenForConnections).                              *)
THEOREM ClientsAreServedInTurn == Spec => OneClientAtATime
<1>1. IInv /\ [Next]_vars => [clientSocket' # clientSocket => ~clientConnected]_vars
  <2> SUFFICES ASSUME IInv, Next, clientSocket' # clientSocket
               PROVE  ~clientConnected
    BY DEF OneClientAtATime
  <2>1. pc = "accept"
    <3>1. CASE Clients
      BY <3>1 DEF Clients, ClientConnects, ClientCloses, ClientResets, SendSetup
    <3>2. CASE ListenThread
      BY <3>2 DEF ListenThread, Working, Wait, Connected, Greet, Loop, RecvError,
                  InsertChunk, Dispatch, StartPipe, AllStarted, ClearParsed,
                  Accept, AcceptFails, Recv, RecvNothing
    <3>3. ASSUME NEW k \in DOMAIN instances, Source(k)
          PROVE  clientSocket' = clientSocket
      BY <3>3 DEF Source, Check, InsertLayer, Build, Send, SendFailed, ClearSent
    <3> QED
      BY <3>1, <3>2, <3>3 DEF Next
  <2> QED
    BY <2>1 DEF IInv, Between
<1> QED
  BY <1>1, Invariance, PTL DEF Spec, OneClientAtATime

(* The first client gets Capabilities before any picture                   *)
(* (SnpSinkNetworkTcp::sendCapabilitiesMessage).                           *)
THEOREM FirstClientGreeted == Spec => []FirstClientIsGreeted
<1>1. IInv => FirstClientIsGreeted
  BY DEF IInv
<1> QED
  BY <1>1, Invariance, PTL

-----------------------------------------------------------------------------
(* Type correctness.  What the listen thread does with a parsed Setup is   *)
(* typed because the bytes of Setups that anybody holds are bytes of       *)
(* Setups that a client sent, and it receives from a real socket.          *)

KnownUnit == {u \in Unit : u.from = 0 => u.item \in 1 .. Len(asked)}

SetupsKnown ==
  /\ chunk \in Seq(KnownUnit) /\ buffer \in Seq(KnownUnit)
  /\ incoming \in [Connections -> Seq(KnownUnit)]

Receiving == pc \notin {"wait", "accept"} => clientSocket # 0

TInv == TypeOK /\ SetupsKnown /\ Receiving

(* The rest of TypeOK. *)
Rest ==
  /\ conn \in [Connections -> {"none", "open", "closed", "reset"}]
  /\ asked \in Seq([client : Connections, pipe : Pipes, command : Commands])
  /\ pc \in {"wait", "accept", "connected", "greet", "loop", "recv", "insert",
             "dispatch", "create", "clear"}
  /\ listening \in BOOLEAN /\ clientConnected \in BOOLEAN /\ dead \in BOOLEAN
  /\ accepted \in 0 .. MaxConnections /\ clientSocket \in 0 .. accepted
  /\ DOMAIN pipeMap \subseteq Pipes /\ \A p \in DOMAIN pipeMap : pipeMap[p] \in Nat
  /\ todo \subseteq DOMAIN pipeMap
  /\ instances \in Seq(Instance)
  /\ first \in [Connections -> {"nothing", "greeting", "data"}]

LEMMA KnownAreUnits ==
  /\ \A s \in Seq(KnownUnit) : s \in Seq(Unit)
  /\ SetupsKnown /\ Rest /\ Receiving => TInv
<1>1. KnownUnit \subseteq Unit
  BY DEF KnownUnit
<1>2. \A s \in Seq(KnownUnit) : s \in Seq(Unit)
  BY <1>1, SeqMonotonic
<1>3. SetupsKnown => incoming \in [Connections -> Seq(Unit)]
  BY <1>2 DEF SetupsKnown
<1> QED
  BY <1>2, <1>3 DEF TInv, TypeOK, Rest, SetupsKnown

LEMMA TInvGives == TInv => Rest /\ SetupsKnown /\ Receiving
  BY DEF TInv, TypeOK, Rest

LEMMA TInvNext == Rest' /\ SetupsKnown' /\ Receiving' => TInv'
  BY KnownAreUnits, PTL

(* A smallest element, the next pipe to be started. *)
LEMMA MinOfPipes ==
  ASSUME NEW S, S \subseteq Pipes, S # {}
  PROVE  Min(S) \in S
<1> DEFINE Less == {p \in Nat \X Nat : p[1] < p[2]}
<1>1. S \subseteq Nat
  BY ServerAssumption
<1>2. PICK m \in S : \A y \in S : ~ (<< y, m >> \in Less)
  <2>1. IsWellFoundedOn(Less, Nat)
    BY NatLessThanWellFounded, Zenon DEF OpToRel
  <2> HIDE DEF Less
  <2> QED BY <1>1, <2>1, WFMin
<1>3. ASSUME NEW y \in S PROVE m <= y
  <2>1. y \in Nat /\ m \in Nat
    BY <1>1
  <2>2. y < m => << y, m >> \in Less
    BY <2>1
  <2> HIDE DEF Less
  <2> QED BY <1>2, <2>1, <2>2
<1> QED BY <1>3 DEF Min

(* A greatest element: the last Setup of a buffer that names a pipe. *)
LEMMA MaxOfBounded ==
  ASSUME NEW S, S \subseteq Nat, S # {}, NEW n \in Nat, \A x \in S : x <= n
  PROVE  Max(S) \in S
<1> DEFINE T == {n - x : x \in S}
           Less == {p \in Nat \X Nat : p[1] < p[2]}
<1>1. T \subseteq Nat /\ T # {}
  <2>1. ASSUME NEW x \in S PROVE n - x \in Nat
    <3>1. x \in Nat /\ x <= n
      OBVIOUS
    <3> QED BY <3>1
  <2> QED BY <2>1
<1>2. PICK t \in T : \A y \in T : ~ (<< y, t >> \in Less)
  <2>1. IsWellFoundedOn(Less, Nat)
    BY NatLessThanWellFounded, Zenon DEF OpToRel
  <2> HIDE DEF T, Less
  <2> QED BY <1>1, <2>1, WFMin
<1>3. ASSUME NEW y \in T PROVE t <= y
  <2>1. y \in Nat /\ t \in Nat
    BY <1>1
  <2>2. y < t => << y, t >> \in Less
    BY <2>1
  <2> HIDE DEF T, Less
  <2> QED BY <1>2, <2>1, <2>2
<1>4. PICK m \in S : t = n - m
  OBVIOUS
<1>5. \A x \in S : m >= x
  BY <1>3, <1>4
<1> QED BY <1>5 DEF Max

(* A buffer that parses yields a pipe that was asked for, and a number of  *)
(* sources.                                                                *)
LEMMA ParsedIsTyped ==
  ASSUME Rest, NEW b \in Seq(KnownUnit), WholeSetups(b)
  PROVE  ParsedPipe(b) \in Pipes /\ ParsedSources(b) \in Nat
<1>1. /\ DOMAIN b = 1 .. Len(b) /\ Len(b) \in Nat /\ Len(asked) \in Nat
      /\ \A i \in DOMAIN b : b[i].item \in 1 .. Len(asked)
  <2>1. \A i \in 1 .. Len(b) : b[i] \in KnownUnit
    BY ElementOfSeq
  <2>2. asked \in Seq([client : Connections, pipe : Pipes, command : Commands])
    BY DEF Rest
  <2>3. \A i \in 1 .. Len(b) : b[i].from = 0 => b[i].item \in 1 .. Len(asked)
    BY <2>1 DEF KnownUnit
  <2>4. \A i \in DOMAIN b : b[i].from = 0
    BY DEF WholeSetups
  <2> QED
    BY <2>2, <2>3, <2>4
<1>2. \A r \in 1 .. Len(asked) : asked[r].pipe \in Pipes
  <2>1. asked \in Seq([client : Connections, pipe : Pipes, command : Commands])
    BY DEF Rest
  <2>2. \A r \in 1 .. Len(asked) :
          asked[r] \in [client : Connections, pipe : Pipes, command : Commands]
    BY <2>1, ElementOfSeq
  <2> QED BY <2>2
<1>3. ParsedPipe(b) \in Pipes
  <2> DEFINE nonzero == {i \in DOMAIN b : asked[b[i].item].pipe # 0}
  <2>1. CASE nonzero = {}
    BY <2>1, ServerAssumption DEF ParsedPipe
  <2>2. CASE nonzero # {}
    <3>1. nonzero \subseteq Nat /\ \A x \in nonzero : x <= Len(b)
      BY <1>1
    <3>2. Max(nonzero) \in nonzero
      <4> HIDE DEF nonzero
      <4> QED BY <1>1, <2>2, <3>1, MaxOfBounded
    <3>3. b[Max(nonzero)].item \in 1 .. Len(asked)
      BY <1>1, <3>2
    <3> QED
      BY <1>2, <2>2, <3>3 DEF ParsedPipe
  <2> QED BY <2>1, <2>2
<1>4. ParsedSources(b) \in Nat
  <2> DEFINE S == {r \in {b[i].item : i \in DOMAIN b} : asked[r].command = "START"}
  <2>1. S \in SUBSET Nat /\ \A s \in S : s <= Len(asked)
    BY <1>1
  <2>2. IsFiniteSet(S)
    <3> HIDE DEF S
    <3> QED BY <1>1, <2>1, FS_BoundedSetOfNaturals
  <2>3. Cardinality(S) \in Nat
    BY <2>2, FS_CardinalityType
  <2> QED BY <2>3 DEF ParsedSources
<1> QED BY <1>3, <1>4

LEMMA InitTyped == Init => TInv
<1> SUFFICES ASSUME Init PROVE Rest /\ SetupsKnown /\ Receiving
  BY KnownAreUnits
<1>1. \A S : << >> \in Seq(S)
  BY EmptySeq
<1>2. SetupsKnown
  BY <1>1 DEF Init, SetupsKnown
<1>3. Receiving
  BY DEF Init, Receiving
<1>4. Rest
  <2>1. DOMAIN pipeMap = {}
    BY SMT DEF Init
  <2>2. asked \in Seq([client : Connections, pipe : Pipes, command : Commands])
        /\ instances \in Seq(Instance)
    BY <1>1 DEF Init
  <2>3. accepted \in 0 .. MaxConnections /\ clientSocket \in 0 .. accepted
    BY ServerAssumption, SMT DEF Init
  <2>4. /\ DOMAIN pipeMap \subseteq Pipes /\ \A p \in DOMAIN pipeMap : pipeMap[p] \in Nat
        /\ todo \subseteq DOMAIN pipeMap
    BY <2>1 DEF Init
  <2> QED
    BY <2>2, <2>3, <2>4 DEF Init, Rest
<1> QED BY <1>2, <1>3, <1>4

(* A step that changes nothing the units can be found in. *)
LEMMA KeepsSetups ==
  ASSUME SetupsKnown, UNCHANGED << incoming, asked, chunk, buffer >>
  PROVE  SetupsKnown'
  BY DEF SetupsKnown, KnownUnit

LEMMA ClientsTyped == TInv /\ Clients => TInv'
<1> SUFFICES ASSUME Rest, SetupsKnown, Receiving, Clients
             PROVE  Rest' /\ SetupsKnown' /\ Receiving'
  BY TInvGives, TInvNext
<1>1. /\ UNCHANGED << pc, listening, accepted, chunk, clientSocket, clientConnected,
                      buffer, pipeMap, todo, instances, first, dead >>
  BY DEF Clients, ClientConnects, ClientCloses, ClientResets, SendSetup, listenVars, pipeVars
<1>2. Receiving'
  BY <1>1 DEF Receiving
<1>3. PICK c \in Connections :
        \/ ClientConnects(c) \/ ClientCloses(c) \/ ClientResets(c)
        \/ \E p \in Pipes, command \in Commands : SendSetup(c, p, command)
  BY DEF Clients
<1>4. CASE ClientConnects(c) \/ ClientCloses(c) \/ ClientResets(c)
  <2>1. Rest'
    BY <1>1, <1>4, SMT DEF Rest, ClientConnects, ClientCloses, ClientResets
  <2>2. CASE UNCHANGED << incoming, asked >>
    BY <1>1, <1>2, <2>1, <2>2, KeepsSetups
  <2>3. CASE ClientResets(c)
    <3>1. incoming' = [incoming EXCEPT ![c] = << >>] /\ asked' = asked
      BY <2>3 DEF ClientResets
    <3>2. << >> \in Seq(KnownUnit)
      BY EmptySeq
    <3>3. incoming' \in [Connections -> Seq(KnownUnit)]
      BY <3>1, <3>2 DEF SetupsKnown
    <3> QED
      BY <1>1, <1>2, <2>1, <3>1, <3>3 DEF SetupsKnown, KnownUnit
  <2> QED
    BY <1>4, <2>2, <2>3 DEF ClientConnects, ClientCloses
<1>5. ASSUME NEW p \in Pipes, NEW command \in Commands, SendSetup(c, p, command)
      PROVE  Rest' /\ SetupsKnown'
  <2> DEFINE ask == [client |-> c, pipe |-> p, command |-> command]
             halves == << UnitOf(0, Len(asked'), 1), UnitOf(0, Len(asked'), 2) >>
  <2>1. /\ conn' = conn /\ asked' = Append(asked, ask)
        /\ incoming' = [incoming EXCEPT ![c] = @ \o halves]
    BY <1>5 DEF SendSetup
  <2>2. /\ asked' \in Seq([client : Connections, pipe : Pipes, command : Commands])
        /\ Len(asked) \in Nat /\ Len(asked') = Len(asked) + 1
    BY <2>1, SMT DEF Rest
  <2>3. Rest'
    BY <1>1, <2>1, <2>2 DEF Rest
  <2>4. KnownUnit \subseteq KnownUnit'
    BY <2>2, SMT DEF KnownUnit
  <2>5. \A s \in Seq(KnownUnit) : s \in Seq(KnownUnit')
    BY <2>4, SeqMonotonic
  <2>6. halves \in Seq(KnownUnit')
    <3>1. UnitOf(0, Len(asked'), 1) \in KnownUnit' /\ UnitOf(0, Len(asked'), 2) \in KnownUnit'
      BY <2>2, SMT DEF UnitOf, Unit, KnownUnit
    <3> QED BY <3>1
  <2>7. incoming[c] \o halves \in Seq(KnownUnit')
    <3>1. incoming[c] \in Seq(KnownUnit')
      BY <2>5 DEF SetupsKnown
    <3> HIDE DEF halves
    <3> QED BY <2>6, <3>1, ConcatProperties
  <2>8. incoming' \in [Connections -> Seq(KnownUnit')]
    <3> HIDE DEF halves
    <3> QED BY <2>1, <2>5, <2>7 DEF SetupsKnown
  <2> QED
    BY <1>1, <2>3, <2>5, <2>8 DEF SetupsKnown
<1> QED BY <1>2, <1>3, <1>4, <1>5

(* send() and the writes of `buffer`. *)
LEMMA WriteTyped ==
  ASSUME SetupsKnown, NEW b \in Seq(KnownUnit), NEW overlapped, Write(b, overlapped)
  PROVE  buffer' \in Seq(KnownUnit)
  BY DEF Write, SetupsKnown

LEMMA NotedTyped ==
  ASSUME Rest, NEW kind \in {"greeting", "data"}, CanSend(clientSocket),
         NoteFirst(clientSocket, kind)
  PROVE  first' \in [Connections -> {"nothing", "greeting", "data"}]
<1>1. clientSocket \in Connections
  BY ServerAssumption, SMT DEF Rest, CanSend, Connections
<1> QED
  BY <1>1, SMT DEF Rest, NoteFirst

LEMMA ListenTyped == TInv /\ ListenThread => TInv'
<1> SUFFICES ASSUME Rest, SetupsKnown, Receiving, ListenThread
             PROVE  Rest' /\ SetupsKnown' /\ Receiving'
  BY TInvGives, TInvNext
<1> USE DEF clientVars, pipeVars, listenVars
<1>1. ASSUME UNCHANGED << conn, asked, pipeMap, todo, instances >>,
             UNCHANGED << incoming, chunk, buffer >>,
             listening' \in BOOLEAN, clientConnected' \in BOOLEAN, dead' = dead,
             first' \in [Connections -> {"nothing", "greeting", "data"}]
      PROVE  /\ SetupsKnown'
             /\ UNCHANGED << accepted, clientSocket >> /\ Receiving'
                /\ pc' \in {"wait", "accept", "connected", "greet", "loop", "recv",
                            "insert", "dispatch", "create", "clear"}
                  => Rest' /\ Receiving'
  <2>1. SetupsKnown'
    BY <1>1, KeepsSetups
  <2> QED
    BY <1>1, <2>1 DEF Rest
<1>2. CASE Wait \/ Connected \/ Greet \/ Loop \/ RecvError \/ AllStarted
  <2>1. /\ UNCHANGED << conn, asked, incoming, listening, accepted, clientSocket, chunk,
                        buffer, pipeMap, todo, instances, dead >>
        /\ pc # "wait" => pc # "accept"
        /\ pc' \in {"wait", "accept", "connected", "greet", "loop", "recv",
                    "insert", "dispatch", "create", "clear"}
    BY <1>2 DEF Wait, Connected, Greet, Loop, RecvError, AllStarted
  <2>2. Receiving'
    BY <1>2, <2>1 DEF Receiving, Wait, Connected, Greet, Loop, RecvError, AllStarted
  <2>3. clientConnected' \in BOOLEAN /\ listening' \in BOOLEAN
    BY <1>2, <2>1 DEF Rest, Wait, Connected, Greet, Loop, RecvError, AllStarted
  <2>4. first' \in [Connections -> {"nothing", "greeting", "data"}]
    <3>1. CASE first' = first
      BY <3>1 DEF Rest
    <3>2. CASE CanSend(clientSocket) /\ NoteFirst(clientSocket, "greeting")
      BY <3>2, NotedTyped
    <3> QED
      BY <1>2, <3>1, <3>2 DEF Wait, Connected, Greet, Loop, RecvError, AllStarted
  <2> QED
    BY <1>1, <2>1, <2>2, <2>3, <2>4
<1>3. CASE Accept
  <2>1. accepted' \in 0 .. MaxConnections /\ clientSocket' \in 0 .. accepted' /\ clientSocket' # 0
    BY <1>3, ServerAssumption, SMT DEF Accept, Rest
  <2>2. SetupsKnown'
    BY <1>3, KeepsSetups DEF Accept
  <2> QED
    BY <1>3, <2>1, <2>2 DEF Accept, Rest, Receiving
<1>4. CASE AcceptFails
  <2>1. clientSocket' \in 0 .. accepted'
    BY <1>4, SMT DEF AcceptFails, Rest
  <2>2. SetupsKnown'
    BY <1>4, KeepsSetups DEF AcceptFails
  <2> QED
    BY <1>4, <2>1, <2>2 DEF AcceptFails, Rest, Receiving
<1>5. CASE Recv
  <2>1. clientSocket \in Connections
    BY <1>5, ServerAssumption, SMT DEF Recv, Rest, Receiving, Connections
  <2> DEFINE q == incoming[clientSocket]
  <2>2. q \in Seq(KnownUnit)
    BY <2>1 DEF SetupsKnown
  <2>3. PICK n \in 1 .. Len(q) :
          /\ chunk' = SubSeq(q, 1, n)
          /\ incoming' = [incoming EXCEPT ![clientSocket] = SubSeq(q, n + 1, Len(q))]
    BY <1>5 DEF Recv
  <2>4. SubSeq(q, 1, n) \in Seq(KnownUnit) /\ SubSeq(q, n + 1, Len(q)) \in Seq(KnownUnit)
    <3> HIDE DEF q
    <3>1. Len(q) \in Nat
      BY <2>2
    <3>2. \A i \in 1 .. n : q[i] \in KnownUnit
      BY <2>2, <3>1
    <3>3. \A i \in n + 1 .. Len(q) : q[i] \in KnownUnit
      BY <2>2, <3>1
    <3> QED
      BY <2>2, <3>1, <3>2, <3>3, SubSeqProperties
  <2>5. SetupsKnown'
    <3> HIDE DEF q
    <3>1. chunk' \in Seq(KnownUnit) /\ incoming' \in [Connections -> Seq(KnownUnit)]
      BY <2>1, <2>3, <2>4 DEF SetupsKnown
    <3> QED
      BY <1>5, <3>1 DEF Recv, SetupsKnown, KnownUnit
  <2> QED
    BY <1>5, <2>5 DEF Recv, Rest, Receiving
<1>6. CASE RecvNothing
  <2>1. chunk' \in Seq(KnownUnit)
    BY <1>6, EmptySeq DEF RecvNothing
  <2> QED
    BY <1>6, <2>1 DEF RecvNothing, Rest, Receiving, SetupsKnown, KnownUnit
<1>7. CASE InsertChunk
  <2>1. buffer \o chunk \in Seq(KnownUnit) /\ chunk' \in Seq(KnownUnit)
    BY <1>7, ConcatProperties, EmptySeq DEF InsertChunk, SetupsKnown
  <2>2. buffer' \in Seq(KnownUnit)
    BY <1>7, <2>1, WriteTyped DEF InsertChunk
  <2> QED
    BY <1>7, <2>1, <2>2 DEF InsertChunk, Rest, Receiving, SetupsKnown, KnownUnit
<1>8. CASE ClearParsed
  <2>1. << >> \in Seq(KnownUnit)
    BY EmptySeq
  <2>2. buffer' \in Seq(KnownUnit)
    BY <1>8, <2>1, WriteTyped DEF ClearParsed
  <2> QED
    BY <1>8, <2>2 DEF ClearParsed, Rest, Receiving, SetupsKnown, KnownUnit
<1>9. CASE Dispatch
  <2>1. /\ UNCHANGED << conn, asked, incoming, listening, accepted, clientSocket, chunk,
                        clientConnected, buffer, instances, first >>
        /\ pc = "dispatch" /\ pc' \in {"loop", "create"}
    BY <1>9 DEF Dispatch
  <2>2. Receiving' /\ SetupsKnown'
    BY <2>1, KeepsSetups DEF Receiving
  <2>3. /\ DOMAIN pipeMap' \subseteq Pipes /\ \A p \in DOMAIN pipeMap' : pipeMap'[p] \in Nat
        /\ todo' \subseteq DOMAIN pipeMap' /\ dead' \in BOOLEAN
    <3>1. CASE UNCHANGED << pipeMap, todo, dead >>
      BY <3>1 DEF Rest
    <3>2. CASE /\ WholeSetups(buffer)
               /\ pipeMap' = Registered(ParsedPipe(buffer), ParsedSources(buffer))
               /\ dead' = \E q \in DOMAIN pipeMap' : pipeMap'[q] > 1
               /\ todo' = DOMAIN pipeMap'
      <4>1. ParsedPipe(buffer) \in Pipes /\ ParsedSources(buffer) \in Nat
        BY <3>2, ParsedIsTyped DEF SetupsKnown
      <4>2. dead' \in BOOLEAN
        BY <3>2, Zenon
      <4>3. DOMAIN pipeMap' \subseteq Pipes /\ \A p \in DOMAIN pipeMap' : pipeMap'[p] \in Nat
        BY <3>2, <4>1 DEF Registered, Rest
      <4> QED
        BY <3>2, <4>2, <4>3
    <3> QED
      BY <1>9, <3>1, <3>2 DEF Dispatch
  <2> QED
    BY <2>1, <2>2, <2>3 DEF Rest
<1>10. CASE StartPipe
  <2> DEFINE p == Min(todo)
             started == [pipe |-> p, pc |-> "check", picture |-> 1, fragment |-> 1,
                         message |-> << >>]
  <2>1. /\ todo' = todo \ {p}
        /\ instances' = instances \/ instances' = Append(instances, started)
        /\ UNCHANGED << conn, incoming, asked, pc, listening, accepted, chunk, clientSocket,
                        clientConnected, buffer, pipeMap, first, dead >>
    BY <1>10 DEF StartPipe
  <2>2. p \in Pipes
    <3>1. todo \subseteq Pipes /\ todo # {}
      BY <1>10 DEF StartPipe, Rest
    <3>2. Min(todo) \in todo
      BY <3>1, MinOfPipes
    <3> QED BY <3>1, <3>2
  <2>3. started \in Instance
    <3> HIDE DEF p
    <3>1. 1 \in 1 .. Fragments /\ << >> \in Seq(Unit)
      BY ServerAssumption, EmptySeq
    <3> QED BY <2>2, <3>1 DEF Instance
  <2>4. instances' \in Seq(Instance)
    <3> HIDE DEF started
    <3>1. instances \in Seq(Instance)
      BY DEF Rest
    <3>2. Append(instances, started) \in Seq(Instance)
      BY <2>3, <3>1, AppendProperties
    <3> QED BY <2>1, <3>1, <3>2
  <2>5. SetupsKnown' /\ Receiving'
    BY <2>1, KeepsSetups DEF Receiving
  <2> QED
    BY <2>1, <2>4, <2>5 DEF Rest
<1> QED
  BY <1>2, <1>3, <1>4, <1>5, <1>6, <1>7, <1>8, <1>9, <1>10 DEF ListenThread, Working

(* What a source thread is after a step. *)
LEMMA InstancesTyped ==
  ASSUME Rest, NEW k \in DOMAIN instances, NEW inst \in Instance,
         instances' = [instances EXCEPT ![k] = inst]
  PROVE  instances' \in Seq(Instance)
<1>1. instances \in Seq(Instance)
  BY DEF Rest
<1> QED
  BY <1>1

LEMMA NextLayerTyped ==
  ASSUME NEW inst \in Instance
  PROVE  NextLayer(inst) \in Instance
<1>1. Fragments \in Nat /\ 1 \in 1 .. Fragments
  BY ServerAssumption
<1>2. CASE inst.fragment < Fragments
  <2>1. inst.fragment + 1 \in 1 .. Fragments
    BY <1>1, <1>2 DEF Instance
  <2>2. [[inst EXCEPT !.pc = "check"] EXCEPT !.fragment = inst.fragment + 1] \in Instance
    BY <2>1 DEF Instance
  <2> QED
    BY <1>2, <2>2 DEF NextLayer, Instance
<1>3. CASE ~ (inst.fragment < Fragments)
  <2>1. inst.picture + 1 \in Nat
    BY DEF Instance
  <2>2. [[[inst EXCEPT !.pc = "check"] EXCEPT !.fragment = 1]
           EXCEPT !.picture = inst.picture + 1] \in Instance
    BY <1>1, <2>1 DEF Instance
  <2> QED
    BY <1>3, <2>2 DEF NextLayer, Instance
<1> QED BY <1>2, <1>3

LEMMA SourcesTyped ==
  ASSUME NEW k \in DOMAIN instances, TInv, Source(k)
  PROVE  TInv'
<1> SUFFICES ASSUME Rest, SetupsKnown, Receiving
             PROVE  Rest' /\ SetupsKnown' /\ Receiving'
  BY TInvGives, TInvNext
<1> USE DEF clientVars, pipeVars, listenVars
<1> DEFINE inst == instances[k]
<1>1. inst \in Instance /\ NextLayer(inst) \in Instance
  <2>1. instances \in Seq(Instance)
    BY DEF Rest
  <2>2. inst \in Instance
    BY <2>1
  <2> QED BY <2>2, NextLayerTyped
<1>2. /\ UNCHANGED << conn, asked, incoming, pc, listening, accepted, chunk, clientSocket,
                      pipeMap, todo, dead >>
      /\ clientConnected' \in BOOLEAN
  BY DEF Source, Check, InsertLayer, Build, Send, SendFailed, ClearSent, Rest
<1>3. buffer' \in Seq(KnownUnit)
  <2>1. CASE buffer' = buffer
    BY <2>1 DEF SetupsKnown
  <2>2. CASE InsertLayer(k)
    <3> DEFINE u == UnitOf(k, inst.picture, inst.fragment)
    <3>1. u \in KnownUnit
      <4>1. k \in Nat /\ k # 0
        BY DEF Rest
      <4>2. inst.picture \in Nat /\ inst.fragment \in Nat
        BY <1>1, ServerAssumption DEF Instance
      <4> QED BY <4>1, <4>2 DEF UnitOf, Unit, KnownUnit
    <3>2. Append(buffer, u) \in Seq(KnownUnit)
      <4> HIDE DEF u
      <4> QED BY <3>1, AppendProperties DEF SetupsKnown
    <3> QED
      BY <2>2, <3>2, WriteTyped DEF InsertLayer
  <2>3. CASE ClearSent(k)
    <3>1. << >> \in Seq(KnownUnit)
      BY EmptySeq
    <3> QED
      BY <2>3, <3>1, WriteTyped DEF ClearSent
  <2> QED
    BY <2>1, <2>2, <2>3 DEF Source, Check, Build, Send, SendFailed
<1>4. SetupsKnown' /\ Receiving'
  BY <1>2, <1>3 DEF SetupsKnown, Receiving, KnownUnit
<1>5. first' \in [Connections -> {"nothing", "greeting", "data"}]
  <2>1. CASE first' = first
    BY <2>1 DEF Rest
  <2>2. CASE CanSend(clientSocket) /\ NoteFirst(clientSocket, "data")
    BY <2>2, NotedTyped
  <2> QED
    BY <2>1, <2>2 DEF Source, Check, InsertLayer, Build, Send, SendFailed, ClearSent
<1>6. instances' \in Seq(Instance)
  <2>1. buffer \in Seq(Unit) /\ << >> \in Seq(Unit)
    BY KnownAreUnits, EmptySeq DEF SetupsKnown
  <2>2. /\ \A m \in Seq(Unit) : [[inst EXCEPT !.pc = "send"] EXCEPT !.message = m] \in Instance
        /\ \A c \in {"clear", "failed"} :
             [[inst EXCEPT !.pc = c] EXCEPT !.message = << >>] \in Instance
        /\ \A c \in {"insert", "build", "clear"} : [inst EXCEPT !.pc = c] \in Instance
    <3> HIDE DEF inst
    <3> QED BY <1>1, <2>1 DEF Instance
  <2>3. \E i \in Instance : instances' = [instances EXCEPT ![k] = i]
    <3>1. CASE Check(k)
      BY <1>1, <2>2, <3>1 DEF Check
    <3>2. CASE InsertLayer(k)
      BY <1>1, <2>2, <3>2 DEF InsertLayer
    <3>3. CASE Build(k)
      BY <2>1, <2>2, <3>3 DEF Build
    <3>4. CASE Send(k)
      BY <2>2, <3>4 DEF Send
    <3>5. CASE SendFailed(k)
      BY <2>2, <3>5 DEF SendFailed
    <3>6. CASE ClearSent(k)
      BY <1>1, <3>6 DEF ClearSent
    <3> QED
      BY <3>1, <3>2, <3>3, <3>4, <3>5, <3>6 DEF Source
  <2> QED
    BY <2>3, InstancesTyped
<1> QED
  BY <1>2, <1>4, <1>5, <1>6 DEF Rest

LEMMA NextTyped == TInv /\ [Next]_vars => TInv'
<1> SUFFICES ASSUME TInv, [Next]_vars PROVE TInv'
  OBVIOUS
<1>1. CASE UNCHANGED vars
  BY <1>1, KeepsSetups, TInvGives, TInvNext
  DEF vars, clientVars, listenVars, pipeVars, Rest, Receiving
<1> QED
  BY <1>1, ClientsTyped, ListenTyped, SourcesTyped DEF Next

(* Every variable of the server has its type, whatever order the threads   *)
(* run in; in particular the pipe that a buffer parses to is one a Setup   *)
(* can name (SnpSinkNetworkTcp::dispatch, handleSetupMessageCb).           *)
THEOREM ServerIsTyped == Spec => []TypeOK
<1>1. TInv => TypeOK
  BY DEF TInv
<1> QED
  BY <1>1, InitTyped, NextTyped, PTL DEF Spec

-----------------------------------------------------------------------------
(* The layers of a picture.                                                *)

(* A message is built when the last layer is in the buffer. *)
LayersAreIn(inst) ==
  inst.pc \in {"build", "send", "failed", "clear"} => inst.fragment = Fragments

AllLayersIn == \A k \in DOMAIN instances : LayersAreIn(instances[k])

LEMMA NextLayerIs ==
  ASSUME NEW inst \in Instance
  PROVE  /\ NextLayer(inst).pc = "check"
         /\ inst.fragment < Fragments =>
              NextLayer(inst).fragment = inst.fragment + 1 /\ NextLayer(inst).picture = inst.picture
         /\ inst.fragment = Fragments => NextLayer(inst).fragment = 1
<1>1. Fragments \in Nat
  BY ServerAssumption
<1> QED
  BY <1>1 DEF NextLayer, Instance

LEMMA InstanceTypes ==
  ASSUME TInv, NEW k \in DOMAIN instances
  PROVE  instances[k] \in Instance /\ instances[k].fragment \in 1 .. Fragments
<1>1. instances \in Seq(Instance)
  BY DEF TInv, TypeOK
<1>2. instances[k] \in Instance
  BY <1>1
<1> QED
  BY <1>2 DEF Instance

LEMMA SourceKeepsLayers ==
  ASSUME TInv, AllLayersIn, NEW k \in DOMAIN instances, Source(k)
  PROVE  AllLayersIn'
<1> DEFINE inst == instances[k]
<1>1. inst \in Instance /\ NextLayer(inst).pc = "check" /\ LayersAreIn(inst)
  BY InstanceTypes, NextLayerIs DEF AllLayersIn
<1>2. \E i : instances' = [instances EXCEPT ![k] = i] /\ LayersAreIn(i)
  <2>1. CASE Check(k)
    <3>1. LayersAreIn([inst EXCEPT !.pc = "insert"]) /\ LayersAreIn(NextLayer(inst))
      BY <1>1 DEF LayersAreIn, Instance
    <3> QED
      BY <2>1, <3>1 DEF Check
  <2>2. CASE InsertLayer(k)
    <3>1. inst.fragment = Fragments => LayersAreIn([inst EXCEPT !.pc = "build"])
      BY <1>1 DEF LayersAreIn, Instance
    <3> QED
      BY <1>1, <2>2, <3>1 DEF InsertLayer, LayersAreIn
  <2>3. CASE Build(k) \/ Send(k) \/ SendFailed(k)
    <3>1. PICK c \in {"send", "clear", "failed"} : \E m :
            instances' = [instances EXCEPT ![k] = [[inst EXCEPT !.pc = c] EXCEPT !.message = m]]
      <4>1. inst = [inst EXCEPT !.message = inst.message]
        BY <1>1 DEF Instance
      <4>2. CASE SendFailed(k)
        <5>1. [inst EXCEPT !.pc = "clear"]
                = [[inst EXCEPT !.pc = "clear"] EXCEPT !.message = inst.message]
          BY <1>1 DEF Instance
        <5> QED
          BY <4>2, <5>1 DEF SendFailed
      <4> QED
        BY <2>3, <4>2 DEF Build, Send
    <3>2. inst.fragment = Fragments
      BY <1>1, <2>3 DEF Build, Send, SendFailed, LayersAreIn
    <3>3. \A m : LayersAreIn([[inst EXCEPT !.pc = c] EXCEPT !.message = m])
      BY <1>1, <3>2 DEF LayersAreIn, Instance
    <3> QED
      BY <3>1, <3>3
  <2>4. CASE ClearSent(k)
    BY <1>1, <2>4 DEF ClearSent, LayersAreIn
  <2> QED
    BY <2>1, <2>2, <2>3, <2>4 DEF Source
<1> QED
  BY <1>2 DEF AllLayersIn

LInv == TInv /\ AllLayersIn

LEMMA LayersAlways == Spec => []LInv
<1>1. Init => LInv
  <2>1. Init => AllLayersIn
    BY DEF Init, AllLayersIn
  <2> QED
    BY <2>1, InitTyped DEF LInv
<1>2. LInv /\ [Next]_vars => LInv'
  <2> SUFFICES ASSUME LInv, [Next]_vars PROVE LInv'
    OBVIOUS
  <2> USE DEF LInv
  <2>1. CASE UNCHANGED instances
    BY <2>1, NextTyped DEF AllLayersIn
  <2>2. CASE StartPipe /\ ~ UNCHANGED instances
    <3>1. PICK i : instances' = Append(instances, i) /\ i.pc = "check"
      BY <2>2 DEF StartPipe
    <3>2. instances \in Seq(Instance)
      BY DEF TInv, TypeOK
    <3>3. ASSUME NEW k \in DOMAIN instances'
          PROVE  (k \in DOMAIN instances /\ instances'[k] = instances[k]) \/ instances'[k] = i
      <4> HIDE DEF LInv
      <4> QED BY <3>1, <3>2, <3>3
    <3>4. AllLayersIn'
      BY <3>1, <3>3 DEF AllLayersIn, LayersAreIn
    <3> QED
      BY <3>4, NextTyped
  <2>3. UNCHANGED instances \/ StartPipe \/ \E k \in DOMAIN instances : Source(k)
    BY DEF Next, vars, Clients, ClientConnects, ClientCloses, ClientResets, SendSetup,
       ListenThread, Working, Wait, Connected, Greet, Loop, RecvError, InsertChunk, Dispatch,
       AllStarted, ClearParsed, Accept, AcceptFails, Recv, RecvNothing
  <2> QED
    BY <2>1, <2>2, <2>3, NextTyped, SourceKeepsLayers
<1> QED
  BY <1>1, <1>2, PTL DEF Spec

Layers(picture, n) == [i \in 1 .. n |-> UnitOf(1, picture, i)]

LEMMA OneLayerMore ==
  ASSUME NEW picture \in Nat, NEW n \in Nat
  PROVE  Append(Layers(picture, n), UnitOf(1, picture, n + 1)) = Layers(picture, n + 1)
<1>1. ASSUME NEW m \in Nat
      PROVE  Layers(picture, m) \in Seq(Unit) /\ Len(Layers(picture, m)) = m
  <2>1. \A i \in 1 .. m : UnitOf(1, picture, i) \in Unit
    BY DEF UnitOf, Unit
  <2>2. Layers(picture, m) \in [1 .. m -> Unit]
    BY <2>1 DEF Layers
  <2>3. Layers(picture, m) \in Seq(Unit)
    BY <1>1, <2>2
  <2>4. DOMAIN Layers(picture, m) = 1 .. m
    BY <2>2
  <2> QED
    BY <1>1, <2>3, <2>4
<1>2. UnitOf(1, picture, n + 1) \in Unit
  BY DEF UnitOf, Unit
<1> DEFINE a == Append(Layers(picture, n), UnitOf(1, picture, n + 1))
           b == Layers(picture, n + 1)
<1>3. /\ a \in Seq(Unit) /\ Len(a) = n + 1 /\ a[n + 1] = UnitOf(1, picture, n + 1)
      /\ \A i \in 1 .. n : a[i] = Layers(picture, n)[i]
  BY <1>1, <1>2, AppendProperties
<1>4. b \in Seq(Unit) /\ Len(b) = n + 1
  BY <1>1
<1>5. ASSUME NEW i \in 1 .. n + 1 PROVE a[i] = b[i]
  <2>1. CASE i = n + 1
    BY <1>3, <2>1 DEF Layers
  <2>2. CASE i \in 1 .. n
    BY <1>3, <2>2 DEF Layers
  <2>3. i = n + 1 \/ i \in 1 .. n
    BY <1>5
  <2> HIDE DEF a, b
  <2> QED
    BY <2>1, <2>2, <2>3
<1> HIDE DEF a, b
<1>6. a = b
  BY <1>3, <1>4, <1>5, SeqEqual
<1> QED
  BY <1>6 DEF a, b

(* While nobody else works, a step of source thread 1 keeps the buffer     *)
(* equal to the layers of its picture.                                     *)
LEMMA SourceKeepsWhole ==
  ASSUME LInv, Source(1), Undisturbed, Undisturbed', CurrentPicture
  PROVE  CurrentPicture'
<1> DEFINE inst == instances[1]
<1>1. 1 \in DOMAIN instances /\ DOMAIN instances = {1}
  BY DEF Undisturbed, LInv, TInv, TypeOK
<1>2. /\ inst \in Instance /\ inst.fragment \in 1 .. Fragments /\ Fragments \in Nat
      /\ inst.picture \in Nat
  BY <1>1, InstanceTypes, ServerAssumption DEF LInv, Instance
<1>3. /\ ~ListenWrites
      /\ ~ \E j \in DOMAIN instances \ {1} : SourceWrites(j)
  BY <1>1 DEF ListenWrites, Undisturbed
<1>4. ASSUME NEW i, NEW n \in Nat, instances' = [instances EXCEPT ![1] = i],
             n = IF i.pc \in {"check", "insert"} THEN i.fragment - 1 ELSE Fragments,
             buffer' = Layers(i.picture, n), i.pc = "send" => i.message = Layers(i.picture, n)
      PROVE  CurrentPicture'
  <2>1. instances'[1] = i
    BY <1>1, <1>4
  <2> QED
    BY <1>4, <2>1 DEF CurrentPicture, Layers
<1>5. /\ inst.pc \in {"check", "insert"} => buffer = Layers(inst.picture, inst.fragment - 1)
      /\ inst.pc \notin {"check", "insert"} => buffer = Layers(inst.picture, Fragments)
  BY DEF CurrentPicture, Layers
<1>6. inst.fragment - 1 \in Nat
  BY <1>2
<1>7. CASE Check(1)
  <2> DEFINE i == [inst EXCEPT !.pc = "insert"]
  <2>1. instances' = [instances EXCEPT ![1] = i] /\ buffer' = buffer /\ inst.pc = "check"
    BY <1>7 DEF Check, Undisturbed
  <2>2. i.pc = "insert" /\ i.fragment = inst.fragment /\ i.picture = inst.picture
    BY <1>2 DEF Instance
  <2> HIDE DEF i
  <2> QED
    BY <1>4, <1>5, <1>6, <2>1, <2>2
<1>8. CASE InsertLayer(1)
  <2>1. /\ inst.pc = "insert"
        /\ buffer' = Append(buffer, UnitOf(1, inst.picture, inst.fragment))
    BY <1>3, <1>8 DEF InsertLayer, Write
  <2>2. buffer' = Layers(inst.picture, inst.fragment)
    <3>1. (inst.fragment - 1) + 1 = inst.fragment
      BY <1>2
    <3> QED
      BY <1>2, <1>5, <1>6, <2>1, <3>1, OneLayerMore
  <2>3. CASE inst.fragment = Fragments
    <3> DEFINE i == [inst EXCEPT !.pc = "build"]
    <3>1. instances' = [instances EXCEPT ![1] = i]
      BY <1>8, <2>3 DEF InsertLayer
    <3>2. i.pc = "build" /\ i.picture = inst.picture
      BY <1>2 DEF Instance
    <3> HIDE DEF i
    <3> QED
      BY <1>2, <1>4, <2>2, <2>3, <3>1, <3>2
  <2>4. CASE inst.fragment # Fragments
    <3> DEFINE i == NextLayer(inst)
    <3>1. instances' = [instances EXCEPT ![1] = i]
      BY <1>8, <2>4 DEF InsertLayer
    <3>2. inst.fragment < Fragments
      BY <1>2, <2>4
    <3>3. i.pc = "check" /\ i.fragment - 1 = inst.fragment /\ i.picture = inst.picture
          /\ inst.fragment \in Nat
      BY <1>2, <3>2, NextLayerIs
    <3> HIDE DEF i
    <3> QED
      BY <1>4, <2>2, <3>1, <3>3
  <2> QED
    BY <2>3, <2>4
<1>9. CASE Build(1)
  <2> DEFINE i == [[inst EXCEPT !.pc = "send"] EXCEPT !.message = buffer]
  <2>1. instances' = [instances EXCEPT ![1] = i] /\ buffer' = buffer /\ inst.pc = "build"
    BY <1>9 DEF Build
  <2>2. i.pc = "send" /\ i.picture = inst.picture /\ i.message = buffer
    BY <1>2 DEF Instance
  <2> HIDE DEF i
  <2> QED
    BY <1>2, <1>4, <1>5, <2>1, <2>2
<1>10. CASE Send(1)
  <2>1. PICK c \in {"clear", "failed"} :
          instances' = [instances EXCEPT ![1] = [[inst EXCEPT !.pc = c] EXCEPT !.message = << >>]]
    BY <1>10 DEF Send
  <2> DEFINE i == [[inst EXCEPT !.pc = c] EXCEPT !.message = << >>]
  <2>2. instances' = [instances EXCEPT ![1] = i] /\ buffer' = buffer /\ inst.pc = "send"
    BY <1>10, <2>1 DEF Send
  <2>3. i.pc = c /\ i.picture = inst.picture
    BY <1>2 DEF Instance
  <2> HIDE DEF i
  <2> QED
    BY <1>2, <1>4, <1>5, <2>2, <2>3
<1>11. CASE SendFailed(1)
  BY <1>11 DEF SendFailed, Undisturbed
<1>12. CASE ClearSent(1)
  <2>1. inst.pc = "clear" /\ buffer' = << >> /\ instances' = [instances EXCEPT ![1] = NextLayer(inst)]
    BY <1>3, <1>12 DEF ClearSent, Write
  <2>2. inst.fragment = Fragments
    BY <1>1, <2>1 DEF LInv, AllLayersIn, LayersAreIn
  <2>3. NextLayer(inst).pc = "check" /\ NextLayer(inst).fragment - 1 = 0
    BY <1>2, <2>2, NextLayerIs
  <2>4. Layers(NextLayer(inst).picture, 0) = << >>
    BY DEF Layers
  <2> QED
    BY <1>4, <2>1, <2>3, <2>4
<1> QED
  BY <1>7, <1>8, <1>9, <1>10, <1>11, <1>12 DEF Source

(* While the listen thread is in recv() and one source runs, a picture     *)
(* leaves with all its layers and nothing else, whatever the number of     *)
(* layers and the moment its client leaves (onInputData, sendDataMessage). *)
THEOREM PicturesStayWhole == Spec => PictureStaysWhole
<1>1. ASSUME LInv, [Next]_vars
      PROVE  [Undisturbed /\ Undisturbed' /\ CurrentPicture => CurrentPicture']_vars
  <2> SUFFICES ASSUME Undisturbed, Undisturbed', CurrentPicture PROVE CurrentPicture'
    OBVIOUS
  <2>1. CASE UNCHANGED << buffer, instances >>
    BY <1>1, <2>1 DEF CurrentPicture
  <2>2. \A k \in DOMAIN instances : k = 1
    BY <1>1 DEF Undisturbed, LInv, TInv, TypeOK
  <2>3. UNCHANGED << buffer, instances >> \/ \E k \in DOMAIN instances : Source(k)
    BY <1>1 DEF Undisturbed, Next, vars, Clients, ClientConnects, ClientCloses, ClientResets,
       SendSetup, ListenThread, Working, Wait, Connected, Greet, Loop, RecvError, InsertChunk,
       Dispatch, StartPipe, AllStarted, ClearParsed, Accept, AcceptFails, Recv, RecvNothing
  <2> QED
    BY <1>1, <2>1, <2>2, <2>3, SourceKeepsWhole
<1> QED
  BY <1>1, LayersAlways, PTL DEF Spec, PictureStaysWhole

=============================================================================
