# snp in TLA+

A verification project for the snp screen-sharing server and client. Paths are
relative to the repository; `Sink` is `src/stream/network/SnpSinkNetworkTcp.cpp`
and `Source` is `src/stream/network/SnpSourceNetworkTcp.cpp`.

## 1. The system

`snpserver` captures a screen (or draws moving boxes), encodes every picture
and streams it to one TCP client at a time. `snpclient` connects, is told what
the server can do (`Capabilities`), asks for a pipe (`Setup`), and decodes and
shows what comes back (`Data`). Both are built from *components* with input and
output *ports*, chained into *pipes* that have an id; a network component is
shared by several pipes, and the pipe id of a message picks the pipe.

| component | state it keeps | operations | talks to |
|---|---|---|---|
| `SnpPort` | target and source ports by pipe id, callback | `connect`, `canConnect`, `onData`, `setOnDataCb` | calls the next component's callback on the caller's thread |
| `SnpComponent` | `running`, ports, properties, pipe id | `start`, `stop`, `getProperty` | base class of all components |
| `SnpPipe` | list of components, `running` | `addComponentBegin/End`, `start`, `stop` | ports and components |
| `SnpPipeFactory` | none | `createPipes`, `createPipe` | makes components from protobuf descriptions |
| `SnpSinkNetworkTcp` (server) | listen socket, `clientSocket`, `clientConnected`, `buffer` | listen thread; `onInputData` on every source thread | the network; `handleSetupMessageCb` |
| `SnpSourceNetworkTcp` (client) | `clientSocket`, `connected`, `buffer` | connect/receive thread, `sendSetupMessage` | the network; ports; `handleCapabilitiesMessageCb` |
| `snpserver.cpp` | `pipeMap` | `handleSetupMessageCb` (on the listen thread), `main2`, `main` | sink, factory |
| `snpclient.cpp` | local pipes, config, canvas | `runClient` (main thread), `handleCapabilitiesMessageCb` (receiving thread) | source, factory, display |
| `proto/snp.proto` and `network/snp.pb.*` | the message being read or written | serialise, measure, parse, merge | both network components, input sinks |
| `SnpSourceDummy`, `SnpSourceDda`, `SnpSourceX11`, `SnpSourceGL`, `SnpSourceX11Cursor` | capture thread, device handles | `start`, `stop`, capture loop | encoder or sink, through a port |
| `Snp{En,De}coder{OpenH264,AmfH264}`, `SnpEncoderMmalH264`, `SnpEncoderVaH264` (+ `VaBitstream`, `VaUtils`) | codec handles, buffers, frame counters | `start`, `stop`, `onInputData` | neighbouring components; MMAL calls back on its own threads |
| `SnpSinkDisplay` + `SnpCanvas`, `SnpSinkFile` | last picture; collected layers | `onInputData` | screen, file |
| `SnpSinkX11Mouse`, `SnpSinkX11Keyboard` | previous button mask, uinput device | `onInputData` | kernel |
| `SnpWebsocket`, `SnpClientWebsocket` and their sink | client objects with pipes, one output queue | callbacks of libwebsockets, all on one thread | deactivated in the program ("TODO: websocket") |
| `SnpConfig`, `SnpProperty`, `PropertyUtil` | settings of `snp.ini`, properties of a component | `readPipesSection`, `getProperty...` | the Setup, the factory |
| `VideoUtil` | none | colour conversions | the codecs |
| `SnpComponentRegistry`, `TimeUtil`, loguru | lists, clock, log | sequential | |

What is hard in it:

* **No framing.** A message is the bare result of `SerializeAsString()`. The
  receivers append what `recv()` returned to `buffer` and parse all of it as one
  message, so what is received depends on where TCP cut the stream.
* **No locking.** In the server the listen thread and the thread of every pipe
  share `buffer`, `clientConnected` and `clientSocket`. In the client the main
  thread wires pipes while the receiving thread already pushes data.
* **Connection changes.** Clients disconnect in an orderly way or by a reset,
  and reconnect while the pipes they started go on running; nothing ever stops a
  pipe.
* **Lifecycle.** Components check `isRunning()` and then use handles that
  `stop()` frees on another thread; nobody joins a capture thread, and nobody
  looks at the result of `start()`.
* **Failure in the middle.** A codec call fails between the output of a picture
  and the bookkeeping for it; a connection goes while messages for it wait.
* **Numbers.** Frame counters, reference lists, surface rings, unsigned
  coordinates.

What makes each part correct: the receiver stays in step with the stream,
pictures keep their order and their pipe, a greeting is answered once, a client
is served at a time and the listen thread always comes back, a message holds one
picture, pipes start when asked. `PROJECT.json` lists every hazard at its line.

## 2. Plan

| step | module | about | state |
|---|---|---|---|
| 1 | `SnpProtobuf`, `LossyChannel`, `SnpClient` + `MC`, `Proofs` | what a cut or merged stream parses to; the abstract link; the client program, both threads | done |
| 1 | `SnpServer` + `MC`, `Proofs` | server program, listen thread, source threads | done |
| 1 | `SnpMmalEncoder` + `Proofs` | semaphore, pools, queue and callbacks of the MMAL encoder | done; `stop()` is left out |
| 2 | `SnpPipeline` + `MC`, `Proofs` | factory, `canConnect`, start and stop of a pipe against its capture thread, for the dummy and DDA sources, OpenH264, AMF, file, display and TCP | done |
| 3 | `SnpVaEncoder` + `MC`, `Proofs` | frame types, `frame_num`, references, surface ring, failed calls, restart | done |
| 3 | `SnpAlgorithms` + `MC`, `Proofs` over `SnpVaBitstream`, `SnpVideoUtil`, `SnpDummyBoxes`, `SnpX11Input` | sequential parts against what they are for | done |
| 4 | `SnpMessages`, `SnpWire`, `SnpConfig`, `SnpWireLink` + `MC`, `Proofs` | the bytes on the wire and the settings in them; ties `SnpProtobuf` to the generated code | done |
| 4 | `SnpWebsocket` + `MC`, `Proofs` | queue and client objects of the websocket server | done |
| 5 | `SnpSession` | client and server composed over several connections, with partial `send()` | open |

The session is open because the server's half that matters to the client, when
what is sent, is already free in `SnpClient` (any pictures of any pipe in any
order around the greeting), and the client's half in `SnpServer` (any Setup,
any cut): a composition would only narrow both.

What is built at this commit: TCP, OpenH264, AMF, DDA, the dummy source, file
and display sinks and the framework. `CMakeLists.txt` switches VA-API off
(`if(FALSE)`), takes MMAL only on a Raspberry Pi, and those two, X11, GL, the
cursor source, the mouse and keyboard sinks and the websocket still use an
earlier interface (`sourcePort`, `onData(pipe, ptr, len, bool)`, the messages
`StreamChange` and `StreamInfo`). What is modelled of them is modelled as
written. Neither program calls `stop()`; only the websocket code does.

## 3. The modules

### SnpProtobuf

A message is at most three units: `type`, `head` and `body`. Only three kinds of
cut can be told apart by the parser - after a whole field, and inside one - so
this loses nothing: a buffer that ends after a `head` does not parse, one that
ends after a `type` or `body` does. Three facts of proto3 matter and are
modelled: `MESSAGE_TYPE_SETUP` is 0 and never written (a Setup has no `type`
unit, and the empty buffer parses as a Setup); `pipe_id` 0 is never written; and
several messages in one buffer merge, the last `type`, the last payload and the
last `pipe_id` that was written winning. Names, component lists and picture
contents are left out. That these units parse as the bytes do is checked by
`SnpWireLink`.

### SnpMessages, SnpWire, SnpConfig, SnpWireLink

`snp.pb.cc` is the same code fourteen times, once for every message type, with
another table of fields. `SnpMessages` has the tables (`...Fields`) and the
accessors (`Get`, `Set`, `With`: a default is not kept, a case of a oneof is).
`SnpWire` has the rest of the code once. `WriteFields` is `_InternalSerialize` and
`ByteSizeLong` of a type: it returns the bytes that are written and, computed on its
own, the size that was found for them before and becomes the length in front of a
sub-message. `ParseFields` is `_InternalParse`, with unknown fields, wrong wire types
and truncation; it keeps what it read with `Store` (a case of a oneof clears the
others). `MergeFields` is `MergeImpl`. Each takes the operator for the types of its
fields as a parameter: `Serialize`, `ParseFromArray` and `Merge`, those of a
`Message`, are `...Fields` of `...Body`, which is `...Fields` of `...Component`, and so
on down to the values of properties, as deep as `snp.proto` nests. A byte is a number,
a message a function from field names to values. `IsSent` says which messages the
accessors can make and the program sends: fields of the table with values of their
kind, no list that is empty, no value that is left out for it is the default, one case
of the oneof at most, a body, and no more bytes than an `int` can count.

`SnpConfig` is what the client makes of `[remote]` in `snp.ini`
(`readPipesSection`: counting stops at the first gap), the Setup with it, and
how the factory looks a property up (`PropertyUtil::getPropertyUint()`, `...Bool()`,
`...Double()` and `...String()`: first entry of that name and type). `SnpWireLink` sends such a Setup and other messages
through a connection that is read in pieces of any size, and keeps the last call
of `dispatch()`: which bytes, which result.

### SnpClient

| variables | code |
|---|---|
| `running`, `connected`, `buffer`, `setups`, `delivered` | `SnpSourceNetworkTcp`: thread exists, members, `send()` of Setups, calls of `onData` |
| `wired`, `started`, `painter` | progress of `runClient()`: `addComponentBegin`, `start`, `setOnDataCb` |
| `dead` | the uncaught exception that ended the process |
| `streaming`, `greeted`, `sent`, `peer`, `inFlight` | server and connection |

`Recv(n)` is one iteration of the receive loop: `recv`, `insert`, `dispatch`, the
handler it calls and `clear`. It is one action because `buffer` belongs to that
thread alone; the main thread's steps interleave between iterations, and what a
handler reads of them (`wired`, `started`, `painter`) is read at one point.
`connect()` succeeds once only, because the one socket is never recreated; failed
attempts change nothing. After an orderly close `recv()` returns 0 for ever
(`RecvNothing`), as the code does not test for it. The environment sends
Capabilities and pictures of any pipe in any order: a source of an earlier client
that still runs may well send before the greeting.

### SnpServer

The server modelled is `main2()` with the TCP sink. `main()` in the repository
currently runs a local capture-encode-file experiment without a network; it
shares no state with the sink and is not modelled. The socket code uses Windows'
`SOCKET`, so a send on a dead connection returns an error (there is no SIGPIPE).

Every access to shared state is an action of its own: the listen thread goes
through `Wait`, `Accept`, `Connected`, `Greet`, `Loop`, `Recv`, `InsertChunk`,
`Dispatch`, `StartPipe` (one pipe), `ClearParsed`; a source thread through
`Check`, `InsertLayer`, `Build`, `Send`, `SendFailed`, `ClearSent` for every layer.
`buffer` holds halves of Setups and layers of pictures side by side, as in the
code. An overlapping write of it may be lost; other effects of a data race on a
`std::vector` are not modelled. A picture has `Fragments` layers, the last one
`complete`. Each pipe started is an element of `instances`, for nothing removes
one. `pipeMap` maps a pipe id to the number of sources in its component list:
`insert` keeps the first entry, an empty Setup registers an empty list, and two
START Setups merged in one buffer make a list with two sources, whose second
`getInputPort(0)` throws and ends the process (`dead`).

Things the model shows that no property denies, as no document promises
otherwise: an orderly disconnect before any Setup registers pipe 0 as empty, so
that pipe 0 can never be started afterwards; a Setup that arrives while layers
are in `buffer` never parses and is lost; an error of a `send()` on the previous
connection drops the next client; a later client may get a picture before
Capabilities; after a failed `accept()` the listen socket is gone for good.

### LossyChannel

The abstract link: `sent` pictures and what was `received`. Each step sends a
picture, delivers an empty one, or delivers a picture newer than all delivered
before, to its own pipe if that is not 0. `SnpClient` refines it with
`received <- delivered`; so does `SnpPipeline`, from the captured pictures to
those that reach the sink.

### SnpMmalEncoder

`mmalEncoderEncode()` runs on the capture thread; `pc` is where it is, and each
access to the semaphore, a pool or the queue is an action: `SemaphoreWait`,
`SendInput`, `DrainOne`/`DrainEnd`, `SendOutput`/`EncodeEnd`, `SendFails`. The
callbacks are two actions each (`InputRelease`, `InputPost`; `OutputPut`,
`OutputPost`), so that the capture thread may run in between. Headers are
counted, not named; filled ones carry the number of their piece. The hardware is
external: it reads a picture when it has an input header, makes one or more
pieces of it as long as it has output headers, and gives the input header back at
any time after it has read it. A failed send, or a failed start (whose result
`start()` ignores), leaves `alive` FALSE with the component still running; the
next picture then uses a deleted semaphore, which the model stops at. That all
input headers refer to one DMA buffer, so that the hardware may read a picture
that is being overwritten, is left out. The semaphore counts callbacks, not
headers: a wait may end with nothing to take, and the count then only grows.

### SnpPipeline

One pipe, from the list of types in a Setup to its stop. `op` and `at` are the
owner's place in `SnpPipe::start()` or `stop()`; every component takes two or
three steps there (`MarkRunning`, `InitPart` or `InitFails`, `SpawnCapture`;
`MarkStopped`, `FreePart`), for `SnpComponent::start()` sets `running` before the
rest of a `start()` does its work, and `stop()` clears it before it frees.
`threads` holds every capture thread ever started: its place in the loop, the
component that has the picture, and the picture. `handle` is what a component
allocates in `start()` and frees in `stop()`: "null", "made" or "freed" (AMF and
the file clear their pointers, OpenH264 and DDA do not). `links` is what
`addComponentEnd()` connected. `fault` names what ended the process: the null
component of the factory, a missing port, a picture for an unconnected port, the
unset callback of a display, a null or freed handle, assigning to a `std::thread`
that was never joined. Using what was freed may also go unnoticed; both outcomes
are there. OpenH264 asks `isRunning()`, AMF does not; AMF holds pictures
(`held`) and drops one when its queue is full, when it gets no surface, when
`SubmitInput()` fails or when the decoder cannot convert; textures of DDA are
ignored by everything but the AMF encoder. For the TCP sink `InitPart` is the rest
of its `start()` (a second one assigns over the joinable listen thread) and
`FreePart` closes its listen socket. Its `send()` is blocking and has no timeout:
`InSend(k)` says that the capture thread is in it, and `Consume` that it returns,
which nothing obliges it to.

### SnpVaEncoder

One picture is `OnInputData`, `Upload`, `Render`, `EndPicture`, `Unmap`,
`UpdateReferenceFrames`, with `Fails` wherever a VA call is checked: the function
returns and what it has not done is not done. The owner's `Start`,
`InitVaH264Encoder` and `Stop` come between any two of these steps, for nothing
keeps `stop()` from freeing what a call is using (`Crashes`: the display was
terminated).

A reference is what the code keeps, a `VASurfaceID` (`Pic`, `srcSurface`,
`currentCurrPic`, `referenceFrames`), and `content` says which picture is in each
surface that exists. `InitVaH264Encoder` makes new blank surfaces with ids of the
driver's choice, those of destroyed surfaces included, and `Stop` destroys them; the
counters and `referenceFrames` stay, with ids from before. So a reference may name a
surface that does not exist, a blank one, or the one being coded: the first P picture
after a restart is sent with such a reference, against the comment `exactly one
reference frame` of `renderSlice()` (line 609), and the two properties about
references speak of those of the same session. `picture` is what
the driver was given (number, references, the one a slice predicts from). `sent` is
what left the output port, each with what the surface it was predicted from held
when the driver coded it (`ref`), not what the encoder believed. The fields `input`
and `session` of a `Pic` are for the properties; no action reads them. The sequence
header announces `Announced` numbers (16) where the encoder counts to `MaxFrameNum`
(32). `releaseVaH264Encoder()` has no `return` statement, which is undefined
behaviour when it gets to its end; the model takes it to return, as a build without
optimisation does.

### SnpAlgorithms and the modules it uses

`job` is one piece of work with its input, `done` how far it is, `out` the
result; each job is a sequence of actions that call the operators of

* `SnpVaBitstream`: `PutUi`, `PutUe`, `PutSe`, `ByteAlign`, `End` on 32-bit words
  (a sequence of bits each) that are swapped when full and grown when none is
  left, and the sequence, picture and slice headers as lists of elements;
* `SnpVideoUtil`: the conversions with their running indices and integer
  arithmetic;
* `SnpDummyBoxes`: one axis of a box, with `int` and `uint32_t` as they are mixed
  in the code (`IntValues` stands for 2^32);
* `SnpX11Input`: the button mask of the mouse, the keys of the keyboard, the
  event loop of the cursor.

`VaBitstream` is compiled with the VA encoder, which has packed headers switched
off, so that its callers are taken from its own three `build_...` functions.

### SnpWebsocket

All callbacks run on the thread in `lws_service()`, one at a time; each is an
action. `clients` and `pipes` are the two maps, `outputQueue` keeps for every
message the handle it was queued for, `requested` the connections with a
writeable callback to come (libwebsockets remembers one per connection). A closed
connection leaves its object and its running pipes; a handle may be used again
and finds them (`insert()` keeps the old entry). That the pointer to a running pipe
is never lost is `RunningIsKnown`. That somebody can stop it does not follow: the
pipes of a closed connection run on, out of the reach of any message, until its
handle is used again. The code knows (`TODO: remove client pointer and clean up`). An unknown stream id dereferences
`end()`: the model stops there. The sink that would send from other threads has
its call commented out.

## 4. The runs

| run | bounds | shows |
|---|---|---|
| `client_stream` | 2 pipe ids (0 and 1), 2 local pipes, 3 pictures | `KeepsItsPlace`, `InOrder`, `NonzeroPipeKept`, `AtMostOneSetup`, `SafeAfterStartup`, `ImplementsChannel`, `GreetingAnswered` hold |
| `client_wrong_pipe` | 2 pipe ids, 2 pictures | violation: a merged picture of pipe 0 goes to pipe 1 |
| `client_paint` | 1 pipe, 1 picture | violation: a picture before the callback is set ends the client |
| `wire_link` | 2 settings, 6 sequences of other messages, before or after the Setup, every `recv()` up to 18 bytes | `UnitsParseAlike`, `ReceivedAsSent`, `TogetherIsMerged`, `SettingsReachFactory` hold |
| `server_serve` | 2 connections, 2 Setups for 2 pipe ids, 1 picture of 2 layers, 1 source followed | `TypeOK`, `NoLostWakeup`, `FirstClientIsGreeted`, `OneClientAtATime`, `PictureStaysWhole`, `AcceptsAfterReset`, `FirstSetupIsServed` hold |
| `server_nalus` | 1 connection, 1 Setup, 2 sources, 2 pictures | violation: foreign bytes in a Data message |
| `server_disconnect` | 1 connection, 1 Setup, 2 sources | violation: an orderly close starts pipes |
| `pipeline` | 10 lists of up to 4 components, 3 pictures, 2 starts, 2 stops, 2 pictures held | `ReadyBeforeData`, `SafeUntilStopped`, `OnlyTheCallInFlight`, `OneCaptureThread`, `StopEndsCapture`, `ImplementsChannel` hold |
| `mmal_encode` | 2 input and 2 output headers, up to 2 pieces a picture, 5 pictures | `TypeOK`, `NeverStarves`, `QueuedIsAnnounced`, `PiecesInOrder`, `EncodeReturns` hold |
| `va_encode` | 3 surfaces, 4 surface ids (symmetric), 3 references, IDR every 4 and I every 3 pictures, numbers modulo 4 of which 2 are announced, 7 pictures, 2 starts | `PredictsFromPrevious`, `ReferencesAreIntact`, `ListsSinceIdr`, `NumbersFollow` hold |
| `algorithms` | sequence, picture and slice headers of every shape; pictures of up to 4 by 4 pixels; 6 frames and 9 speeds for a box; 16 masks, 2 codes of one key and 1 of another, 3 cursors | `HeaderReadsBack`, `PictureComesBack`, `BoxStaysInFrame`, `NothingSticks`, `CursorIsCurrent` hold |
| `websocket` | 2 handles for 4 connections, 2 streams, 3 pipes | `NothingIsStuck`, `RunningIsKnown` hold |

Why the bounds suffice. Merging needs two messages in one buffer, and a third
picture gives each of them a neighbour on either side of a cut; two pipe ids are
a default and a written one; pipe 1 of two is the one without a paint callback.
The messages of `wire_link` have every kind of field, a field that is empty, one
that is its default, a number of two bytes and a length of two; cuts of up to
18 bytes are cuts inside and across every one of them. On the server two
connections let a stale send meet a new client, two Setups meet in one buffer or
follow each other, and two layers let a change fall inside a picture;
`MaxInstances` bounds the pipes whose source thread is followed (a pipe started
beyond it stutters), and the two violation runs have two of them. A pipe has a
component before and one behind each codec, two starts and two stops let a
restart meet the thread of the first run, and three pictures overtake a queue of
two. With two headers a port of MMAL has one at the hardware and one in hand, and
by the third picture the first count of the semaphore no longer matters. Seven
pictures of the VA encoder wrap the numbers once, the announced range three times,
and go round the ring of surfaces twice, past an IDR picture; the fourth id lets a
restart give new ids, old ones, or both, in any order. A third pipe of the websocket replaces one of two streams. The
proofs remove the bounds where they apply.

A type invariant that is proved for all constants (`SnpClient`, `SnpPipeline`,
`SnpVaEncoder`, `SnpWebsocket`) is not repeated in a run. Those of `SnpServer`
and `SnpMmalEncoder` are: the first says that nothing but a pipe a Setup can name
is ever registered, the second that no header is lost.

The four violations are divergences from what the repository's documents and
comments say; `PROJECT.json` quotes the line for each under `findings`.
`client_wrong_pipe` needs a server with two pipes; this repository's client asks
for the first remote pipe only, another client can ask for more.
`StartedOnRequest` is violated both by an orderly close and by a STOP, whose
command nobody reads.

Deadlock checking is off: an uncaught exception or a crash ends the process, and
once the bounds are used up there is nothing left to do.

**Fairness.** In the client both threads are scheduled (`WF` of `MainThread` and
`SourceThread`), and the server's `SendCapabilities` is weakly fair because it
follows `accept()` without waiting. In the server the steps of the listen thread
that wait for nothing (`Working`) and `Recv` on available data are weakly fair.
In the pipe every step of the capture thread is but the one in which it is in
`send()`: no other waits, but for a frame, and that for a second at most
(`Scheduled`). `send()` may stay for ever when the client does not read, and
`StopEndsCapture` then promises nothing; it says that with a file, or as long as
`send()` returns, the thread ends. In the MMAL encoder the capture thread's steps, the
hardware's and the callbacks' are weakly fair; pictures are not.
Clients, `Accept`, `AcceptFails`, `RecvNothing`, the owner of a pipe and the
source threads of the server are not: nothing obliges a client to come or a
capture to go on. `GreetingAnswered` asks
for a server without running pipes: with one, a Data message merged behind the
greeting hides it and the client really never answers.

**Mutants.** Every property of a passing run has an operator in the modules,
marked `Mutant`, that changes one definition the way a bug would (a buffer not
cleared, an error path that forgets to clear `clientConnected`, the first pipe id
winning, a walk from the wrong end) and is found by that property.

## 5. The proofs

`SnpClientProofs` proves for every set of pipe ids, every number of local pipes
and any number of pictures, from `PipesAssumption` and `ClientAssumption` alone:
`TypeCorrect`, `ReceiverKeepsItsPlace`, `PicturesInOrder`, `NonzeroPipesKept`,
`OneSetupPerConnection`, `LinkImplementsChannel` and `StartedClientIsSafe`.

The properties are not inductive: what `buffer` holds next depends on what is in
flight. The inductive invariant `Inv` therefore speaks of
`Stream == buffer \o inFlight`, which `recv()` leaves unchanged however it cuts:

* `Framed`: the units follow one another as messages do, the stream starts at a
  field and, while the connection is open, ends with one; `buffer` ends inside one;
* `Pictures`: what follows a picture's body is newer, all of the stream is newer
  than everything delivered, and every unit knows its picture's pipe;
* `Greeting`: at most one greeting is in the stream, and none once it was answered.

A Recv step either moves the border between the two parts (does not parse) or
drops a prefix of the stream that ends with a field (parses); lemmas about
prefixes, suffixes and concatenation carry the three conjuncts over, and the
lemmas about `ParsedFrame` and `ParsedPipe` relate the one delivery to the last body
of that prefix. The refinement step reads the
new delivery off `InOrder` and `NonzeroPipeKept`. `StartedClientIsSafe` rests on
`StartedInTurn`: each pipe is wired before it is started, and the painter is set
when all of them are. So later a picture can end the client only by a pipe id that
is not below the number of pipes wired, and since there is one at least, not by 0.

`SnpServerProofs` proves from `ServerAssumption`, for any number of clients, Setups,
pictures, layers and sources: `ServerIsTyped`, `NeverSleeps`,
`ClientsAreServedInTurn`, `FirstClientGreeted` and `PicturesStayWhole`. Types need
`SetupsKnown`: the bytes of Setups that are on their way, in the local buffer or in
`buffer` belong to Setups that were sent, so that what parses names a pipe. The
invariant of the others says that between two clients `clientConnected` is FALSE
(only the listen thread sets it, after `accept()`; source threads only clear it),
that nothing runs before the first `accept()`, and that once the receive loop was
entered or a source exists the first client has been greeted or its socket replaced.
`PicturesStayWhole` needs `AllLayersIn`: a source that builds, sends or clears has
all layers of its picture behind it, whoever else wrote the buffer. With one source
alone, while the listen thread sits in `recv()` and nobody else touches the buffer,
inserting adds the next layer, building takes them all, and clearing makes room for
the first layer of the next picture.

`SnpMmalEncoderProofs` proves from `ConstantsAssumption`, for any number of
headers, pieces and pictures: `HeadersAreKept`, `PiecesAreAnnounced`,
`WaitingThreadIsWoken` and `StreamIsInOrder`. `NeverStarves` needs three facts
that the drain and the two send loops establish: a picture that was handed over
leaves an input header out or a post behind (`Fed`); between two calls no output
header is in its pool, unless the first count of the semaphore is still there
(`Room`); and a queued piece is announced. With the semaphore at zero and no post
pending all output headers are then at the hardware, together with an input header.

`SnpPipelineProofs` proves from `PipelineAssumption`, for any set of lists and any
number of pictures, starts and stops: `PipeIsTyped`, `DataFindsReady`,
`WorksUntilStopped`, `OnePictureIsLate`, `ThreadIsAlone` and
`PipeImplementsChannel`. The invariant ties the
owner's place to the components: before the first stop, everything behind `at` has
been started and what is in front has not, so that a thread exists only when all
is ready; there is a thread that has not ended only while the `std::thread` member
holds it, and since nobody joins it there is never a second one; and a well-formed
list has a link behind every component but the last, so that a picture always
finds a port. `late` grows only in the step that captures after a check.

`PipeImplementsChannel` is the refinement of `LossyChannel`, the same abstract
specification the client's link implements, for a pipe whose components hold
pictures back (AMF encoder and decoder), drop them or stop. Its invariant `Order`
adds where every picture is: `HeldInOrder`, the further down the pipe the older,
and older than all of it what was delivered; `CarriedInOrder`, the picture the
thread carries belongs between what is behind it and what is in front of it
(`Between`). Since there is one thread at most, it enters the next component with
a picture that fits there (`Fits`), and what the sink is given is newer than all
it was given before. A step is a capture, a delivery or, seen from outside, none.

`SnpVaEncoderProofs` proves from `EncoderAssumption`, for any sizes of ring and list,
any ids the driver may give and any periods: `EncoderIsTyped`, `NumbersHaveNoGap`,
`PredictionIsInOrder`, `ReferenceIsKept` and `ListsAreSinceIdr`. `IInv` adds where the
last picture sent stands: either the bookkeeping for it was done, and then it is the
first reference and `currentFrameNum` is the number after it, or it is the current
one, at a step after the output or after `vaUnmapBuffer()` failed. What a surface
holds needs `InTurn`: a call of the present session works at the surface in turn
(`AtTurn`), the i-th newest reference of the session is in the surface i places behind
that one (`Behind`), and the surfaces of a session are distinct (`Distinct`). Since the ids come from one
`vaCreateSurfaces()`, two turns less than `SurfaceNum` apart have different ids
(`TurnsDiffer`), so that an upload writes none of the references but the last of a
full ring. A reference from before a restart says nothing about any surface, and the
two properties leave it out. For `ListsAreSinceIdr` the invariant is `Ordered`: the
short-term references are in the order of their inputs, newest first; none is newer
than the picture being coded; while an IDR picture is coded there are none; and none
is older than any IDR picture that was sent, whatever calls fail.

`SnpAlgorithmsProofs` proves from `JobsAssumption`, for the headers from
`HeadersAssumption`, `ElementsAssumption` and `SteppingAssumption` and for the
pictures from `PicturesAssumption`: `BoxesStay` (a box's position stays within a step
of the turning points, its direction agrees with the border it last passed, and no
sum reaches the sign bit), `InputsFollow` and `CursorIsSent`.
`ColoursComeBack` says for all 16.8 million colours what the run tries on some: the
three bytes of a colour do not wrap, and red comes back at most 3 too low, green at
most 2 off and blue at most 4 too low or 1 too high. Each byte is a sum of the
colours less the at most 255 that `>> 8` cut off, and the bounds are what remains of
those in the sums of the way back; 4 is reached, by one of the run's colours too,
whose `Tolerance` it is. `WriterStaysInMemory` says that for any headers of elements
of up to 32 bits the word that `bitstream_put_ui()` writes next is allocated: an
element spills over into one word more at most, and into one that `realloc()` has
just added if the filled word was the last (`InMemory`, `PutUiStays`); ue(v) counts
from 1 to 31 bits (`BitLengthFits`).

`HeadersReadBack` says of all headers what the run tries on some shapes: whatever
their elements and values, the bits in memory read back as those elements, with
nothing between or behind, and sequence and picture headers end on a byte. All that
is assumed is that the values fit their bits (`Fits`) and that none but the start
code takes all 32 bits of a word: the code would shift by 32 otherwise, which is
undefined. The inductive invariant is `ReaderInv`. The stream is `Sound` (in memory,
words are words, the free bits of the buffer are zero), and the elements so far are
`Placed`: each has an end, ends at or behind the end of the one before it, and the
bits between the two are its code (`Encodes`, `Golomb`). Its lemmas follow the code:
`PutUiAppends` (with `PutLow` for an element that fits the word and `PutFull` for one
that fills it: shift, or, spill over and swap leave the bits before alone and add the
element's bits, in order), `EndKeeps` (`bitstream_end()` moves the rest of the buffer
to memory and changes no bit), `PutEncodes` (an element is put as its code),
`EncodesMore` and `PlacedMore` (bits put behind a code do not change it). The reader
then finds each element where the last one ended (`CodeReads`, `PlacedReads`). That
sequence and picture headers end on a byte follows from their last element, the
alignment (`spsFilled`, `ppsFilled`).
Where the argument runs over the bits or the elements, the induction is over a set
of numbers (`Induction`, from the well-foundedness of < on the naturals), and the
recursive functions of the reader are unfolded by exhibiting one that satisfies their
equation.

`PicturesComeBack` says of all pictures what the run tries on the smallest: of any
even size, with any stride of the surface and any padding of the codec's planes. All
that is assumed of a picture is that the pixels that share chroma bytes are of one
colour (of another colour they get the chroma of their `Corner`), and that `Tolerance`
is at least 4. The loops are followed with `Visits`: they are in an even row, at an
even pixel, or in an odd one, and the pixels taken and chroma bytes written so far are
functions of the place (`EvenVisit`, `OddVisit`, `LoopsEnd`). Between two iterations
exactly the bytes of the pixels so far are written, each with the luma of its pixel or
the chroma of the pixel at the corner of its block: `PlanesHold` for `rgba2Yuv()`,
whose three indices run on their own, and `RowsHold` for `rgba2Nv12()`, whose rows are
a stride apart (`Strided`; `StridedApart`: no two bytes have the same address, so that
none is written over and there are as many as the planes have). `LoopRuns` unfolds the
recursive function of the loops into a run of it, and `YuvHeld` and `Nv12Held` take the
invariant to its end. Whatever the padding with which the planes are handed on, the
indices of the way back then find the three bytes of a pixel (`PlaneReads`, `PixelAt`,
`SourceIs`, `YuvPixel`, `Nv12Pixel`), and `ColoursComeBack` closes the argument.

`SnpWebsocketProofs` proves from `WebsocketAssumption`: `ServerIsTyped`,
`MessagesAreAsked`, which is inductive by itself, and `RunningIsReachable`, for
which pipes are numbered as they are created and no pipe is in two entries.

`SnpWireLinkProofs` proves from `SectionsAssumption` and `OthersAssumption` three of
the four properties of `wire_link`: `SentIsReceived` (`ReceivedAsSent`),
`PartsAreMerged` (`TogetherIsMerged`) and `FactoryFinds` (`SettingsReachFactory`), for
any settings that `readPipesSection()` can have read and any sequences of messages that
can be sent (`IsSent`). The assumptions are about the shape of settings and messages
and that none is too long for an `int`; that the Setup made of the settings is such a
message is proved (`SetupSent`).

Sub-messages nest at most five deep, and everything is proved for a depth from the one
below it: `WriteAt`, `ParseAt`, `MergeAt` and `MadeAt` are the operators of a depth, and
`WriteUnfold`, `ParseUnfold`, `MergeUnfold` and `MadeUnfold` take them to the level
below. Three facts hold at every depth. What `ByteSizeLong()` finds is what is written
(`WriteMeasured`; `VarintLen` for one number, `WrittenMeasured` for a field). What was
written of a message m, followed by any bytes r and parsed into any message x, is taken
up to r, and x has become the merge of x and m (`AllTaken`). And the merge of two
messages that can be made can be made (`AllMergesMade`), so that this goes on with the
next message. For the second, the parser is a sequence of states, the bytes that are
left and the message so far: `Reaches` says that it comes from one to another in as
many steps as the bytes between them allow. One field written is read back, known by
its tag, with nothing of r (`FieldRead`, `VarintRead`, `ContentRead`), and stored. Of
m, the parser has taken the fields 1 to i and of the next one j values: `PartOf`, and
what it has made of x is the merge of x and that part. `StoredNext` shows that storing
one value more is merging one part more: set, for a plain field, appended, for a list
(`StoredListed`), and for a case of the oneof the others are cleared first as
`MergeImpl()` clears them, and a sub-message of the same case is parsed into
(`StoredCase`, by the level below). `FieldTaken` and `TakenStep` are the inductions over
the values and the fields.

On the wire, `Together` takes the parser through any number of whole messages, and a
message alone is merged into an empty one, which changes nothing (`MergeIntoEmpty`). The
invariant of the link, `LinkInv`, says that what is sent can be sent, that the wire is
its bytes, and that the last result is that of the bytes it is said to be of; the three
properties follow.

`SettingsAreFound` is about every section that has a pipe 0, with any components,
entries, names, types, values and gaps, and every default: what each of the four look-ups
finds in the Setup made of it is the first entry of that name and type before
the first gap (`FindsFirst`). Entries before a gap are numbered 0 to n - 1 without holes
(`GapFreeIs`), so that entry i becomes property i + 1 and the least match stays the
least; setting the name, the type or a value leaves the other fields alone (`SetOther`,
`PropertyRead`), also where the value is the default and is not written.

Model-checked only: all liveness (`GreetingAnswered`, `FirstSetupIsServed`,
`AcceptsAfterReset`, `EncodeReturns`, `StopEndsCapture`), which is out of the
prover's reach; and `UnitsParseAlike`, which also speaks of what the parser makes of
the beginning of a message, and of messages whose type says what their body is, as the
programs send them.
The disagreements of the violation runs are counterexamples and need no proof.

## 6. Not modelled

* X11 and GL capture and `DrmUtil`: the factory has no case for them, and they do
  not compile with this tree's ports.
* The component registry, painting, logging, time stamps, the contents of the key
  map, the vendored code.
* Parameters of codecs and ports, surfaces and pixel formats of the vendor
  libraries.
* Partial `send()`s, and two threads' sends interleaved on one socket. In `SnpServer`
  a `send()` that does not return is a source thread that takes no further step.
* Effects of a data race on a `std::vector` other than a lost write.
* `stop()` of the MMAL encoder and of the client's network source, which no program
  calls; `stop()` under the cursor's and the X11 grabber's loop.
* Reflection, arenas, values of more than 32 bits and strings that are no UTF-8 in the
  generated code.
* The documentation marks "start/stop pipe localComponents in reverse data flow
  direction" as done (`TODO.md:43`); `start()` goes backwards, `stop()` forwards. No
  state that the model tells apart depends on it, so that no property is about it.
