# TLA+ models of the InACTually Engine

The InACTually Engine is an interactive installation server (C++, Cinder,
OpenCV): cameras and Kinects are looked at by detectors, what they find becomes
room nodes, and a graph of processing nodes, drawn in an ImGui editor and edited
by web clients too, turns it into light, sound and messages. The specifications
here are about its control: who connects, hands over, deletes and waits, in which
order, in which thread. Pixels, samples and geometry are abstracted to
identities: a frame is its number, a value is a model value.

Paths below are relative to the repository's root (`src/` is the engine's code,
`include/` its headers, `3rd/` vendored libraries).

## 1. Inventory

| component | state | operations | what makes it hard | correct when |
|---|---|---|---|---|
| **Ports** (`include/processing/Port.hpp`, `ProcNodeBase.hpp`) | listener list of each output (one input may be in it several times), cached value, enabled flag, connection and disconnection callbacks | connect, disconnect, send, recieve, enable, disable | connect is not idempotent and disconnect removes all entries; late joiners; inputs that drop; the server's thread connects while the main thread sends | listeners have the current value; callbacks tell the truth |
| **Node editor** (`ContainerProcNode`, `ProcessingModule`) | containers with nodes and links (runtime-id pairs); links are kept a second time as listeners of ports | create, link, group, delete, clear, copy, save, load | two representations edited by several paths, erasing by index while iterating | what is drawn is wired, what is wired is drawn |
| **Detectors** (`DetectorBase.hpp`, Marker-, Object-, DepthDetector and their managers) | newest image, candidates, four plain flags, a worker thread | create, deliver image, poll candidates, erase | no lock between main loop and worker; thread started in the base constructor and joined in the base destructor | no image and no result is lost; detect() only on a whole object; erasing returns |
| **Time stretching** (`TimeStretchingNode`) | source buffer, play position, ring buffer, two handshake flags | pause, load a track, destroy; audio callback; worker loop | three threads, no lock, spinning on flags | released samples are never read; the track is heard in order; a load returns and takes effect |
| **Middleware, messages** (`Middleware`, `Message`, `NetworkManager`, `JsonMsgProcNode`) | subscriptions by node and value, a JSON node per request | subscribe, unsubscribe, describe, create, connect, reply | handlers run in the server's thread without a lock; one entry per node and value for any number of requests | a subscriber has the newest value, and what it was told of the room is so |
| **Servers and sockets** (`WebUISecureServer`, `WebUIServer`, `TCPSocket`, `OSCServer`) | a thread and a connected flag | open, close, receive, send | every message goes to all clients; threads that never end are joined | the application ends; what is sent arrives |
| **Room nodes** (`RoomNodeBase`, `RoomNodeManagerBase`, `RoomModule`, `Stage`) | a list per manager, the selected node, the node under the mouse, UID, position, fixed | create, move, fix, select, load, delete, publish | constructors and destructors publish; a node lives as long as somebody holds it, process nodes included; UIDs change after the birth, and need not be unique | clients show the nodes that are there, where they are |
| **Kinect** (`KinectProcNode`, `KinectDevice`, `KinectManager`) | capture flags per stream, capture thread | attach, detach, connect callbacks | four depth outputs share one flag | capturing while somebody listens |
| **Cameras** (`CameraManager`, `CameraRoomNode`, `CameraDevice`, `CameraProcNode`) | used cameras, selected name and index | attach, release, update | a frame is copied in place while it is read | a node shows the camera it names |
| **Trigger list** (`TriggerListProcNode`) | outputs in order, the index of the next, a latch | fire, step, reset, arm, add, remove, move | a fire comes back through synchronous ports to the same node; the list is edited under the index | the next cue exists; what a cue does to its own list's index is what its connections say; firing returns |
| **Linker**, **ObjectDetectionProcNode** | ports per link name; a thread per image | rename; detect | flag set after the thread's start | one detection at a time |
| **Projector** (`ProjectorRoomNode`) | two lists of points, a counter, settings, a window | mark a point, reset, switch on and off, set rays and points, draw | a client's messages and the operator's GUI change the same lists from two threads, and typed numbers are used before they are corrected; a mark does not say which point it is for | a pair is what the user meant; enough different pairs are solved, all of them; a full calibration ends |
| **CameraCalibrator** | a few counters | capture, calibrate | a wizard over OpenCV | - |
| **DMX**, **moving heads** | fixtures at channel addresses, look-up table | add, address, update | limits of a universe | no fixture writes another's channels |
| **Audio** (`AudioManager`, mixers, devices, `SoundFileRoomNode`) | speakers, gains, the sound node | place, load, play | mostly numeric | - |
| **Application, ModuleRegistry** | the modules | update, draw, close | one main loop calls all of the above, one after the other | - |
| **Registry and value nodes, body tracking, display, input, logging** | little or none | one callback each | - | - |
| not built: `AudioPlayer`, `AzureKinectPointCloudNode`, `From-`/`ToMetaModelNode`, `AFSynthProcNode`, `DummyNode`, `MarkerPositionDetection`, `InteractionManager` | | | | |

How they interact: `InACTually::update()` calls each module's `update()` and
draws its GUI in the same thread; that is the *main thread* of all models, and a
GUI handler is one step. Nodes call each other synchronously through ports.
A detector, the time stretching, the audio graph, the Kinect and each server
have threads of their own, and share plain members with the main thread.

## 2. Modules

**`Wiring`** states what ports promise to the nodes: a set of wires, a current
value per output, and which inputs have been handed what. It maps to no code.

**`Port`** is `Port.hpp` and the enabling of `ProcNodeBase.hpp`. `listeners[<<o, i>>]`
counts the entries of input `i` in `m_ports` of output `o`; `cached` is
`m_cachedData`; `running` what the owner was last told by the connection or
disconnection callback. `Connect` is `connect()` in the main thread: the type test, the
hand-over of the cached value, the push without a test for duplicates and the
callback if there is one entry then. The server's thread connects as well (`Middleware.cpp:237`, `:306`), without
a lock, in three steps: `ServerConnect` copies the cached value, `ServerList` hands the copy over
and pushes, `ServerCount` counts. `Disconnect` removes every entry. `Displayed` are the
inputs in `m_inputPorts`, which are those that enabling and disabling a node reaches; an input
created with `display = false` is not among them. `got`, `behind`, `passed`, `missed` and `crossed` are
history: what an input was last handed, where it was off when a value came, where the server listed an
input although a send had come since it made its copy, and where two connects counted at once.
`W == INSTANCE Wiring` is the refinement mapping; the server's connect is `Wiring`'s plugging in two steps.
Not modelled, because the build may do anything: one thread pushing into the vector another walks,
and two threads sending through one output.

**`NodeEditor`** is the double bookkeeping of links. `links[c]` is `m_links` of a
container, `listeners` the ports' lists; `home` says whose `m_nodes` holds a
node. The actions are the editor's and the clients' handlers, each as one step.
`Hits`, `Visited` and `EraseAt` follow `deleteNodeByUID()` literally: indices found in the
old list are used on a copy that shrinks, so from a node's second link on
another link is hit, or none, which sets `undefined` (nothing is claimed after).
The two loops over links, `Erased` and `Picked`, are recursive functions of the index.
`Connect` here counts what `Port` shows.

**`Detector`** is `DetectorBase.hpp` with the two places that drive it:
`MarkerManager` (create, poll, erase) and `CameraRoomNode::update()` (deliver).
Every read and write of a shared flag is a step. `worker` goes through
`look` (`while (m_detecting)`), `check`, `clear`, `detect`, `detecting` (inside
`detect()`), `assigning` and `announce`. `Torn` is what a vector is while it is
assigned. `Hoist` is the optimiser's right to take the flags out of the idle loop:
they are neither atomic nor volatile. A frame is copied in place, so
`Capture` may change what a running detection sees.

**`TimeStretching`** is the handshake of `setNewTrack()`, the loop of
`timestretching()`, and `process()` in the audio thread. A track is the number of
the load that brought it, so "released" is "not the newest". `Patient` says
whether loads come only when the worker has left the idle state of the load before.
Every block takes one place in the ring: the playback speed, which scales a block, is left out.

**`ProjectorCalibration`** is the part of `ProjectorRoomNode.cpp` that turns
marks of a user's hand into correspondences, and is this repository's own
addition to the engine. The server's thread goes through `switch`, the three places of
a reset, `test`, `ray`, `pushImage`, `pushObject`, `count`, `enough`, `solve`; the main
thread through a reset, through a number that is typed and then clamped, and
through a frame of the window (`StartDrawing`, then the point or the end). An
object point is the number of the ray the hand was held to, which only the model
knows. `solved` says how many pairs the parameters come from. The code keeps the two threads apart by nothing; `Apart` says
whether a run or a theorem assumes that no edit of the operator (a reset, a number typed and clamped, the test pairs) overlaps
the handling of a message. Nothing else is assumed: messages are under way during edits, a user may mark one point twice or
a point that is no longer shown, and drawing and switching the calibration on and off come between any two steps of the server.

**`RoomSync`** relates the room to what the browsers show of it. An `Object` is a
node object, born once; `uid` is the UID it goes by, at first its own random one,
which clients and files replace (`fromJson()`). `listed` is what the managers hold,
`selected`, `hovered` and `kept` are the other shared pointers (`Stage::m_selectedNode`,
`RoomModule::m_node`, and the process nodes' `m_positionRoomNode`, `m_movingHead`, `m_microphone`), so `Alive` is the union, and a node that leaves it runs
`~RoomNodeBase()`: every handler that can drop a pointer says so with `Deletes`.
A handler changes the room and builds its messages in one step, `Send` puts
the next message of a thread on the wire for all open connections; the two
threads' sends interleave. `Tell` is `publishChanges()`, `Describe` the full description.
`Hold` is a process node's choice of a listed node by combo box or
parameters, in either thread; `TakePosition` and `AddPosition` are the `PositionProcNode`'s, which makes the nodes it holds and has them
removed. `CreateRoomNode` follows `fromJson()` with and without a UID, and makes a twin when it is repeated: neither the
middleware nor the module looks whether the UID is in use.
Constructor messages (CREATE and one update per setter) are one patch; `Only` makes a patch, `Over` applies one. The room nodes' `fixed`,
smoothing (`Taken`) and the slider that writes the member before `setPosition()`
refuses are kept, because each makes a client wrong. The history variable `suspect` collects the UIDs of which the code
may have told something wrong, at the place where it does. A file that is
loaded may be any room any session saved, so saving, which changes nothing, is no action.

**`Subscriptions`** is one output and the browsers that subscribe to it. Each
request makes a `JsonMsg` node; `nodes[i]` says what it has cached (its output's
`m_cachedData`) and how much of the chain output -> node -> sending port exists.
`Subscribe`, `List`, `CatchUp`, `Wire` are the parts of the two `connect()` calls between which the
main thread can send; `Send` and `Deliver` are the loop of `Port::send()`. What it
takes from `Port` is the order "hand over, then list". `Unsubscribe` does what the code does: it removes a
port from a list the port is not in. Outputs of type `PT_JSON` are not
covered: the JSON node's input for them is created as a colour input
(`JsonMsgProcNode.cpp:86`), so `connect()` gets no port and nothing is ever sent.

**`TriggerList`** is the cue list. Ports are synchronous, so the calls of
`fireTrigger()` that have not returned are a `stack`; `Serve` lets the cue on top be heard by the
next of the list's own inputs it is connected to, `Fall` is the `send(false)` of the last cue, `Return` the
`stepDown()` and the latch. `Plug` is the hand-over of a cached value in `addListener()`, `Plugged` the
push that follows: what the value sets off does not yet go through the new wire (`plugging`). `wires` are
sequences, the inputs in the order of `m_ports`: an input that is connected twice is in it, and hears each value, twice, and
`Unplug` removes all its entries. `Up`, `Down`, `Reset` are the index arithmetic with its unsigned
comparison. Removing a cue drops its port and its wires; adding one, also by loading, leaves the index.
`strayed` is history: how the index came to be behind the list.

`MCPort`, `MCNodeEditor`, `MCRoomSync` and `MCSubscriptions` give values to the constants; the other modules need none.
The theorems about a module `M` are in `MProofs`; each of the eight models has one.

## 3. Runs

| run | question | bounds, and why they do |
|---|---|---|
| `port` | Do listener lists with duplicates behave like wires? | two outputs of two types, two inputs of one node, one displayed and one hidden: fan-out, a pair that may not connect; a pair twice in a list before it may be connected again (`MaxListeners`; the server's step may make it a third): further entries are handled like the second. 181,000 states. The theorems have no such bound. |
| `editor` | How far do drawn links and listeners agree? | source, filter, sink, one group, three links ever (`MaxLinks`): enough for the second hit of `deleteNodeByUID()`, for doubles by clients, and for wires whose ends are in two containers. Four links give no other outcome (run once by hand, 430,000 states). |
| `editor_grouping` | Does a container hold both ends of its links? Expected violation, see finding 1. | without clients, the shortest case |
| `detector` | Do the unlocked flags lose an image or a result, does erasing return? | five frames: one detected, one arriving in each of the windows, and a newer one after it. The safety part is proved for any number. |
| `stretching` | Are patient loads safe, in order, and do they return? | two blocks and two places: the ring full, partly full and empty, the end of the track inside and outside; three loads |
| `stretching_hasty` | The same with loads at any time. Expected violation, finding 2. | two loads |
| `calibration` | With edits and messages that do not overlap (`Apart`): do the lists fit, is enough solved, and all, and does a full calibration end? | two to three rays (the code: four to ten), two points needed (six), up to three (any number): every ray comes a second time, the number of rays changes before, on and after that, a calibration is refined beyond what is needed, and both limits can be typed over; one message waits (`MaxInbox`) while another is handled. 1.3 million states, two minutes. |
| `calibration_overlap` | The assertion of `calibrateDLT()` with nothing assumed. Expected violation, finding 3. | three points needed, up to four |
| `roomsync` | When do clients show something else than the room? | two node objects (a second create or load can take the UID of the first), two positions, one process node, one client that comes and goes: everything is sent to all clients alike. `MCFewHolders` (a constraint): mouse and process node do not hold a node at the same time, as two of three holders (with the selection) are enough for a node to outlive one of them; without it the run takes too long, and the theorems do not have it. Three objects were not run; no action involves more than two nodes of one UID. 2.6 million states, symmetry on the objects. |
| `subscriptions` | Is a subscriber up to date? | two clients, two values, three requests (`MaxRequests`): an old one, a repeated one and one that overlaps a send |
| `subscriptions_unsubscribe` | Is nobody served after unsubscribing? Expected violation, finding 4. | as above |
| `triggerlist` | Where does the index go? | three cues, two connections to the list's own inputs (`MaxWires`): of one cue to two inputs in either order, to one input twice, of two cues; the theorems have no bound, two calls inside each other (`MaxDepth`; with a cue wired to "fire" the code has no end), two steps behind the list (`MaxStray`) |

What the properties say:

- `LateJoinerUpToDate`: a listener has the value of its output, unless it was off when one came, or the server's
  thread connected it around a send. The next value repairs both, and there is no third way.
- `CallbacksMatchListeners`: an owner is never told of a listener that is not there; of one that is there it is not
  told only while the server's thread is about to count, or when the main thread connected just then and both counted two.
- `ImplementsWiring`: with duplicates, hidden inputs and two threads, `Port` is `Wiring`.
- `ShownIsWired`: a drawn link carries data, except a pair that two links
  showed at once (clients do not ask), where deleting one kills both.
- `WiredIsShown`: a listener without a drawn link comes from a link erased
  while its ports could not be found, or from "clear editor". These are the
  only leaks; the exceptions are history variables (`lost`, `doubled`).
- `SingleLinkDeletedCleanly`: deleting a node with one link leaves no listener.
  The restriction is the code's: with two links the second erase goes wrong.
- `NewestImageNotLost`, `ResultsNotLost`: the order "clear, then use" on one side
  and "assign, then set" on the other makes the unlocked flags safe.
- `DetectOnWholeObject`: `m_isInitialized` keeps the early thread out of the
  unfinished object. It does not keep it out of the half-destroyed one: the
  property allows a detection while the destructor runs, because it happens.
- `StopReturns`, `ImageDetected`: unless the build hoisted the flags.
- `ReleasedNeverUsed`, `NoBlockSkipped`, `LoadReturns`, `NewTrackTaken`: the
  handshake works when loads are far apart, also with the ring full and paused.

- `EnoughToSolve`, `SolvedFromAll`: what is asserted in `calibrateDLT()`, and that no pair is left out. Both need `Apart`.
- `DistinctRays`: the ray of a correspondence is the counter modulo a number the operator may change
  between two messages; still the first ones are all different. With `Apart`.
- `CalibrationEnds`: as long as there is a window, which is the only place where a calibration ends by itself.

- `ListedIsShown`: in a quiet moment a client shows each listed node at its place, except where the code told it otherwise:
  a fixed node was slid; the echo of a client's message names a place the node did not take; a node was created without a UID and moved;
  two objects have one UID (a repeated create, or a node selected before a load and the one loaded); the two threads' messages about one node
  crossed. These are faults of the code that the property excuses (`suspect`), not what it shows to be right: what it shows is that there is no
  sixth, and that a description repairs all but twins. TLC found each, and without any one of them a run fails.
- `ShownIsHeld`: and it shows nothing that nobody holds, with the same exceptions and the random UID of a node that was
  renamed after it was announced. A node that a client had deleted and that somebody still holds is shown.
- `SubscriberUpToDate`, `ValueArrives`: subscribers have the output's value, or get it, as long as no request was
  handled during the last `send()`. A request that was can set back even clients that subscribed long before.
- `UnsubscribedIsQuiet`: without a subscription nobody is served. It does not hold: unsubscribing only forgets the entry.
- `NextCueExists`: the index leaves the list in two ways only: a cue is removed while the last is next (`removeTrigger()` compares
  with `size()`), or an empty list is stepped down.
- `StepsComeOnTop`: what a cue connected to its own list's inputs does to the index, each connection after the other, before
  `fireTrigger()` looks at the index again and steps: "reset" on the last cue arms the second, a cue connected twice to "step down" skips two.
- `FiringReturns`: unless a cue is wired to "fire", which calls itself without end because the latch is set after the call.

Deadlock is checked for the calibration, `port`, `stretching`, `roomsync` and the subscriptions. The others may stop: `detector`
when the detector is destroyed and the frames are used up, `triggerlist` where the code's
behaviour is undefined or its recursion has no end, `editor` at its bound
or after undefined behaviour, the violation runs at what they look for.

**Fairness.** `Detector`: the main loop goes on with a call it has begun and
polls in each round (`MarkerManager::update()`), and the operating system
schedules the worker. Nothing is assumed about frames, markers found or
detectors erased. `TimeStretching`: the caller of a load and the worker, both of
which spin, are scheduled. The audio thread is not assumed to run at all (a node
that is not connected is not processed), so `LoadReturns` holds without it.

`ProjectorCalibration`: the main loop finishes what it has begun and draws every
window once after each frame of the GUI; an operator who never stops pressing
buttons does not keep it from drawing, hence strong fairness of `StartDrawing`. Nothing
is assumed about the server's thread or the user.

`Subscriptions`: the loop of `send()` and the handling of a request are plain code
without waiting, so they run to their end. No value need be sent and no request made.
`TriggerList`: a call that has begun goes on until it returns; one weak fairness on the three steps
of a call, none on the user. `RoomSync` claims nothing about progress.

## 4. Findings

1. `ContainerProcNode.cpp:232`: `addContainer()` takes along the selected links,
   not the links of the selected nodes. "delete old links and create new ones" (line 196) is not
   what happens, as the TODO at line 227 admits. The parent keeps links it can never disconnect.
2. `TimeStretchingNode.cpp:67`: `m_isIdle` may still be the answer to the load
   before; a second load then replaces the buffer the worker reads. `setNewTrack()`
   has no caller in the repository yet, so a caller has to wait as `Patient` does.
3. `ProjectorRoomNode.cpp:798`: "Reset Correspondences" in the main thread while the server's thread handles a mark:
   between the test of the counter (line 766) and the assertion (line 815) it takes the pairs away; between the
   pushes and the counting it leaves the counter one ahead of the lists.
4. `Middleware.cpp:253`: unsubscribing disconnects the port that sends to the clients from the output, but the
   output's listener is the JSON node's input: the values go on being sent. `m_subscriptions` is "uid -> valueName -> port"
   (`Middleware.hpp:87`), and the port it keeps is the wrong one.

The models also have steps that look wrong and that no run is spent on, because no property of the code that
holds is about them, or because they are plain from the code:

- a message which restarts a full calibration may be cancelled by the frame that was about to end it (`StartDrawing`,
  the server's steps, `EndCalibration`);
- a hand is paired with the ray whose turn it is when the message is handled, which is another one than it was held to if
  the user marks a point twice before the window shows the next, or the rays are changed meanwhile (`ProjectorRoomNode.cpp:756`);
- the number of rays is typed into the member and then clamped; a mark handled in between takes a ray that is not
  in the table "for up to 10 points" (`ProjectorRoomNode.cpp:127`, `ProjectorRoomNode.hpp:111`; `TypeRays`, `GetCurrentRay` without `Apart`);
- the destructor of the time stretching joins a thread whose loop has no exit (`TimeStretchingNode.cpp:127`): after `Destroy`
  the caller takes no step.

## 5. Proofs

TLAPS proves, for all values of the constants (assumptions: those named in the
modules, on types and non-emptiness):

- `PortProofs`: `PortTypeCorrect` (with it: no listener of another type);
  `Callbacks` (with `Counting`: while the server's thread is about to count and no connect has crossed it, the count will be one or the owner
  knows; lemma `Counts` says what an entry does to the counts);
  `LateJoiner` (needs `Silence`, before the first send nobody holds a value, and `Copied`, the server's copy is the cached value until a send
  comes); `PortImplementsWiring` (each action maps to one of
  `Wiring`'s or a stutter; `RecieveIsHandOver` is the lemma on deliveries).
- `DetectorProofs`: one invariant `IInv` for both directions. `NewestImageNotLost` and `ResultsNotLost` are
  not inductive alone: `Phases` adds which combinations of the object's life, the main
  thread's and the worker's place exist (for example that the worker has ended when the object is dead).
- `TimeStretchingProofs`: `TimeStretchingTypeCorrect`, with `Bounds` saying where the
  position may be beyond the last block and where a place in the ring is reserved (without it
  "the ring is not over-full" is not inductive, because the test and the write are four
  steps apart); `PatientLoadsSafe`, from `Handshake`: which places of the worker agree with which
  places of the caller; and `BlocksInOrder`, which needs no patience, from `Order`: at each place of the worker,
  the block that comes next belongs behind the last one in the ring or at the beginning of the track.

- `ProjectorCalibrationProofs`: `CalibrationTypeCorrect` however the threads overlap. The rest for `Apart`, from one
  invariant: `Alone` (while the operator edits, the server's thread rests), so that `Place` names the one thread
  that is in the lists, from which `Lengths` follows; `Rays` (the first image points are those of the first
  rays); `Solutions`. It gives `AssertionHolds`, `NothingLeftOut` and, by counting the rays, `EnoughRays`.

- `NodeEditorProofs`: `ShownWired`, `WiredShown`, `NodeEditorTypeCorrect`. The invariant adds that links join nodes
  that were born (`JoinsTheBorn`; else a birth could bring a dead link to life) and that a pair shown twice is in
  `doubled`. The code erases by index, and which links go depends on the whole list: lemmas `ErasedParts`
  and `PickedIs` say only that each link is left or gone, once (`Sub`: a one-to-one map of what is left into what
  was there). That is enough, for a link that is gone and still shown was then shown twice (`OneKeeps`), and its dead listener is
  excused. `DeletedCleanly` needs more, that a single hit erases what it hit (`ErasedOne`), and `WiredIsShown`: a listener
  nobody shows would survive. The loops are recursive functions; that they exist and what they compute
  is shown by induction on the index, as a statement about a set of naturals (`Inductively`, from the library's
  theorem on minimal elements), since induction over an operator is out of reach.
- `RoomSyncProofs`: `RoomSyncTypeCorrect`, `ListedShown`, `ShownHeld`. Both properties speak of quiet moments, so the invariant must
  speak of the others: `Coming` says of each UID that is not suspect that the last message about it under way (or what clients
  show, if there is none) is right. `Apart` makes "last" unambiguous: if both threads have messages
  about a UID it is suspect; `Twins` have to be suspect, and `Names` says which UIDs an object can have.
- `SubscriptionsProofs`: `SubscriptionsTypeCorrect`, `UpToDate`. `InLoop` says which
  nodes `send()` has still to come to; `Cached` that all others have the output's value; `Views` what
  each client was told between two loops, and just before a new chain is closed. `Building` says how
  much of the newest chain exists while its request is handled; all others are complete.
- `TriggerListProofs`: `TriggerListTypeCorrect`, `CueExists`, and the action property `StepsOnTop`. `Nested`: a call's
  cue is in the list (nothing edits it meanwhile) and only a cue wired to "fire" has calls inside its own. Hence a cue that is not is on
  top until it returns, and `Progress` knows its index after each of its connections (`Heard`, a recursive function, shown to exist by
  well-founded induction over the length). `Strays` says how
  an index comes to be behind the list. A connection is listed after the hand-over, when all calls have returned, so no call sees its cue's wires change.

The inductive invariants were checked by TLC on the runs' instances before they were proved. With these
proofs, every invariant and every action property of a passing run is a theorem for all values of the constants (those of the calibration
for `Apart`), as is the one refinement (`Port` of `Wiring`).

Only model-checked: liveness (`StopReturns`, `ImageDetected`, `LoadReturns`, `NewTrackTaken`, `CalibrationEnds`, `ValueArrives`,
`FiringReturns`), which is beyond the prover's reach, as are statements about ENABLED; and the
properties that are expected to be violated.

## 6. What is not modelled, and the plan

Left out on purpose: numeric code (mixers, filters, linear algebra, DMX channels), drawing,
file formats, vendored libraries (nine tenths of the lines under `src/`), sources that are not built. `PROJECT.json`
lists each part with its reason and every known hazard with the property that covers it.

Abstractions to know when reading the newer modules: vectors that one thread
changes while the other iterates are undefined behaviour and left out of `Port`, `RoomSync` and `Subscriptions`;
in these, handlers of one thread are not cut by the other except where a step is shown; a browser is
what it was sent. Clients name a created node by one UID (`Chosen`), or by none.

Not modelled, and worth it next: the `Linker`, saving and loading of the node
graph with its id counter and "delete Group", and the Kinect's capture flags over
`Port` (the disconnection of one of several depth outputs switches the capture off for the others,
`KinectProcNode.cpp:144`).

Theorems to come: what the proofs rest on and readers may want by itself, such as the order in which `RoomSync`'s
messages about one UID leave; and a second refinement, of the subscriptions, to a specification that only says
what a subscriber may see.
