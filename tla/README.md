# AUDEMSP, modelled in TLA+

AUDEMSP (the `mediaservo-*` crates) streams media between vehicles and
cockpits. On the vehicle one process per task (capturer, streamers, audio,
controller, emergency stop, recorder, agent) exchanges frames over a shared
memory bus and shares one signalling session through the gateway of
`host-agent`. The signalling server keeps rooms, relays negotiation between the
members of a room and drives a mediasoup SFU; operators and C programs connect
to it with the client libraries. This directory holds the specifications, the
TLC configurations that check them on small instances, and TLAPS proofs of what
matters most for instances of every size.

## 1. Inventory

| Component | State | Operations | Hard part |
|---|---|---|---|
| Gateway (`host/src/gateway.rs`) | connections, slot FIFO, negotiation owner, echo cache, remote session | accept and lose children, `upstream`, `downstream`, `reset_remote`, remote loop | answers carry no name: only their order tells whose they are |
| Server sessions (`server/src/signaling.rs`) | room owners, bindings, negotiation cache, channels | `handle_socket`: join, replay, subscribe, sync, relay, clean-up | tasks share maps with no common lock |
| Rooms (`server/src/room.rs`) | room map | join, leave, drop consumers | several critical sections in one operation |
| SFU (`server/src/sfu.rs`) | rooms, peers, transports, producers, consumers | create, connect, produce, consume, list, remove | a map guard held across an await |
| Server process (`server/src/main.rs`) | listeners, connections, shutdown signal | start, accept, authenticate, drain, exit | idle sessions do not see the signal |
| State backup (`common/src/backup.rs`) | file, temporary file | save, load, delete | death between two steps of a save |
| Administration (`server/src/admin.rs`, `server/src/audit.rs`) | accounts, tokens, audit ring, consoles | login, check, change, event stream | a token outlives what it was issued for |
| Configuration push (`host/src/translate.rs`, `bin/host-agent.rs`) | one-slot mailbox, files, version in memory | push, apply, `host apply`, recovery | death and failures between two files |
| Host command (`bin/host.rs`) | instance directories, boot units, apps | init, tokens, start, apply, restart, stop, startup | several managers on one machine; kills |
| Host monitors (`host/src/monitor`) | windows, statistics | tick, report | a report resets what it reads |
| Controller, emergency stop (`bin/host-controller.rs`, `bin/host-emergency.rs`, `emergency.rs`) | peer connection, early candidates, count, latch, audit file | offer, answer, candidates, trigger by data channel or SIGUSR1 | two sources of a trigger; kills |
| Streamer, audio (`bin/host-streamer.rs`, `bin/host-audio.rs`) | watchdog, vision session; one task per remote producer | publish, subscribe, forward, shut down | concurrent requests on one session |
| Link client (`link/src/signal.rs`) | socket, send channel, events, callback | connect, send, close, background task | four ways to end |
| Field sessions (`field/src/session.rs`, `field/src/sfu.rs`) | request under way, transports | publish, subscribe | answers matched by kind; lag |
| Frame bus (`link/src/bus`, `link/src/frame.rs`) | registry, publisher, sample, slot | publish, close, receive | check, make, tell in three steps; lost wake-ups |
| Recorder, playback (`deck`, `bin/host-recorder.rs`) | running flag, channel, file | record, stop, next frame | one flag, two threads; frames still in flight |
| C interfaces (`bindings/c`) | handles and the threads behind them | open, close, callbacks | freeing what a thread still uses |
| Operator client (`operator`) | connection, relay loop, peer connection, frame channel | retry, offer, candidates, decode | order across reconnects |
| WebRTC (`webrtc`) | tracks, senders, channels, encoder and decoder | add, attach, spool, push, pull | callbacks of a foreign library |
| Media engine (`media`) | chain map, flag, tasks | add, remove, start, stop; frame rate and size | flag and map are not under one lock |

All paths are below `src/crates/mediaservo-*` (`src/bindings` for the C
interfaces). `PROJECT.json` lists every component, the ones without a model
included, with its state; its `hazards` are what is hard to test, each at its
line with the properties that watch over it.

How they interact: a child's message goes child -> `conn_task` -> channel ->
`run_session` -> session task -> `handle_socket`. There an SFU request is
answered on the same socket, a relay message goes through the room's broadcast
channel to every member, the sender included, and a report is stored. The way
back is socket -> session task -> event channel -> `run_session` ->
`downstream` -> child. A `ConfigPush` leaves this path for the mailbox of the
agent's applier; a peer connection negotiated over it carries commands, stops
and vision results past the server. Frames go capturer -> bus -> streamer ->
track -> SFU. Programs in C see sessions, buses and cameras as handles.

## 2. Modules

State and operations carry the names of the code; an action is a handler, or
the part of one between two accesses to what others also touch. `map` in
`PROJECT.json` gives the lines of each definition. A definition commented
`Wrong variant` is a plausible error of the code; no specification uses it.

### The signalling core

| Module | What it is |
|---|---|
| `Gateway` | gateway, link session and the server as one vehicle session sees it |
| `RequestReply` | abstract promise of the gateway to its children |
| `Roles`, `RoomManager` | names and authorisation decisions; the room record and the critical sections of `room.rs` |
| `SignalingServer` | one room: sessions as interleaved tasks, built on `Roles` and `RoomManager`, with the administrator's removals and kicks |
| `SfuManager` | the SFU side of one room, its lock and the runtime's threads |
| `GatewayProofs`, `RoomProofs`, `SfuProofs` | their theorems |

*Gateway.* One action per handler: `Accept`, `RemoveConn`, the outcomes of
`State::upstream` (`Intercept`, `Refuse`, `Forward`), the agent's own messages,
`Downstream`, and the steps of the remote loop. `Forward` pushes the slot and
puts the message in the channel in one step, because the code holds one mutex
over both. A message keeps its kind only: `sfu` (the requests that hold a slot),
`data` (CreateDataProducer, ConsumeData), `nego`, `media`, `status`, and on the
way down `resp`, `room`, `disconnected`, `error`. `origin`, `slot` and `sess` are
ghosts no routing decision reads; `id` stands for the text the echo cache
compares; `pushed`, `sent`, `answered`, `popped` count requests along their way,
and `skewed` records that an answer was dropped unread (a lagging channel) or
that an Error answered a message without a slot. `RequestReply` states the
promise without a FIFO: a request is open until a reply goes to the child that
asked, or to nobody if that child is gone. `Gateway` maps `open` to the slots of
`pending` and `given` to the answers delivered.

*SignalingServer.* Each session has a program counter, and a step is the code
between two accesses to shared state: `join_room` is `JoinExisting`, or
`FindNoRoom` and later `InsertRoom`; then `Register`, `Replay`, `Subscribe` and
the two synchronisations of producers; the clean-up is a chain of ten steps.
`RetainElsewhere` is what a session leaving another room does to this one.
`direct` is what a session's own handler wrote to its socket, `relayed` what
reached it through the broadcast, and `missed` what the broadcast, a channel of
4096 entries, dropped because the session lagged (`MaxLag` bounds how many).

*SfuManager.* A DashMap lock blocks the thread, not the task, and
`create_producer`, `create_consumer` and `connect_transport` keep the guard of the
room while they await the worker. So a task is given one of `Threads` threads,
gives it back at an await, and keeps it while it waits for the lock. `create`
looks for the room, awaits a router, inserts a room without looking again, awaits
the transport, and stores it.

### Server process and administration

| Module | What it is |
|---|---|
| `ServerLife` | checks at the start, plain and TLS listener, a connection through authentication and join, ctrl-C, the drain with its deadline |
| `Backup` | snapshots by a task and by callers through one temporary file, death and failed writes at each step, `load` with its limit on the age |
| `AdminApi` | account file, rate-limited login, tokens, the middleware, changes, the audit ring, consoles on a bounded event channel |
| `ServerProofs` | theorems about these, the operator client and the field session |

### Vehicle

| Module | What it is |
|---|---|
| `ConfigPush` | mailbox, version gate, backup, two file replacements, `oxmgr apply`, `host apply` beside it, restart and recovery |
| `HostInit`, `HostInstances` | init and token issue with a kill between any two files; start, apply, restart, stop and boot units over several directories |
| `HostMonitor` | topology against what runs, flow windows and statistics |
| `PeerChild`, `EmergencyStop` | a process with a peer connection; the stop built on it, which EXTENDS it |
| `HostStreamer`, `HostAudio` | watchdog and vision session; publication and concurrent subscriptions |
| `HostProofs` | theorems about these and the link client |

### Libraries, clients, media

| Module | What it is |
|---|---|
| `LinkClient`, `FieldSession`, `RemoteSdp` | signalling session of a user, publishing and subscribing over it, the description written for the server's side |
| `TopicPublisher`, `FrameStream` | the two sides of a bus topic |
| `Recorder`, `Playback` | recordings of several cameras and their stop; the delay and flush of a decoder |
| `DeckHandles`, `LinkHandles`, `BusHandles` | the C interfaces |
| `OperatorClient` | retries, relay loop, peer connection per offer, frame channel, decode chain |
| `RtcPeer`, `DataChannel`, `TrackSink` | the webrtc-sys backend: tracks and senders, spools of a channel, source to track |
| `VideoTrack`, `DecodePath` | the webrtc-rs backend: encode and send, reassemble and decode |
| `PipelineEngine`, `FramePacing` | chains, flag and tasks; frame rate control and scaling |
| `MediaProofs` | theorems about the bus, recording, handles, WebRTC and the media engine |
| `QueueLemmas` | what queues hold before and after they take or give an entry, for all of these |
| `ComponentProofs` | theorems about the parts side by side, as `MCComponents` puts them |

`MCSignalingServer` adds the values TLC needs. `MCComponents`
puts the modules of the last three tables side by side. Their variables are
disjoint; the variable `part` names the one that runs, chosen in the initial
state, and the others stay in one fixed initial state. So each part has the
behaviours it has alone, and the states of the run are the sum of the parts',
not their product. `EmergencyStop` has the process of `PeerChild` in it; the
controller is that process alone.

## 3. Runs

| Run | Question | Size |
|---|---|---|
| `gw_routing` | do answers reach their requester, and does the FIFO implement `RequestReply`? | 3 children, 3 requests, 2 sessions; 340k states |
| `gw_relay` | do sessions and echoes stay apart? | 2 children, 3 messages: negotiation and media; 417k |
| `gw_liveness` | are requests answered, losses noticed, rooms rejoined? | 2 children, 2 sessions, fair; 209k |
| `gw_unqueued_error` | does every answer reach its requester, whatever the server sends? **no** | counterexample |
| `server_rooms` | does anything remain of departed sessions, and in the registries of an empty room? | 3 sessions of 2 vehicles, 1 producer, 1 removal or kick; 2.75M |
| `server_relay` | does a joiner learn of everything once, and do its own producers go with it? | 2 sessions, 2 messages of 5 kinds, 1 dropped broadcast; 755k |
| `server_two_hosts` | is there at most one host? **no** | counterexample |
| `server_orphans` | do producers go with their session? **no**, if they carry another peer id | counterexample |
| `sfu_requests` | does each request end, on a transport of its own peer, and can some task always go on? | 2 tasks, 2 threads, 4 requests, 10 operations; 772k |
| `sfu_stall` | is each request answered when tasks outnumber threads? **no** | counterexample |
| `sfu_lost_transport` | do concurrent creations keep each other's transports? **no** | counterexample |
| `components` | does each other part keep its promise? | 29 parts; 418k |

`CHECK_DEADLOCK FALSE` is set throughout because a run really stops when its
bounds are used up: no messages are left and all sessions have ended.

### What `components` checks

`ComponentTypesOK` is the type invariant of all parts. The parts' properties
whose names are their subject stand alone:

| Property | Module | What it says |
|---|---|---|
| `NoSessionCut`, `ServerExits` | `ServerLife` | a plain server that exits in time saw its sessions end; a server told to stop exits |
| `LoadFindsLastSave` | `Backup` | a start finds the newest snapshot saved, whole |
| `ChangesByAdmins` | `AdminApi` | a change goes back to an account that was administrator, or to the token printed at a start, in time |
| `NoDowngrade`, `Settles` | `ConfigPush` | versions never go back; without faults what runs is what was pushed last |
| `StopsOnRecord` | `EmergencyStop` | one trigger of a life latches (`LatchedOnce`); an acknowledged stop is in the file (`AckedIsAudited`) |
| `StreamWakes` | `FrameStream` | a frame or a shutdown reaches whoever is in `recv()` |
| `StopEndsRecording` | `Recorder` | both threads of a stopped recording end |
| `SdpWellFormed` | `RemoteSdp` | the description of the server's side has its lines in their sections, for each codec and set of candidates |

Properties about one hazard of several parts are stated together:

* `SignalsInOrder`: signals are acted on in order, none before its description,
  and none is left out but what the channel of the vision session lost
  (`CandidatesInOrder`, `VisionInOrder`, `ClientInOrder`, `HeardInOrder`, `ConsolesInOrder`).
* `MediaKept`: nothing is lost, repeated or mixed silently (`FileKeepsFrames`,
  `NoneMeansAll`, `SpoolsMissNothing`, `GivesUpInOrder`, `FramesAccountedFor`,
  `WholeUnitsFed`), and a recorder exits only when its
  files are complete (`ExitsWhenWritten`).
* `HandlesCloseInOrder`: `CloseIsFinal`, `PumpEndsFirst`.
* `EngineConsistent`: `OneTaskPerChain`, `RateHeld`, `ScaledFits`, `AttachedOnce`.
* `HostConsistent`: `TokensAccountedFor`, `OneStartupUnit` (but for the units a
  take-over failed to see or to remove), `FlowTruth`, `AudioSettles`, `SettledWhenIdle`.
* `SessionsAsPromised`: a link session that is closed drains, any other end calls back
  once (`EndsAsPromised`); a call that follows no call that gave up ends with the
  transport it asked for and the producer it named (`ShowsWhatWasAsked`).
* `BusConsistent`: the node the registry names has the publisher (`MarkHolds`); frames
  are not repeated or turned back (`NewestFirst`).
* `NobodyWaitsForNothing`: who found a frame slot empty was notified of what came since
  (`SleepersWoken`), a reader inside `recv` was told when `bus_close` has
  returned (`ReadersReleased`), and a call that waits has its request, its answer
  or what ends it on its way (`CallAwaited`).
* `WaitersReturn`: `CallReturns`, `RecvEndsWithBus`.

### Bounds

Each constant whose declaration says `bound` limits a counter that the code
does not limit; each `.cfg` gives its value.

*Gateway.* Misrouting needs two children and two requests: one to be displaced and
one to displace it; a third child and a third request also let one die between two
others. Two remote sessions give one reconnect, and state carried over it shows
up in the second. `EventCap` 8 and `EchoCap` 8 are above what the runs can fill,
so a lagging channel is outside the runs; the proofs cover every capacity.

*Server.* Three sessions are needed for a leaver, a second leaver and a joiner to
interleave; two for what a joiner is told. The relay run may drop one broadcast;
nothing the room run checks depends on what was relayed. Two vehicles that take
one room for theirs meet every answer of the authorisation to a joining device;
those to an operator are met in the relay run. One request of the administrator
meets every step of them. `NegoCap` 2 equals the number of messages of the relay
run. Symmetry, on sessions and in the room run on vehicles, is used in these
safety runs only.

*SFU.* Two tasks on two threads are one holder of the lock and one waiter; four
requests of one peer are what it takes to consume what was produced (two
transports, a producer, a consumer), or to use a transport while the other task
makes one, lists or leaves.

*Parts.* The smallest number at which the case in question happens, then one
more where it costs little:
- two of whatever may be confused: connections, configuration versions, apps,
  directories, candidates, messages, producers, nodes, receivers, cameras,
  spools, callers of the engine, fragmented units;
- one fault, one edit of a file, one restart or retry (two restarts of the
  account registry), so that there is a before and an after of each;
- channel capacities (`FrameCap`, `IceCap`, `EventCap`, `EventsKept`,
  `EventsBuffered`, `VisionKept`, `Kept`, `Capacity`) of 1 or 2 instead of 64 to
  1024: here they do fill, and lag and dropping happen (three candidates of the
  cockpit against a channel of one);
- a field session may end in each of the three ways the code treats differently: by
  an event, by a failed read, without a word;
- a `SetupLife` of one tick, no longer than the run, for a token that lives a year;
- three snapshots with an age limit of one tick, so that a young file follows
  one too old; one saver (with two the property does not hold, see below);
- `FramePacing` over time stamps -1..14 with 8 units to the second and rates 1,
  4, 5 that divide it or do not, and over sizes and limits below, at and above
  one another, odd ones included;
- the emergency process is sent no candidates (`NoCandidates`); the controller,
  which treats them alike, is.

### Fairness

- `Gateway!FairSpec`: weak fairness of the reporter's 5 s tick, of each step of the
  remote loop and of the server. All are tokio tasks that run without a user;
  `WF(Connect)` says that a reconnect eventually succeeds, which is the network's
  part, and `WF(Server)` that a live server goes on reading. Children and losses
  are not fair.
- `SfuManager!FairSpec`: a handler that stays enabled runs. It does not give a task
  a thread somebody else keeps, which is what `sfu_stall` turns on.
- `MCComponents!FairSpec`: the server's two timers and an exit that is due; the
  agent's applier; the task of a field session, and the server, which answers
  or has something else arrive; each pump and each worker thread of a
  recording; a call of `recv()` under way, in Rust and in C; a subscription and a close of
  the bus, once begun. Clients, frames,
  faults, kills and restarts are not fair.

`server_*` runs check safety only.

### What the counterexamples say

1. `gw_unqueued_error`: `downstream` pops a slot for every `Error`, but a failed
   `CreateDataProducer` or `ConsumeData` never had one. Another child gets the
   error, and later answers are off by one. `RoutedToRequester` therefore has the
   premise `~skewed`, and holds with it.
2. `server_two_hosts`: look-up and insertion in `join_room` are two accesses.
3. `server_orphans`: `remove_peer` gets the session's id, the producers were
   registered under the id in the message.
4. `sfu_stall`: a guard held across an await; tasks block threads.
5. `sfu_lost_transport`: the second insertion of an SFU room replaces the first.

Other expectations that a comment or a doc states and the model refutes are
definitions of their modules that say so; no run checks them:

| Definition | What happens instead |
|---|---|
| `SignalingServer!NegotiationGoesWithRoom` | no clean-up touches `pending_messages`; whoever takes the room's name next is replayed an old offer |
| `SignalingServer!LaggingStillTold` | a session that lagged is not told again of the producers it missed (`signaling.rs:655`) |
| `AdminApi!ChangesByAccounts` | the token printed at a start is of no account, is good for a year, and no edit of the accounts ends it |
| `FieldSession!AnswersAreOwn` | the late answer to a call that gave up is taken by the next call |
| `FieldSession!CallAlwaysReturns` | the waits pass over a failed read and have no time-out (`session.rs:617`, `:692`) |
| `HostStreamer!VisionIceComplete` | a task that lagged goes on without the candidates it missed (`host-streamer.rs:288`) |
| `RtcPeer!TransceiverCarriesItsTrack` | two senders made before either is placed are given each other's track (`webrtc_sys.rs:614`) |
| `BusHandles!StreamCloseWakes` | the handle is freed while `recv` is at work on it |
| `HostInstances!NoSecondUnit` | a take-over installs its unit also when the others could not be listed or removed (`host.rs:1085`, `:1136`) |
| `ConfigPush!ReportMatchesDisk` | an agent killed between backup and file reports, after its restart, a version it has not applied |
| `PeerChild!LossEndsProcess` | a session that ends without an event leaves the process waiting |
| `EmergencyStop!LocalStopKept` | a SIGUSR1 taken note of when the process ends is lost with it |
| `Recorder!StopIsHeeded` | a stop before the task sets the flag is overwritten (`record.rs:96`, `:145`) |
| `HostInstances!StopEmptiesNamespace` | apps that `host.toml` no longer names are in no oxfile, and the last listing asks a manager that has none of them |
| `HostAudio!ConsumersMatch` | two subscriptions at once take each other's answers (`host-audio.rs:282`, `:318`) |
| `HostStreamer!WatchdogBites`, `DeadlineCancelled` | the watchdog is not looked at inside other branches; the vision deadline is moved by an hour, not removed |
| `OperatorClient!CandidatesReachTheirOffer` | candidates of a refused offer go to the connection before |
| `PipelineEngine!RunningChainsStarted`, `StoppedMeansStopped`, `EndIsTheEnd` | start gives up at a chain another caller spawned; a chain spawned after a signal nobody heard runs on; a failed processor may go on |
| `FramePacing!NeverPanics` | a rate of one half or more, but below one, is 0 as an integer and divides by zero |
| `HostMonitor!DeadPublisherReported`, `LastStampKept` | the monitor's own subscriber keeps the topic alive; a window without a frame reports stamp 0 |
| `VideoTrack!PtsMonotonic` | packets drained together come last first (`gstreamer.rs:296`) |
| `DecodePath!UnitsUnmixed` | a lost start adds its fragments to the unit before |
| `DeckHandles!CameraCloseReturns` | `deliver_frame` locks `rec_tx` twice once a recording has ended (`lib.rs:224`, `:228`) |

Restrictions that keep a checked property true, each named where it is made:

| Property | Where it is restricted |
|---|---|
| `ProducersAnnounced` | but for the announcements a session missed when it lagged |
| `OwnProducersGone` | producers a session registered under its own peer id; of the others `server_orphans` shows that they stay |
| `RegistriesCleared` | not of the negotiation cache |
| `CallReturns`, `CallAwaited` | sessions that did not end by a failed read or without a word |
| `ShowsWhatWasAsked` | no earlier call of the session gave up; other sessions of the same peer, whose answers it would also be sent, are not modelled |
| `OneStartupUnit` | but for units a take-over could not list or remove |
| `VisionInOrder` | but for the candidates the event channel lost |
| `RecvEndsWithBus` | streams that were not closed while somebody was inside |
| `SettledWhenIdle` | without a fault and without `host apply` beside the agent |
| `Settles` | without a failed `oxmgr apply`, which nothing repeats (`host-agent.rs:155`) |
| `LoadFindsLastSave` | one saver (two share the temporary file) |
| `FramesAccountedFor` | one writer of a track |
| `NoSessionCut` | the plain listener; the TLS listener ends at ctrl-C without a drain (`main.rs:244`) |
| `NobodyStalls` | a thread for each task; with fewer, `sfu_stall` |

## 4. Proofs

All theorems hold for every value of the constants; what is assumed of these are
the named `ASSUME`s of the modules (bounds are naturals, capacities positive, a
`No...` value is none of the others) and what the theorem itself assumes.

*Gateway* (`GatewayProofs`): `TypeOK`, `RoutedToRequester`,
`PendingAligned`, `SessionIsolation`, `NoStaleSlots`, `EchoSuppressed`, and the
refinement of `RequestReply`. `RoutedToRequester` is not inductive: that the head
of `pending` belongs to the answer at hand follows from everything still on its
way. `PendingAligned` says so: the queues up (`remoteRx`), across (`wire`) and down
(`events`) hold consecutive ranges of slot numbers, each once and in order, and
the slot a message waits in is that of its own child. That needs `Phases`
(which queues are empty in which phase), `Shapes` (which queues hold requests,
answers or neither) and `SessionIsolation`. The first lemmas say what `Append` and
`Tail` do to such a range; each action that moves a message cites them.
`KeepsPromise` maps every step to a step of `RequestReply` or a stutter: with the
invariant an answer pops exactly the request it answers. It is about behaviours
in which nothing skews a session, as the counterexample above demands.
`EchoesStop` assumes no more messages than the echo cache holds; `EchoInv` says
that a child's relay message of this session is in the cache wherever it still
is on its way, and that the cache of the room replays only older ones.

*Server room* (`RoomProofs`): `TypeOK`, `DepartedForgotten`, `RegistriesCleared`,
`NoDuplicateNegotiation`, `ProducersAnnounced`, `OwnProducersGone`.
`RegistriesCleared` speaks of the moment when all have gone; inductive is that
somebody who has still to pass a clean-up step owes it: `PlacesOK` (a room that is
there has a session before `RetainRooms`), `HoldingsOK` (where a session is
decides what it may hold), `ResidueOK` (what is left has a session that will
remove it). `MessagesInv`: a message still to be sent is nowhere yet, and nothing
was relayed before the subscription. `ProducersInv`: a session in its loop was
told of a producer, is about to read the list, or somebody is about to announce
it, or the session was skipped over the announcement. `OwnProducersGone` holds
whatever ids the other clients use.

*SFU* (`SfuProofs`): `TypeOK`, which says that threads are occupied exactly by
tasks that run or wait for a lock and that the lock is kept exactly while the
worker is asked, and `BoundToOwnTransport`. The step that matters: while a task
has the lock nobody removes the transport it chose (`HoldersOK`). `SomebodyGoesOn`
is the other side of `sfu_stall`, for any number of threads: at every moment some
task can go on, unless every thread is occupied by a task that waits for the lock
and the task that keeps it waits for a thread (`StalledOnLock`). So that stall is
the only one there is. With as many threads as tasks (`EnoughThreads`)
it cannot be, because a task that does not run leaves a thread free (`ThreadLeft`):
the corollary `NobodyStallsWithThreads`.

*Server process and its clients* (`ServerProofs`): `NoSessionCut` (`DrainInv`:
what was there at ctrl-C only moves to its end); `LoadFindsLastSave` (`BackupInv`:
the file is the last snapshot saved, and what is renamed next is whole; one saver
assumed); `ChangesByAdmins` (`AdminInv`: tokens carry the role of a registry that
was loaded, or were printed at a start); `ConsolesInOrder` (`AdminHeard`: the
numbers a console was sent rise, and none is past its place on the event channel);
`ShowsWhatWasAsked` (`FieldInv`: as long as nothing disturbed the session, every
request and answer on its way is of the call under way, for the producer it wants,
and nothing is on its way between two calls); `CallAwaited` (`CallComing`: the
same over the sets of entries of the three queues, where taking one out loses only
what the call then heard); `ClientInOrder` (`ClientInv`: candidates and frames are
numbered in each queue they pass, with what is further on older, and one reader at
most has frames of a channel).

*Vehicle* (`HostProofs`): `EndsAsPromised` (`LinkInv`: written and queued messages
together are the given ones); `CandidatesInOrder`, for the controller and, since
each of its steps is one of this process, for the emergency stop; `LatchedOnce`
(`StopInv`: counts of a life differ, one trigger found the latch open) and
`AckedIsAudited`; `NoDowngrade` (`VersionInv`: a reported version has its backup, and
a newer one is written only after its own); `SettledWhenIdle` (`Settling`: at each
step of the applier, how far apart `host.toml`, the oxfile and the running apps may
be); `TokensAccountedFor` (`InitInv`: files are
written by a running command alone, a token that is being written is already
there, and while the key is being written no token is);
`OneStartupUnit` (`InstancesInv`: a unit is installed by a command that has nothing
else to do and found no unit of another instance or removed those it found; the
others are among the missed);
`FlowTruth` (`MonitorInv`: reports and the window together count each frame, and
the last arrivals the monitor keeps are the true ones); `VisionInOrder`
(`VisionInv`: what the cockpit sent is added, held back, in the queue or lost by
the channel, in this order, and held back only before the answer);
`AudioSettles` (`AudioStarted`: a producer main has not taken up has no task, a task
that has not come to its Consume has sent none, and main says ok with nothing in
flight).

*Media and handles* (`MediaProofs`): `MarkHolds` (`PublisherInv`); `NewestFirst`
(`StreamInv`: what may still come is newer than what was given) and
`SleepersWoken`, inductive with the types; `ReadersReleased` (`BusListed`: a
stream that was handed out is in the bus's list, nothing joins the list once it is
taken, and the handle is freed only when all of it was shut down);
`FileKeepsFrames` (`RecorderFiles`: the frames in the file and in the channel are
those the pump took, and a thread that leaves without a stop has nothing left to
take) and `ExitsWhenWritten`; `NoneMeansAll` (`PlayInv`: frames shown, in the
decoder and to be read are the file); `CloseIsFinal`, `PumpEndsFirst`,
`HeardInOrder` (`DeckInv`: a closed handle has no pump and no bridge left;
`SigInv`: events heard, in hand and in the inbox are numbered upwards in this
order); `AttachedOnce` (`RtcInv`: a track is staged or sent, once and not both,
and what the table names is sent, or its call is under way and it is still
staged); `SpoolsMissNothing` (`DcInv`, with the ghost `dcTold`: told, waiting and
lagged events of a reader are all that came since it began); `GivesUpInOrder`;
`FramesAccountedFor` (`TrackInv`, one writer); `WholeUnitsFed` (`DecodeInv`: after
a start and the fragment that follows it the buffer holds just those);
`OneTaskPerChain` (`EngineInv`: a chain has one task exactly when its nodes were
moved out, and no two ids share a chain); `RateHeld` (`PacerInv`: the next frame
is due a whole number of distances after the last jump) and `ScaledFits`.

The type invariants of all parts are theorems as well, and not always inductive:
`TrackTyped`, `ConfigTyped` and `StopRest` add which values go together.

*The composition* (`ComponentProofs`). `MCComponents` is `Init` of every part and
the steps of one. `OwnSteps` and `OthersRest` read off each action what it is for
each part: a step of its own, or a stutter. So `Spec => XSpec` for each of the
specifications X (the lemmas `...Alone`), and what is proved of X carries over
with no new induction. Controller and emergency stop have the variables of
`PeerChild` in common; `PeersInv` says which of the two the process is, and its
invariant is that of either. The conclusions are the composite properties of the
run: `ComponentTypesOK`, `SignalsInOrder`, `HandlesCloseInOrder`,
`EngineConsistent`, `HostConsistent`, `StopsOnRecord`, `MediaKept`,
`SessionsAsPromised`, `BusConsistent`, `NobodyWaitsForNothing`, and, as
`PartsKeepTheirWord`, the others. `MediaStaysKept` assumes `OneWriter`, as its
part does: two tasks that meet at the first frame of a track both make an encoder.

`QueueLemmas` has what these proofs share: what is in a queue before and after
`Append`, `Tail`, `\o` and the drop of its oldest entries, where numbers rise, where
entries are distinct, and which entries form a run.

Only model-checked: liveness under fairness (`EveryRequestAnswered`,
`LossDetected`, `Rejoins`, `Settles`, `WaitersReturn`, `StopEndsRecording`,
`StreamWakes`, `ServerExits`), and `SdpWellFormed`, which says what `SelectSeq`
and folds over the lines of a description compute and would need induction over
data. Of four of the liveness properties a safety core is proved, that no step
forgets who waits: `SomebodyGoesOn` for `EveryRequestAnswered`, `SleepersWoken`
for `StreamWakes`, `ReadersReleased` and `CallAwaited` for `WaitersReturn`, and
`SettledWhenIdle` for `Settles`. That the fair steps then get there is left to
TLC. Proved under an assumption the run's constants meet: `LoadFindsLastSave` (one
saver), `MediaKept` (one writer), `EchoSuppressed` (no more messages than the
cache holds), `RepliesAsPromised` (no skewed session), `NobodyStalls` (a thread
for each task; without it, `SomebodyGoesOn`).

## 5. Plan

1. An abstract room (members and owner) that `SignalingServer` implements where no
   two hosts race, and a mailbox that delivers the newest value for `ConfigPush`,
   each with its refinement proved as `KeepsPromise` is.
2. Server: the Consume gate with `producer_owners`; `SignalingServer` and
   `SfuManager` composed; death of a mediasoup worker.
3. `Gateway` with several rooms (`rewrite_room`), and two gateways in one room.

## 6. Not modelled

Media relay, health and metrics, device registry, bus access control (single maps,
counters or pure functions); device capture, pixel conversion and FFmpeg; the
console; generated bindings; the legacy all-in-one host program; the hand-run
child sessions. Within the modelled parts: message contents, room names, TLS
settings, log output, error codes and string copies of the C interfaces,
statistics, keyframe requests and worker death of the SFU. The parts that surround
a component (libwebrtc, iceoryx2, oxmgr, the file system, the clock, the network)
are modelled as far as the code relies on them and are marked external in `map`.
