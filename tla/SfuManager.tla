----------------------------- MODULE SfuManager -----------------------------
(***************************************************************************)
(* The SFU side of one room (mediaservo-server/src/sfu.rs) as the session   *)
(* tasks of the signalling server drive it.                                 *)
(*                                                                          *)
(* SfuManager.rooms is a concurrent map whose locks block the thread that   *)
(* waits for them, and produce, consume and connect keep the room's lock    *)
(* while they await the mediasoup worker.  So the threads of the runtime    *)
(* are part of the model: a task needs one to run and gives it back at an   *)
(* await, but keeps it while it waits for a lock.                           *)
(***************************************************************************)
EXTENDS Naturals, FiniteSets

CONSTANTS Tasks,    \* session tasks
          None,     \* Option::None, and no task
          Peers,    \* peer ids SFU messages carry; sessions may share one
          Ops,      \* requests that are sent: subset of Requests
          Threads,  \* threads of the tokio runtime
          MaxReqs   \* bound: requests over a run

Requests == {"create", "connect", "produce", "consume", "produceData", "consumeData",
             "join", "rooms", "stats", "leave"}

ASSUME SfuAssumption ==
    /\ None \notin Tasks /\ Peers # {}
    /\ Ops \subseteq Requests
    /\ Threads \in Nat \ {0} /\ MaxReqs \in Nat

VARIABLES
    room,     \* SfuManager.rooms for the room, or NoRoom
    lock,     \* the task that holds the room's lock, or None
    pc,       \* where each task is
    req,      \* the request a task is handling
    busy,     \* the tasks that occupy a thread
    told,     \* [id, peer] of the transports answered WebRtcTransportCreated
    nreq      \* number of requests so far (bound and identity)

vars == <<room, lock, pc, req, busy, told, nreq>>

-----------------------------------------------------------------------------
NoRoom == [router |-> 0, transports |-> {}, producers |-> {}, consumers |-> {}]

Request == [op : Requests, peer : Peers, dir : {"send", "recv"}, id : Nat,
            named : Nat]

NoRequest == [op |-> "join", peer |-> CHOOSE p \in Peers : TRUE,
              dir |-> "send", id |-> 0, named |-> 0]

(* nth: where it stands among the transports of its peer.                   *)
Transport == [id : Nat, peer : Peers, dir : {"send", "recv"}, nth : Nat]

(* The peer has an entry in the room: every one is made with a transport.   *)
PeerKnown(p) == \E t \in room.transports : t.peer = p

(* mediasoup keeps media and data apart.                                     *)
Produces(r) == r.op \in {"produce", "produceData"}
Consumes(r) == r.op \in {"consume", "consumeData"}
OfData(r) == r.op \in {"produceData", "consumeData"}

(* Which transport a request means: connect names one, produce takes a send *)
(* and consume a recv transport, the one named or else the newest.          *)
Fits(r, t) ==
    /\ t.peer = r.peer
    /\ r.named = t.id \/ (r.named = 0 /\ r.op # "connect")
    /\ Produces(r) => t.dir = "send"
    /\ Consumes(r) => t.dir = "recv"

Candidates(r) == {t \in room.transports : Fits(r, t)}

Chosen(r) == {t \in Candidates(r) : \A u \in Candidates(r) : u.nth <= t.nth}

Init ==
    /\ room = NoRoom /\ lock = None /\ busy = {} /\ told = {} /\ nreq = 0
    /\ pc = [t \in Tasks |-> "idle"]
    /\ req = [t \in Tasks |-> NoRequest]

-----------------------------------------------------------------------------
(* Scheduling.                                                              *)

(* Requests that have a field for the id of a transport.                    *)
NamesTransport == {"connect", "produce", "consume", "produceData", "consumeData"}

(* A request arrives on a session's socket.  A client names a transport its *)
(* peer was told of, or none (0); only creation asks for a direction.       *)
Ask(t, op, p, d) ==
    /\ pc[t] = "idle"
    /\ nreq < MaxReqs
    /\ op # "create" => d = "send"
    /\ \E n \in {0} \cup {x.id : x \in {y \in told : y.peer = p /\ op \in NamesTransport}} :
           req' = [req EXCEPT ![t] = [op |-> op, peer |-> p, dir |-> d,
                                      id |-> nreq + 1, named |-> n]]
    /\ pc' = [pc EXCEPT ![t] = "asked"]
    /\ nreq' = nreq + 1
    /\ UNCHANGED <<room, lock, busy, told>>

(* The first thing a handler does with the map.                             *)
Entry(r) ==
    CASE r.op = "create" -> "find"
      [] Consumes(r) -> "look"
      [] r.op \in {"join", "rooms", "stats"} -> r.op
      [] r.op = "leave" -> "rmpeer"
      [] OTHER -> "acquire"

Resumed(w) ==
    CASE w = "router" -> "insert"
      [] w = "transport" -> "store"
      [] w = "worker" -> "finish"
      [] w = "tracing" -> "keep"
      [] w = "announce" -> "joinData"
      [] w = "measure" -> "measured"

(* A task that was woken, by its socket or by the answer of the mediasoup   *)
(* worker, is given a thread.                                               *)
Run(t) ==
    /\ pc[t] \in {"asked", "router", "transport", "worker", "tracing", "announce", "measure"}
    /\ Cardinality(busy) < Threads
    /\ busy' = busy \cup {t}
    /\ pc' = [pc EXCEPT ![t] =
                  IF @ = "asked" THEN Entry(req[t]) ELSE Resumed(@)]
    /\ UNCHANGED <<room, lock, req, told, nreq>>

(* A step of a running task that needs the room's lock; without it the      *)
(* thread blocks where it is.                                               *)
Locked(t, at) == pc[t] = at /\ lock = None

(* Back to the socket, or to an await: either way the thread is free.       *)
Yield(t, to) ==
    /\ pc' = [pc EXCEPT ![t] = to]
    /\ busy' = busy \ {t}

-----------------------------------------------------------------------------
(* create_webrtc_transport: the room is looked up, or made without looking  *)
(* again, and the transport stored in whatever room there is by then.       *)

(* Wrong variant: keeping the room while its router is asked.               *)
FindRoomLocking(t) ==
    /\ Locked(t, "find")
    /\ lock' = IF room = NoRoom THEN None ELSE t
    /\ Yield(t, IF room = NoRoom THEN "router" ELSE "transport")
    /\ UNCHANGED <<room, req, told, nreq>>

FindRoom(t) ==
    /\ Locked(t, "find")
    /\ Yield(t, IF room = NoRoom THEN "router" ELSE "transport")
    /\ UNCHANGED <<room, lock, req, told, nreq>>

InsertRoom(t) ==
    /\ Locked(t, "insert")
    /\ room' = [NoRoom EXCEPT !.router = req[t].id]
    /\ Yield(t, "transport")
    /\ UNCHANGED <<lock, req, told, nreq>>

StoreTransport(t) ==
    LET made == [id |-> req[t].id, peer |-> req[t].peer, dir |-> req[t].dir,
                 nth |-> Cardinality({x \in room.transports : x.peer = req[t].peer}) + 1]
    IN  /\ Locked(t, "store")
        /\ room' = IF room = NoRoom THEN room
                   ELSE [room EXCEPT !.transports = @ \cup {made}]
        /\ told' = told \cup {[id |-> made.id, peer |-> made.peer]}
        /\ Yield(t, "idle")
        /\ UNCHANGED <<lock, req, nreq>>

(* The 5 s timeout of CreateWebRtcTransport: it can only strike at an await.*)
TimeOut(t) ==
    /\ pc[t] \in {"router", "transport"}
    /\ Cardinality(busy) < Threads
    /\ pc' = [pc EXCEPT ![t] = "idle"]
    /\ UNCHANGED <<room, lock, req, busy, told, nreq>>

-----------------------------------------------------------------------------
(* create_producer and create_data_producer, create_consumer and            *)
(* create_data_consumer, connect_transport.                                 *)

(* The session may not: the answer is an Error and the SFU is not asked.    *)
Deny(t) ==
    /\ pc[t] \in {"look", "stats"} \/ (pc[t] = "acquire" /\ Produces(req[t]))
    /\ Yield(t, "idle")
    /\ UNCHANGED <<room, lock, req, told, nreq>>

(* A consumer first looks for its producer, under a lock of its own.        *)
LookForProducer(t) ==
    /\ Locked(t, "look")
    /\ IF ~\E x \in room.producers : x.data = OfData(req[t]) THEN Yield(t, "idle")
       ELSE pc' = [pc EXCEPT ![t] = "acquire"] /\ UNCHANGED busy
    /\ UNCHANGED <<room, lock, req, told, nreq>>

Refused(r) == Candidates(r) = {}

(* Wrong variant: letting the lock go while the worker is asked.            *)
AcquireBriefly(t) ==
    /\ Locked(t, "acquire")
    /\ \E c \in Chosen(req[t]) : req' = [req EXCEPT ![t].named = c.id]
    /\ Yield(t, "worker")
    /\ UNCHANGED <<room, lock, told, nreq>>

(* The room's lock is taken and kept while the mediasoup worker is asked.   *)
Acquire(t) ==
    /\ Locked(t, "acquire")
    /\ \E c \in Chosen(req[t]) : req' = [req EXCEPT ![t].named = c.id]
    /\ lock' = t
    /\ Yield(t, "worker")
    /\ UNCHANGED <<room, told, nreq>>

(* No room, peer or transport of that name: the answer is an Error.         *)
Refuse(t) ==
    /\ Locked(t, "acquire")
    /\ Refused(req[t])
    /\ Yield(t, "idle")
    /\ UNCHANGED <<room, lock, req, told, nreq>>

(* The worker answered, and the task still has the lock: its error is       *)
(* answered, or what it made is kept.                                       *)
Made(t) == [id |-> req[t].id, peer |-> req[t].peer, transport |-> req[t].named,
            data |-> OfData(req[t])]

Release(t) == lock' = None /\ Yield(t, "idle") /\ UNCHANGED <<req, told, nreq>>

WorkerFails(t) == pc[t] = "finish" /\ Release(t) /\ UNCHANGED room

FinishConnect(t) ==
    /\ pc[t] = "finish" /\ req[t].op = "connect"
    /\ Release(t) /\ UNCHANGED room

FinishProduce(t) ==
    /\ pc[t] = "finish" /\ req[t].op = "produce"
    /\ room' = [room EXCEPT !.producers = @ \cup {Made(t)}] /\ Release(t)

FinishProduceData(t) ==
    /\ pc[t] = "finish" /\ req[t].op = "produceData"
    /\ room' = [room EXCEPT !.producers = @ \cup {Made(t)}] /\ Release(t)

FinishConsumeData(t) ==
    /\ pc[t] = "finish" /\ req[t].op = "consumeData"
    /\ room' = [room EXCEPT !.consumers = @ \cup {Made(t)}] /\ Release(t)

(* A media consumer is traced, dumped and asked for a key frame first.      *)
TraceConsumer(t) ==
    /\ pc[t] = "finish" /\ req[t].op = "consume"
    /\ Yield(t, "tracing") /\ UNCHANGED <<room, lock, req, told, nreq>>

FinishConsume(t) ==
    /\ pc[t] = "keep"
    /\ room' = [room EXCEPT !.consumers = @ \cup {Made(t)}] /\ Release(t)

-----------------------------------------------------------------------------
(* Reading: list_producers and, after those are sent, list_data_producers   *)
(* for a joining session; list_rooms for the console; the statistics of a   *)
(* producer or consumer, asked for without the lock.                        *)
ListProducers(t) ==
    /\ Locked(t, "join") /\ Yield(t, "announce")
    /\ UNCHANGED <<room, lock, req, told, nreq>>

ListDataProducers(t) ==
    /\ Locked(t, "joinData") /\ Yield(t, "idle")
    /\ UNCHANGED <<room, lock, req, told, nreq>>

ListRooms(t) ==
    /\ Locked(t, "rooms") /\ Yield(t, "idle")
    /\ UNCHANGED <<room, lock, req, told, nreq>>

FindForStats(t) ==
    /\ Locked(t, "stats")
    /\ \/ room.producers \cup room.consumers # {} /\ Yield(t, "measure")
       \/ Yield(t, "idle")
    /\ UNCHANGED <<room, lock, req, told, nreq>>

AnswerStats(t) ==
    /\ pc[t] = "measured" /\ Yield(t, "idle")
    /\ UNCHANGED <<room, lock, req, told, nreq>>

-----------------------------------------------------------------------------
(* remove_peer, and the room with its last peer: the lock is let go before  *)
(* the room is removed.                                                     *)
Without(p) ==
    [room EXCEPT !.transports = {x \in @ : x.peer # p},
                 !.producers = {x \in @ : x.peer # p},
                 !.consumers = {x \in @ : x.peer # p}]

RemovePeer(t) ==
    LET rest == Without(req[t].peer)
    IN  /\ Locked(t, "rmpeer")
        /\ room' = rest
        /\ IF PeerKnown(req[t].peer) /\ rest.transports = {}
           THEN pc' = [pc EXCEPT ![t] = "rmroom"] /\ UNCHANGED busy
           ELSE Yield(t, "idle")
        /\ told' = {x \in told : x.peer # req[t].peer}
        /\ UNCHANGED <<lock, req, nreq>>

RemoveRoom(t) ==
    /\ Locked(t, "rmroom")
    /\ room' = NoRoom
    /\ Yield(t, "idle")
    /\ UNCHANGED <<lock, req, told, nreq>>

-----------------------------------------------------------------------------
Handle(t) ==
    \/ Run(t) \/ FindRoom(t) \/ InsertRoom(t) \/ StoreTransport(t)
    \/ Deny(t) \/ LookForProducer(t) \/ Acquire(t) \/ Refuse(t) \/ WorkerFails(t)
    \/ FinishConnect(t) \/ FinishProduce(t) \/ FinishProduceData(t)
    \/ FinishConsumeData(t) \/ TraceConsumer(t) \/ FinishConsume(t)
    \/ ListProducers(t) \/ ListDataProducers(t) \/ ListRooms(t)
    \/ FindForStats(t) \/ AnswerStats(t) \/ RemovePeer(t) \/ RemoveRoom(t)

Next ==
    \E t \in Tasks :
        \/ \E op \in Ops, p \in Peers, d \in {"send", "recv"} : Ask(t, op, p, d)
        \/ Handle(t)
        \/ TimeOut(t)

Spec == Init /\ [][Next]_vars

(* The mediasoup worker answers, the runtime gives a woken task a thread if *)
(* one stays free, and a lock that stays free is taken.                     *)
FairSpec == Spec /\ \A t \in Tasks : WF_vars(Handle(t))

-----------------------------------------------------------------------------
(* Properties.                                                              *)

Waiting == {"idle", "asked", "router", "transport", "worker", "tracing",
            "announce", "measure"}

Running == {"find", "insert", "store", "look", "acquire", "finish", "keep", "join",
            "joinData", "rooms", "stats", "measured", "rmpeer", "rmroom"}

(* The task keeps the lock while it asks the worker and until it is done.   *)
Holding == {"worker", "finish", "tracing", "keep"}

(* Every variable keeps its type; a task has a thread exactly while it runs *)
(* or waits for a lock, and keeps the lock only to ask the worker.          *)
TypeOK ==
    /\ room.transports \subseteq Transport
    /\ \A t \in Tasks : pc[t] \in Holding <=> lock = t
    /\ pc \in [Tasks -> Waiting \cup Running]
    /\ req \in [Tasks -> Request]
    /\ busy = {t \in Tasks : pc[t] \in Running}
    /\ Cardinality(busy) <= Threads
    /\ nreq \in 0 .. MaxReqs

(* What is recorded as a producer or consumer was made on a transport that  *)
(* is registered for the same peer in the same room, whatever was created,  *)
(* replaced or removed while the worker was asked (sfu.rs:139-155).         *)
BoundToOwnTransport ==
    \A x \in room.producers \cup room.consumers :
        \E t \in room.transports : t.id = x.transport /\ t.peer = x.peer

(* A transport a client was told of is still registered unless its peer was *)
(* removed: concurrent creations do not overwrite each other                *)
(* (sfu.rs:139-142).                                                        *)
TransportsKept == \A x \in told : \E t \in room.transports : t.id = x.id

(* Whatever waits for what: a task can go on when it runs and neither needs   *)
(* the lock nor finds it taken, or when it was woken and a thread is free.    *)
CanGoOn(t) ==
    IF pc[t] \in Running THEN pc[t] \in {"finish", "keep", "measured"} \/ lock = None
    ELSE pc[t] # "idle" /\ Cardinality(busy) < Threads

(* While a request is being handled some task can go on.  It takes as many    *)
(* threads as tasks: with fewer, all threads may come to block on the lock    *)
(* while its holder waits for one (sfu.rs:453).                               *)
NobodyStalls == (\E t \in Tasks : pc[t] # "idle") => \E t \in Tasks : CanGoOn(t)

(* Every SFU request is answered, exactly once (gateway.rs:12-13).          *)
EveryRequestAnswered == \A t \in Tasks : []<>(pc[t] = "idle")
=============================================================================
