------------------------------ MODULE SfuProofs ------------------------------
(* Theorems about the SFU side of a room, for any number of session tasks,    *)
(* runtime threads, peers and requests.                                       *)
EXTENDS SfuManager, FiniteSetTheorems, TLAPS

Item == [id : Nat, peer : Peers, transport : Nat, data : BOOLEAN]

RoomType == [router : Nat, transports : SUBSET Transport,
             producers : SUBSET Item, consumers : SUBSET Item]

StateOK ==
    /\ room \in RoomType /\ IsFiniteSet(room.transports)
    /\ lock \in Tasks \cup {None}
    /\ pc \in [Tasks -> Waiting \cup Running]
    /\ req \in [Tasks -> Request]
    /\ told \subseteq [id : Nat, peer : Peers]
    /\ nreq \in 0 .. MaxReqs

LockOK == \A t \in Tasks : pc[t] \in Holding <=> lock = t

ThreadsOK ==
    /\ busy = {t \in Tasks : pc[t] \in Running}
    /\ IsFiniteSet(busy) /\ Cardinality(busy) <= Threads

(* A task that has the lock means a transport of its peer that is registered: *)
(* nobody else changes the room until it is done.                             *)
HoldersOK ==
    \A t \in Tasks : pc[t] \in Holding =>
        \E x \in room.transports : x.id = req[t].named /\ x.peer = req[t].peer

SfuInv == StateOK /\ LockOK /\ ThreadsOK /\ HoldersOK /\ BoundToOwnTransport

-----------------------------------------------------------------------------
LEMMA NoRequestType == NoRequest \in Request
BY SfuAssumption DEF NoRequest, Request, Requests

LEMMA SfuInitInv == Init => SfuInv
<1> SUFFICES ASSUME Init PROVE SfuInv
  OBVIOUS
<1>1. StateOK
  BY NoRequestType, FS_EmptySet, SfuAssumption
     DEF Init, StateOK, RoomType, NoRoom, Waiting
<1>2. LockOK /\ HoldersOK
  BY SfuAssumption DEF Init, LockOK, HoldersOK, Holding
<1>3. ThreadsOK
  BY FS_EmptySet, SfuAssumption DEF Init, ThreadsOK, Running
<1>4. BoundToOwnTransport
  BY DEF Init, BoundToOwnTransport, NoRoom
<1> QED
  BY <1>1, <1>2, <1>3, <1>4 DEF SfuInv

-----------------------------------------------------------------------------
(* Threads.  A task is given one by Run and gives it back when it waits.      *)
LEMMA YieldFrees ==
    ASSUME ThreadsOK, pc \in [Tasks -> Waiting \cup Running],
           NEW t \in Tasks, NEW to \in Waiting, Yield(t, to)
    PROVE  ThreadsOK'
<1>1. busy' = {u \in Tasks : pc'[u] \in Running}
  BY DEF ThreadsOK, Yield, Waiting, Running
<1>2. IsFiniteSet(busy') /\ Cardinality(busy') <= Cardinality(busy)
  BY FS_Subset DEF ThreadsOK, Yield
<1>3. Cardinality(busy) \in Nat /\ Cardinality(busy') \in Nat
  BY <1>2, FS_CardinalityType DEF ThreadsOK
<1> QED
  BY <1>1, <1>2, <1>3, SfuAssumption DEF ThreadsOK

LEMMA GoesOn ==
    ASSUME ThreadsOK, pc \in [Tasks -> Waiting \cup Running], busy' = busy,
           NEW t \in Tasks, NEW to \in Waiting \cup Running,
           pc' = [pc EXCEPT ![t] = to], pc[t] \in Running <=> to \in Running
    PROVE  ThreadsOK'
<1>1. {u \in Tasks : pc'[u] \in Running} = {u \in Tasks : pc[u] \in Running}
  OBVIOUS
<1> QED
  BY <1>1 DEF ThreadsOK

LEMMA RunTakes ==
    ASSUME ThreadsOK, pc \in [Tasks -> Waiting \cup Running], NEW t \in Tasks,
           Cardinality(busy) < Threads, busy' = busy \cup {t},
           NEW to \in Running, pc' = [pc EXCEPT ![t] = to]
    PROVE  ThreadsOK'
<1>1. busy' = {u \in Tasks : pc'[u] \in Running}
  BY DEF ThreadsOK
<1>2. /\ IsFiniteSet(busy')
      /\ Cardinality(busy') = IF t \in busy THEN Cardinality(busy)
                              ELSE Cardinality(busy) + 1
  BY FS_AddElement DEF ThreadsOK
<1>3. Cardinality(busy) \in Nat
  BY FS_CardinalityType DEF ThreadsOK
<1> QED
  BY <1>1, <1>2, <1>3, SfuAssumption DEF ThreadsOK

LEMMA EntryRuns ==
    ASSUME NEW r \in Request
    PROVE  Entry(r) \in Running \ Holding
BY DEF Entry, Consumes, Request, Requests, Running, Holding

LEMMA ResumedRuns ==
    ASSUME NEW w \in {"router", "transport", "worker", "tracing", "announce", "measure"}
    PROVE  Resumed(w) \in Running /\ (Resumed(w) \in Holding <=> w \in Holding)
BY DEF Resumed, Running, Holding

-----------------------------------------------------------------------------
(* Steps that leave the room and the requests alone, and pass no lock.        *)
LEMMA QuietStep ==
    ASSUME SfuInv, ThreadsOK', NEW t \in Tasks, NEW to \in Waiting \cup Running,
           pc' = [pc EXCEPT ![t] = to], pc[t] \in Holding <=> to \in Holding,
           UNCHANGED <<room, lock, req, told, nreq>>
    PROVE  SfuInv'
<1> USE DEF SfuInv
<1>1. StateOK'
  BY DEF StateOK
<1>2. LockOK' /\ HoldersOK'
  BY DEF StateOK, LockOK, HoldersOK
<1>3. BoundToOwnTransport'
  BY DEF BoundToOwnTransport
<1> QED
  BY <1>1, <1>2, <1>3

(* ... of which most are a task giving its thread back without the lock.      *)
LEMMA QuietYield ==
    ASSUME SfuInv, NEW t \in Tasks, NEW to \in Waiting, Yield(t, to),
           pc[t] \in Holding <=> to \in Holding,
           UNCHANGED <<room, lock, req, told, nreq>>
    PROVE  SfuInv'
<1>1. ThreadsOK'
  BY YieldFrees DEF SfuInv, StateOK
<1> QED
  BY <1>1, QuietStep DEF Yield

(* The task that has the lock lets it go, and may keep what it made.          *)
LEMMA ReleaseStep ==
    ASSUME SfuInv, NEW t \in Tasks, pc[t] \in Holding, Release(t),
           \/ room' = room
           \/ room' = [room EXCEPT !.producers = @ \cup {Made(t)}]
           \/ room' = [room EXCEPT !.consumers = @ \cup {Made(t)}]
    PROVE  SfuInv'
<1> USE DEF SfuInv, Release
<1>1. Made(t) \in Item
  BY DEF Made, Item, OfData, StateOK, Request
<1>2. /\ room' \in RoomType /\ room'.transports = room.transports
      /\ room'.producers \subseteq room.producers \cup {Made(t)}
      /\ room'.consumers \subseteq room.consumers \cup {Made(t)}
  BY <1>1 DEF StateOK, RoomType
<1>3. StateOK'
  BY <1>2 DEF StateOK, Yield, Waiting
<1>4. LockOK' /\ HoldersOK'
  BY <1>2, SfuAssumption DEF StateOK, LockOK, HoldersOK, Yield, Holding
<1>5. ThreadsOK'
  BY YieldFrees DEF StateOK, Waiting
<1>6. \E x \in room.transports : x.id = Made(t).transport /\ x.peer = Made(t).peer
  BY DEF HoldersOK, Made
<1>7. BoundToOwnTransport'
  BY <1>2, <1>6 DEF BoundToOwnTransport
<1> QED
  BY <1>3, <1>4, <1>5, <1>7

-----------------------------------------------------------------------------
LEMMA AskStep ==
    ASSUME SfuInv, NEW t \in Tasks, NEW op \in Ops, NEW p \in Peers,
           NEW d \in {"send", "recv"}, Ask(t, op, p, d)
    PROVE  SfuInv'
<1> USE DEF SfuInv
<1>1. PICK n \in {0} \cup {x.id : x \in {y \in told : y.peer = p}} :
          req' = [req EXCEPT ![t] = [op |-> op, peer |-> p, dir |-> d,
                                     id |-> nreq + 1, named |-> n]]
  BY DEF Ask
<1>2. n \in Nat
  BY <1>1 DEF StateOK
<1>3. [op |-> op, peer |-> p, dir |-> d, id |-> nreq + 1, named |-> n] \in Request
  BY <1>2, SfuAssumption DEF StateOK, Request
<1>4. StateOK'
  BY <1>1, <1>3, SfuAssumption DEF Ask, StateOK, Waiting
<1>5. LockOK' /\ HoldersOK'
  BY <1>1 DEF Ask, StateOK, LockOK, HoldersOK, Holding
<1>6. ThreadsOK'
  BY GoesOn DEF Ask, StateOK, Waiting, Running
<1>7. BoundToOwnTransport'
  BY DEF Ask, BoundToOwnTransport
<1> QED
  BY <1>4, <1>5, <1>6, <1>7

LEMMA RunStep ==
    ASSUME SfuInv, NEW t \in Tasks, Run(t)
    PROVE  SfuInv'
<1> DEFINE to == IF pc[t] = "asked" THEN Entry(req[t]) ELSE Resumed(pc[t])
<1>1. to \in Running /\ (pc[t] \in Holding <=> to \in Holding)
  BY EntryRuns, ResumedRuns DEF SfuInv, StateOK, Run, Holding
<1>2. pc' = [pc EXCEPT ![t] = to]
  BY DEF Run, SfuInv, StateOK
<1>3. ThreadsOK'
  BY <1>1, <1>2, RunTakes DEF Run, SfuInv, StateOK
<1> HIDE DEF to
<1> QED
  BY <1>1, <1>2, <1>3, QuietStep DEF Run

LEMMA InsertRoomStep ==
    ASSUME SfuInv, NEW t \in Tasks, InsertRoom(t)
    PROVE  SfuInv'
<1> USE DEF SfuInv
<1>1. room' \in RoomType /\ room'.transports = {} /\ room'.producers = {}
      /\ room'.consumers = {}
  BY DEF InsertRoom, NoRoom, RoomType, StateOK, Request
<1>2. StateOK'
  BY <1>1, FS_EmptySet DEF InsertRoom, StateOK, Yield, Waiting
<1>3. LockOK' /\ HoldersOK'
  BY SfuAssumption DEF InsertRoom, Locked, StateOK, LockOK, HoldersOK, Yield, Holding
<1>4. ThreadsOK'
  BY YieldFrees DEF InsertRoom, StateOK, Waiting
<1>5. BoundToOwnTransport'
  BY <1>1 DEF BoundToOwnTransport
<1> QED
  BY <1>2, <1>3, <1>4, <1>5

(* Storing only adds a transport, or does nothing where there is no room.     *)
LEMMA StoreTransportStep ==
    ASSUME SfuInv, NEW t \in Tasks, StoreTransport(t)
    PROVE  SfuInv'
<1> USE DEF SfuInv
<1> DEFINE own == {x \in room.transports : x.peer = req[t].peer}
           made == [id |-> req[t].id, peer |-> req[t].peer, dir |-> req[t].dir,
                    nth |-> Cardinality(own) + 1]
<1>1. Cardinality(own) \in Nat
  BY FS_Subset, FS_CardinalityType DEF StateOK
<1>2. made \in Transport
  BY <1>1 DEF Transport, StateOK, Request
<1>3. /\ room' = IF room = NoRoom THEN room
                 ELSE [room EXCEPT !.transports = @ \cup {made}]
      /\ told' = told \cup {[id |-> made.id, peer |-> made.peer]}
  BY DEF StoreTransport
<1>4. made.id \in Nat /\ made.peer \in Peers
  BY DEF StateOK, Request
<1> HIDE DEF made, own
<1>5. /\ room' \in RoomType
      /\ room'.transports = room.transports \/ room'.transports = room.transports \cup {made}
      /\ room'.producers = room.producers /\ room'.consumers = room.consumers
  BY <1>2, <1>3 DEF StateOK, RoomType
<1>6. IsFiniteSet(room'.transports)
  <2>1. IsFiniteSet(room.transports \cup {made})
    BY FS_AddElement DEF StateOK
  <2> QED
    BY <1>5, <2>1 DEF StateOK
<1>7. told' \subseteq [id : Nat, peer : Peers]
  BY <1>3, <1>4 DEF StateOK
<1>8. StateOK'
  BY <1>5, <1>6, <1>7 DEF StoreTransport, StateOK, Yield, Waiting
<1>9. LockOK' /\ HoldersOK'
  BY SfuAssumption DEF StoreTransport, Locked, StateOK, LockOK, HoldersOK, Yield, Holding
<1>10. ThreadsOK'
  BY YieldFrees DEF StoreTransport, StateOK, Waiting
<1>11. BoundToOwnTransport'
  BY <1>5 DEF BoundToOwnTransport
<1> QED
  BY <1>8, <1>9, <1>10, <1>11

(* The lock is taken together with the choice of a transport of the peer.     *)
LEMMA AcquireStep ==
    ASSUME SfuInv, NEW t \in Tasks, Acquire(t)
    PROVE  SfuInv'
<1> USE DEF SfuInv
<1>1. PICK c \in Chosen(req[t]) : req' = [req EXCEPT ![t].named = c.id]
  BY DEF Acquire
<1>2. c \in room.transports /\ c.peer = req[t].peer /\ c \in Transport
  BY <1>1 DEF Chosen, Candidates, Fits, StateOK, RoomType
<1>3. req' \in [Tasks -> Request]
  BY <1>1, <1>2 DEF StateOK, Request, Transport
<1>4. StateOK'
  BY <1>3 DEF Acquire, StateOK, Yield, Waiting
<1>5. LockOK'
  BY SfuAssumption DEF Acquire, Locked, StateOK, LockOK, Yield, Holding
<1>6. req'[t].named = c.id /\ req'[t].peer = req[t].peer
  BY <1>1 DEF StateOK, Request
<1>7. HoldersOK'
  BY <1>2, <1>5, <1>6 DEF Acquire, StateOK, LockOK, HoldersOK
<1>8. ThreadsOK'
  BY YieldFrees DEF Acquire, StateOK, Waiting
<1>9. BoundToOwnTransport'
  BY DEF Acquire, BoundToOwnTransport
<1> QED
  BY <1>4, <1>5, <1>7, <1>8, <1>9

(* A peer is removed with all it has, while nobody has the lock.              *)
LEMMA RemovePeerStep ==
    ASSUME SfuInv, NEW t \in Tasks, RemovePeer(t)
    PROVE  SfuInv'
<1> USE DEF SfuInv
<1> DEFINE p == req[t].peer
<1>1. /\ room' \in RoomType
      /\ room'.transports = {x \in room.transports : x.peer # p}
      /\ room'.producers = {x \in room.producers : x.peer # p}
      /\ room'.consumers = {x \in room.consumers : x.peer # p}
  BY DEF RemovePeer, Without, StateOK, RoomType
<1>2. IsFiniteSet(room'.transports)
  BY <1>1, FS_Subset DEF StateOK
<1>3. PICK to \in {"rmroom", "idle"} :
          /\ pc' = [pc EXCEPT ![t] = to]
          /\ to = "rmroom" => busy' = busy
          /\ to = "idle" => Yield(t, to)
  BY DEF RemovePeer, Yield
<1>4. StateOK'
  BY <1>1, <1>2, <1>3 DEF RemovePeer, StateOK, Waiting, Running
<1>5. LockOK' /\ HoldersOK'
  BY <1>3, SfuAssumption DEF RemovePeer, Locked, StateOK, LockOK, HoldersOK, Holding
<1>6. ThreadsOK'
  BY <1>3, YieldFrees, GoesOn DEF RemovePeer, Locked, StateOK, Waiting, Running
<1>7. BoundToOwnTransport'
  BY <1>1 DEF BoundToOwnTransport
<1> QED
  BY <1>4, <1>5, <1>6, <1>7

LEMMA RemoveRoomStep ==
    ASSUME SfuInv, NEW t \in Tasks, RemoveRoom(t)
    PROVE  SfuInv'
<1> USE DEF SfuInv
<1>1. room' \in RoomType /\ room'.transports = {} /\ room'.producers = {}
      /\ room'.consumers = {}
  BY DEF RemoveRoom, NoRoom, RoomType
<1>2. StateOK'
  BY <1>1, FS_EmptySet DEF RemoveRoom, StateOK, Yield, Waiting
<1>3. LockOK' /\ HoldersOK'
  BY SfuAssumption DEF RemoveRoom, Locked, StateOK, LockOK, HoldersOK, Yield, Holding
<1>4. ThreadsOK'
  BY YieldFrees DEF RemoveRoom, StateOK, Waiting
<1>5. BoundToOwnTransport'
  BY <1>1 DEF BoundToOwnTransport
<1> QED
  BY <1>2, <1>3, <1>4, <1>5

-----------------------------------------------------------------------------
LEMMA HandleStep ==
    ASSUME SfuInv, NEW t \in Tasks, Handle(t)
    PROVE  SfuInv'
<1>1. CASE Run(t)
  BY <1>1, RunStep
<1>2. CASE FindRoom(t)
  BY <1>2, QuietYield DEF FindRoom, Locked, Waiting, Holding
<1>3. CASE InsertRoom(t)
  BY <1>3, InsertRoomStep
<1>4. CASE StoreTransport(t)
  BY <1>4, StoreTransportStep
<1>5. CASE Deny(t)
  BY <1>5, QuietYield DEF Deny, Waiting, Holding
<1>6. CASE LookForProducer(t)
  <2>1. CASE Yield(t, "idle")
    BY <1>6, <2>1, QuietYield DEF LookForProducer, Locked, Waiting, Holding
  <2>2. CASE pc' = [pc EXCEPT ![t] = "acquire"] /\ UNCHANGED busy
    <3>1. ThreadsOK'
      BY <1>6, <2>2, GoesOn DEF LookForProducer, Locked, SfuInv, StateOK, Running
    <3> QED
      BY <1>6, <2>2, <3>1, QuietStep DEF LookForProducer, Locked, Running, Holding
  <2> QED
    BY <1>6, <2>1, <2>2 DEF LookForProducer
<1>7. CASE Acquire(t)
  BY <1>7, AcquireStep
<1>8. CASE Refuse(t)
  BY <1>8, QuietYield DEF Refuse, Locked, Waiting, Holding
<1>9. CASE WorkerFails(t) \/ FinishConnect(t)
  BY <1>9, ReleaseStep DEF WorkerFails, FinishConnect, Holding
<1>10. CASE FinishProduce(t) \/ FinishProduceData(t)
  BY <1>10, ReleaseStep DEF FinishProduce, FinishProduceData, Holding
<1>11. CASE FinishConsumeData(t) \/ FinishConsume(t)
  BY <1>11, ReleaseStep DEF FinishConsumeData, FinishConsume, Holding
<1>12. CASE TraceConsumer(t)
  BY <1>12, QuietYield DEF TraceConsumer, Waiting, Holding
<1>13. CASE ListProducers(t) \/ ListDataProducers(t) \/ ListRooms(t)
  BY <1>13, QuietYield
     DEF ListProducers, ListDataProducers, ListRooms, Locked, Waiting, Holding
<1>14. CASE FindForStats(t) \/ AnswerStats(t)
  BY <1>14, QuietYield DEF FindForStats, AnswerStats, Locked, Waiting, Holding
<1>15. CASE RemovePeer(t)
  BY <1>15, RemovePeerStep
<1>16. CASE RemoveRoom(t)
  BY <1>16, RemoveRoomStep
<1> QED
  BY <1>1, <1>2, <1>3, <1>4, <1>5, <1>6, <1>7, <1>8, <1>9, <1>10, <1>11, <1>12,
     <1>13, <1>14, <1>15, <1>16 DEF Handle

LEMMA SfuStep == SfuInv /\ [Next]_vars => SfuInv'
<1> SUFFICES ASSUME SfuInv, [Next]_vars PROVE SfuInv'
  OBVIOUS
<1>1. ASSUME NEW t \in Tasks, NEW op \in Ops, NEW p \in Peers,
             NEW d \in {"send", "recv"}, Ask(t, op, p, d)
      PROVE  SfuInv'
  BY <1>1, AskStep
<1>2. ASSUME NEW t \in Tasks, Handle(t) PROVE SfuInv'
  BY <1>2, HandleStep
<1>3. ASSUME NEW t \in Tasks, TimeOut(t) PROVE SfuInv'
  <2>1. ThreadsOK'
    BY <1>3, GoesOn DEF TimeOut, SfuInv, StateOK, Waiting, Running
  <2> QED
    BY <1>3, <2>1, QuietStep DEF TimeOut, Waiting, Holding
<1>4. CASE UNCHANGED vars
  BY <1>4 DEF vars, SfuInv, StateOK, LockOK, ThreadsOK, HoldersOK, BoundToOwnTransport
<1> QED
  BY <1>1, <1>2, <1>3, <1>4 DEF Next

-----------------------------------------------------------------------------
(* Types, threads and the lock: a task occupies a thread exactly while it     *)
(* runs or waits for a lock, no more threads are occupied than there are, and *)
(* the room's lock is kept exactly while the mediasoup worker is asked        *)
(* (sfu.rs create_producer, create_consumer, connect_transport).              *)
THEOREM SfuTypesAndLock == Spec => []TypeOK
<1>1. SfuInv => TypeOK
  BY DEF SfuInv, StateOK, LockOK, ThreadsOK, TypeOK, RoomType
<1> QED
  BY SfuInitInv, SfuStep, <1>1, PTL DEF Spec

(* Every producer and consumer the room records was made on a transport that  *)
(* is registered for the same peer (sfu.rs:139-155), for any number of        *)
(* sessions, peers and concurrent requests.                                   *)
THEOREM BoundToOwnTransportHolds == Spec => []BoundToOwnTransport
<1>1. SfuInv => BoundToOwnTransport
  BY DEF SfuInv
<1> QED
  BY SfuInitInv, SfuStep, <1>1, PTL DEF Spec

(* The one way to stall: every thread is occupied by a task that waits for    *)
(* the lock, and the task that keeps it waits for a thread.                   *)
StalledOnLock ==
    /\ lock \in Tasks /\ pc[lock] \in {"worker", "tracing"}
    /\ Cardinality(busy) = Threads
    /\ \A t \in busy : pc[t] \in Running \ {"finish", "keep", "measured"}

LEMMA SomeThreadRuns ==
    ASSUME ThreadsOK, ~(Cardinality(busy) < Threads)
    PROVE  Cardinality(busy) = Threads /\ \E t \in Tasks : t \in busy
<1>1. Cardinality(busy) \in Nat /\ Cardinality(busy) <= Threads /\ Threads \in Nat \ {0}
  BY FS_CardinalityType, SfuAssumption DEF ThreadsOK
<1>2. busy # {}
  BY <1>1, FS_EmptySet
<1> QED
  BY <1>1, <1>2 DEF ThreadsOK

(* While a request is being handled some task can go on, but for one case:    *)
(* all threads wait for the room's lock, which is kept over an await          *)
(* (sfu.rs:453 and its like), and its holder, answered by the worker, finds   *)
(* no thread to go on.  Nothing else stops the tasks, however many they and   *)
(* the threads are, and whatever is asked in whatever order.                  *)
THEOREM SomebodyGoesOn == Spec => [](NobodyStalls \/ StalledOnLock)
<1>1. SfuInv => NobodyStalls \/ StalledOnLock
  <2> SUFFICES ASSUME SfuInv, NEW s \in Tasks, pc[s] # "idle", ~StalledOnLock
               PROVE  \E t \in Tasks : CanGoOn(t)
    BY DEF NobodyStalls
  <2>0. \A t \in busy : t \in Tasks /\ pc[t] \in Running
    BY DEF SfuInv, ThreadsOK
  <2>1. CASE lock = None
    <3>1. CASE pc[s] \in Running \/ Cardinality(busy) < Threads
      BY <2>1, <3>1 DEF CanGoOn
    <3>2. CASE ~(Cardinality(busy) < Threads)
      BY <2>0, <2>1, <3>2, SomeThreadRuns DEF CanGoOn, SfuInv
    <3> QED
      BY <3>1, <3>2
  <2>2. CASE lock # None
    <3>1. lock \in Tasks /\ pc[lock] \in Holding
      BY <2>2 DEF SfuInv, StateOK, LockOK
    <3>2. CASE pc[lock] \in {"finish", "keep"}
      BY <3>1, <3>2 DEF CanGoOn, Running
    <3>3. CASE pc[lock] \in {"worker", "tracing"}
      <4>1. pc[lock] \notin Running /\ pc[lock] # "idle"
        BY <3>3 DEF Running
      <4>2. CASE Cardinality(busy) < Threads
        BY <3>1, <4>1, <4>2 DEF CanGoOn
      <4>3. CASE ~(Cardinality(busy) < Threads)
        <5>1. Cardinality(busy) = Threads
          BY <4>3, SomeThreadRuns DEF SfuInv
        <5>2. PICK t \in busy : pc[t] \notin Running \ {"finish", "keep", "measured"}
          BY <3>1, <3>3, <5>1 DEF StalledOnLock
        <5> QED
          BY <2>0, <5>2 DEF CanGoOn
      <4> QED
        BY <4>2, <4>3
    <3> QED
      BY <3>1, <3>2, <3>3 DEF Holding
  <2> QED
    BY <2>1, <2>2
<1> QED
  BY SfuInitInv, SfuStep, <1>1, PTL DEF Spec

(* With as many threads as tasks the holder of the lock finds one.            *)
EnoughThreads == IsFiniteSet(Tasks) /\ Cardinality(Tasks) <= Threads

LEMMA ThreadLeft ==
    ASSUME ThreadsOK, EnoughThreads, NEW t \in Tasks, pc[t] \notin Running
    PROVE  Cardinality(busy) < Threads
<1>1. busy \subseteq Tasks \ {t}
  BY DEF ThreadsOK
<1>2. IsFiniteSet(Tasks \ {t}) /\ Cardinality(Tasks \ {t}) = Cardinality(Tasks) - 1
  BY FS_RemoveElement DEF EnoughThreads
<1>3. IsFiniteSet(busy) /\ Cardinality(busy) <= Cardinality(Tasks \ {t})
  BY <1>1, <1>2, FS_Subset
<1>4. Cardinality(busy) \in Nat /\ Cardinality(Tasks) \in Nat
  BY <1>3, FS_CardinalityType DEF EnoughThreads
<1> QED
  BY <1>2, <1>3, <1>4, SfuAssumption DEF EnoughThreads

(* As long as there are as many threads as tasks, locks kept over an await    *)
(* stop nobody.  One thread less and the run sfu_stall shows them all stopped.*)
COROLLARY NobodyStallsWithThreads == EnoughThreads /\ Spec => []NobodyStalls
<1> SUFFICES ASSUME EnoughThreads PROVE Spec => []NobodyStalls
  OBVIOUS
<1>1. SfuInv => ~StalledOnLock
  <2> SUFFICES ASSUME SfuInv, StalledOnLock PROVE FALSE
    OBVIOUS
  <2>1. pc[lock] \notin Running
    BY DEF StalledOnLock, Running
  <2>2. Cardinality(busy) < Threads
    BY <2>1, ThreadLeft DEF SfuInv, StalledOnLock
  <2> QED
    BY <2>2, SfuAssumption DEF StalledOnLock
<1> QED
  BY SfuInitInv, SfuStep, SomebodyGoesOn, <1>1, PTL DEF Spec
=============================================================================
