--------------------------- MODULE TopicPublisher ---------------------------
(* mediaservo-link's frame bus, the publishing side of one topic: the buses   *)
(* attached in one process, the process-wide registry of active publishers,   *)
(* and iceoryx2, which grants one publisher across all processes.             *)
EXTENDS Naturals

CONSTANTS
  Nodes,          \* node ids attached in this process
  Elsewhere,      \* a publisher of another process
  NoNode          \* nobody publishes

ASSUME PublisherAssumption == Elsewhere \notin Nodes /\ NoNode \notin Nodes \cup {Elsewhere}

VARIABLES
  bus,            \* bus[n]: "up", "unregistered" inside close(), "closed", "dropped"
  publishing,     \* publishing[n]: how far publish() is
  holder,         \* iceoryx2: who has the topic's publisher
  mark            \* Registry: the topic's active publisher

publisherVars == <<bus, publishing, holder, mark>>

PublisherTypeOK ==
  /\ bus \in [Nodes -> {"up", "unregistered", "closed", "dropped"}]
  /\ publishing \in [Nodes -> {"idle", "checked", "sent"}]
  /\ holder \in Nodes \cup {Elsewhere, NoNode} /\ mark \in Nodes \cup {NoNode}

PublisherInit ==
  /\ bus = [n \in Nodes |-> "up"] /\ publishing = [n \in Nodes |-> "idle"]
  /\ holder = NoNode /\ mark = NoNode
----------------------------------------------------------------------------
(* publish(): the registry is asked, the publisher made or found and the      *)
(* frame sent, the registry told; other nodes may come in between.            *)
PublishGoes(n, there) == publishing' = [publishing EXCEPT ![n] = there]

CheckPublisher(n) ==
  /\ bus[n] = "up" /\ publishing[n] = "idle"
  /\ mark \in {NoNode, n}                           \* else TopicConflict
  /\ PublishGoes(n, "checked")
  /\ UNCHANGED <<bus, holder, mark>>

SendFrame(n) ==
  /\ publishing[n] = "checked"
  /\ holder \in {NoNode, n}
  /\ holder' = n
  /\ PublishGoes(n, "sent")
  /\ UNCHANGED <<bus, mark>>

(* Another node or another process has it: TopicConflict; or the publisher is *)
(* made, and the loan or the send fails.                                      *)
PublishFails(n) ==
  /\ publishing[n] = "checked"
  /\ PublishGoes(n, "idle")
  /\ holder' = IF holder \in {NoNode, n} THEN n ELSE holder
  /\ UNCHANGED <<bus, mark>>

MarkPublisher(n) ==
  /\ publishing[n] = "sent"
  /\ mark' = n
  /\ PublishGoes(n, "idle")
  /\ UNCHANGED <<bus, holder>>

(* close() unregisters, then the bus and its publishers are dropped. A bus    *)
(* dropped without it leaves its entry in the registry.                       *)
ReleasedBy(n) == IF holder = n THEN NoNode ELSE holder

(* Wrong variant: close() lets go before it unregisters.                     *)
CloseBusReleasing(n) ==
  /\ bus[n] = "up" /\ publishing[n] = "idle"
  /\ bus' = [bus EXCEPT ![n] = "unregistered"]
  /\ holder' = ReleasedBy(n)
  /\ UNCHANGED <<publishing, mark>>

CloseBus(n) ==
  /\ bus[n] = "up" /\ publishing[n] = "idle"
  /\ bus' = [bus EXCEPT ![n] = "unregistered"]
  /\ mark' = IF mark = n THEN NoNode ELSE mark
  /\ UNCHANGED <<publishing, holder>>

ReleasePublisher(n) ==
  /\ bus[n] = "unregistered"
  /\ bus' = [bus EXCEPT ![n] = "closed"]
  /\ holder' = ReleasedBy(n)
  /\ UNCHANGED <<publishing, mark>>

DropBus(n) ==
  /\ bus[n] = "up" /\ publishing[n] = "idle"
  /\ bus' = [bus EXCEPT ![n] = "dropped"]
  /\ holder' = ReleasedBy(n)
  /\ UNCHANGED <<publishing, mark>>

(* A publisher of another process comes and goes.                             *)
OtherPublisher ==
  /\ \/ holder = NoNode /\ holder' = Elsewhere
     \/ holder = Elsewhere /\ holder' = NoNode
  /\ UNCHANGED <<bus, publishing, mark>>

PublishStep(n) ==
  \/ CheckPublisher(n) \/ SendFrame(n) \/ PublishFails(n) \/ MarkPublisher(n)
  \/ CloseBus(n) \/ ReleasePublisher(n) \/ DropBus(n)
PublisherNext == (\E n \in Nodes : PublishStep(n)) \/ OtherPublisher
PublisherSpec == PublisherInit /\ [][PublisherNext]_publisherVars
----------------------------------------------------------------------------
(* The node the registry names as the topic's publisher has the publisher, as *)
(* long as its bus is there: whoever the quick check refuses would be refused *)
(* by iceoryx2 too, however publish() and close() of the buses interleave.    *)
MarkHolds == \A n \in Nodes : mark = n /\ bus[n] # "dropped" => holder = n
=============================================================================
