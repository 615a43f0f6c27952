----------------------------- MODULE RoomProofs -----------------------------
(* Theorems about one room of the signalling server, for any number of        *)
(* sessions, devices, clients and messages, and whatever the administrator    *)
(* does to the room under them.                                               *)
EXTENDS SignalingServer, SequenceTheorems, TLAPS

(* Where a session is that may have a place in the room; one that has not     *)
(* dropped the empty room yet; and one that will still look for the room.     *)
Inside == {"register", "replay", "subscribe", "sync", "syncdata", "relay", "send",
           "cache", "announce", "type", "host", "remove"}

ToRetain == Inside \cup {"retain"}

ToLook == ToRetain \cup {"gone"}

(* Places.  A room that is there has a session that will drop it when it is   *)
(* empty, whoever was kicked and whatever the administrator removed.          *)
PlacesOK ==
    /\ \A s \in Sess : s \in Members(room) => pc[s] \in Inside
    /\ room # NoRoom => \E s \in Sess : pc[s] \in ToRetain

(* Bindings are made by the joining and released by the leaving; only a       *)
(* session past its subscription is subscribed.                               *)
BoundAt == {"replay", "subscribe", "sync", "syncdata", "relay", "send", "cache",
            "announce", "type", "host", "remove", "retain", "gone"}

SubAt == {"sync", "syncdata", "relay", "send", "cache", "announce"}

HoldingsOK ==
    \A s \in Sess : /\ bound[s] # None => pc[s] \in BoundAt
                    /\ s \in sub => pc[s] \in SubAt

(* What is left of the room has somebody who will remove it: a session that   *)
(* has yet to look whether the room is gone, or one that found it gone and    *)
(* has not come to that part of the clean-up.                                 *)
Cleans(s, steps) ==
    \/ pc[s] \in ToLook \cup steps
    \/ pc[s] \in {"drop", "redrop"} /\ gone[s]

ResidueOK ==
    /\ producers # {} => \E s \in Sess : Cleans(s, {"sfu"})
    /\ status # None => \E s \in Sess : Cleans(s, {"sfu", "status"})
    /\ owner # None => \E s \in Sess : Cleans(s, {"sfu", "status", "owner"})

RoomInv == TypeOK /\ PlacesOK /\ HoldingsOK /\ ResidueOK

(* Messages.  An identity is given once; a message that is still to be sent   *)
(* is neither cached nor written to any socket, and nothing was relayed to a  *)
(* session before it subscribed.                                              *)
Message == [kind : {"nego", "frame"}, id : Nat]

MessagesOK ==
    /\ nmsg \in Nat /\ cached \in Seq(Message) /\ DOMAIN held = Sess
    /\ \A p \in producers : p.kind \in {"media", "data"} /\ p.id \in 1 .. nmsg
    /\ \A m \in Cache : m.id \in 1 .. nmsg
    /\ \A s \in Sess :
        /\ \A m \in direct[s] : m.id \in 1 .. nmsg
        /\ pc[s] \in {"idle", "check", "lookup", "insert", "register", "replay",
                      "subscribe"} => relayed[s] = {}
        /\ s \in sub => pc[s] \in SubAt
        /\ pc[s] = "announce" => held[s].kind \in {"media", "data"}
        /\ pc[s] \in {"send", "cache"} => held[s] \in Message /\ held[s].id \in 1 .. nmsg
        /\ pc[s] = "send" => held[s] \notin Cache /\ \A t \in Sess : held[s] \notin direct[t]
        /\ pc[s] = "send" => \A t \in Sess \ {s} :
               pc[t] \in {"send", "cache"} => held[s].id # held[t].id

(* Producers.  A subscribed session past the synchronisation of a kind knows  *)
(* every producer of that kind, was skipped over its announcement, or it is   *)
(* on its way.                                                                *)
Told(s, p) ==
    \/ p \in direct[s] \cup relayed[s] \cup missed[s]
    \/ \E t \in Sess : pc[t] = "announce" /\ held[t] = p

AnnouncedOK ==
    /\ sub \subseteq Sess
    /\ \A p \in producers : p.kind \in {"media", "data"}
    /\ \A s \in sub, p \in producers :
           \/ pc[s] = "syncdata" /\ p.kind = "media"
           \/ pc[s] \in {"relay", "send", "cache", "announce"}
           => Told(s, p)

-----------------------------------------------------------------------------
(* What the operations of the room record do to its members.                  *)
LEMMA CreatedMembers ==
    ASSUME NEW s \in Sess, NEW role
    PROVE  /\ CreatedBy(s, role) \in Room /\ CreatedBy(s, role).type # "none"
           /\ Members(CreatedBy(s, role)) \subseteq {s}
BY ServerAssumption DEF CreatedBy, Room, Members

LEMMA WithPeerMembers ==
    ASSUME NEW r \in Room, NEW s \in Sess, NEW role
    PROVE  /\ WithPeer(r, s, role) \in Room /\ WithPeer(r, s, role).type = r.type
           /\ Members(WithPeer(r, s, role)) \subseteq Members(r) \cup {s}
<1> DEFINE x == WithPeer(r, s, role)
<1>1. /\ x \in Room /\ x.type = r.type
      /\ x.host \in {r.host, s} /\ x.remote \in {r.remote, s}
      /\ x.consumers \subseteq r.consumers \cup {s}
  <2>1. CASE x = [r EXCEPT !.host = s]
    BY <2>1 DEF Room
  <2>2. CASE x = [r EXCEPT !.remote = s]
    BY <2>2 DEF Room
  <2>3. CASE x = [r EXCEPT !.consumers = @ \cup {s}]
    <3>1. r.consumers \cup {s} \in SUBSET Sess
      BY DEF Room
    <3> QED
      BY <2>3, <3>1 DEF Room
  <2> QED
    BY <2>1, <2>2, <2>3 DEF WithPeer
<1> HIDE DEF x
<1>2. Members(x) \subseteq Members(r) \cup {s}
  BY <1>1 DEF Members
<1> QED
  BY <1>1, <1>2 DEF x

LEMMA WithoutPeerMembers ==
    ASSUME NEW r \in Room, NEW s \in Sess
    PROVE  /\ WithoutPeer(r, s) \in Room /\ WithoutPeer(r, s).type = r.type
           /\ Members(WithoutPeer(r, s)) = Members(r) \ {s}
<1> DEFINE x == WithoutPeer(r, s)
<1>1. /\ x \in Room /\ x.type = r.type
      /\ x.host = IF r.host = s THEN None ELSE r.host
      /\ x.remote = IF r.remote = s THEN None ELSE r.remote
      /\ x.consumers = r.consumers \ {s}
  BY DEF WithoutPeer, Room
<1> HIDE DEF x
<1>2. Members(x) = Members(r) \ {s}
  BY <1>1, ServerAssumption DEF Members
<1> QED
  BY <1>1, <1>2 DEF x

LEMMA WithoutConsumersMembers ==
    ASSUME NEW r \in Room
    PROVE  /\ WithoutConsumers(r) \in Room /\ WithoutConsumers(r).type = r.type
           /\ Members(WithoutConsumers(r)) \subseteq Members(r)
BY DEF WithoutConsumers, Room, Members

(* The record of no room is left as it is, and has no members.                *)
LEMMA NoRoomOps ==
    /\ NoRoom \in Room /\ Members(NoRoom) = {} /\ NoRoom.type = "none"
    /\ \A s \in Sess : WithoutPeer(NoRoom, s) = NoRoom
    /\ WithoutConsumers(NoRoom) = NoRoom
<1>1. NoRoom \in Room /\ Members(NoRoom) = {} /\ NoRoom.type = "none"
  BY ServerAssumption DEF NoRoom, Room, Members
<1>2. \A s \in Sess : WithoutPeer(NoRoom, s) = NoRoom
  <2> TAKE s \in Sess
  <2> DEFINE x == WithoutPeer(NoRoom, s)
  <2>1. NoRoom.host = None /\ NoRoom.remote = None /\ NoRoom.consumers = {}
    BY DEF NoRoom
  <2>2. /\ x \in Room /\ x.type = NoRoom.type /\ x.host = None /\ x.remote = None
        /\ x.consumers = {}
    BY <1>1, <2>1 DEF WithoutPeer, Room
  <2> HIDE DEF x
  <2>3. x = NoRoom
    BY <1>1, <2>2 DEF Room, NoRoom
  <2> QED
    BY <2>3 DEF x
<1>3. WithoutConsumers(NoRoom) = NoRoom
  BY DEF WithoutConsumers, NoRoom
<1> QED
  BY <1>1, <1>2, <1>3

LEMMA RetainedRoom ==
    ASSUME NEW r \in Room
    PROVE  /\ Retained(r) \in Room
           /\ Retained(r) = NoRoom \/ (Retained(r) = r /\ Members(r) # {})
BY NoRoomOps DEF Retained, IsEmpty

(* A message sent to the room is kept for every session that is subscribed,   *)
(* or that session is skipped over it.                                        *)
LEMMA BroadcastAdds ==
    ASSUME NEW m, DOMAIN relayed = Sess, DOMAIN missed = Sess, sub \subseteq Sess,
           Broadcast(m)
    PROVE  /\ DOMAIN relayed' = Sess /\ DOMAIN missed' = Sess
           /\ \A t \in Sess : /\ relayed[t] \subseteq relayed'[t]
                              /\ relayed'[t] \subseteq relayed[t] \cup {m}
                              /\ missed[t] \subseteq missed'[t]
                              /\ t \notin sub => relayed'[t] = relayed[t]
                              /\ t \in sub => m \in relayed'[t] \cup missed'[t]
<1>1. PICK lagging \in SUBSET sub :
        /\ missed' = [t \in Sess |-> IF t \in lagging THEN missed[t] \cup {m}
                                     ELSE missed[t]]
        /\ relayed' = [t \in Sess |-> IF t \in sub \ lagging
                                      THEN relayed[t] \cup {m} ELSE relayed[t]]
  BY DEF Broadcast
<1> QED
  BY <1>1

-----------------------------------------------------------------------------
(* Types.                                                                     *)
RoomOK == room \in Room /\ (room.type = "none" => room = NoRoom)

LEMMA NobodyType == Nobody.who \in Identity
BY DEF Nobody, LegacyIdentity, Identity

LEMMA RoomStep ==
    ASSUME RoomOK, [Next]_vars
    PROVE  RoomOK'
<1> USE DEF RoomOK
<1>1. ASSUME NEW s \in Sess, JoinExisting(s) PROVE RoomOK'
  <2>1. CASE room' = room
    BY <2>1
  <2>2. CASE room' = WithPeer(room, s, client[s].role)
    BY <1>1, <2>2, WithPeerMembers DEF JoinExisting
  <2> QED
    BY <1>1, <2>1, <2>2 DEF JoinExisting
<1>2. ASSUME NEW s \in Sess, InsertRoom(s) PROVE RoomOK'
  BY <1>2, CreatedMembers DEF InsertRoom
<1>3. ASSUME NEW s \in Sess, RemoveSelf(s) \/ KickPeer(s) PROVE RoomOK'
  BY <1>3, WithoutPeerMembers, NoRoomOps DEF RemoveSelf, KickPeer
<1>4. ASSUME NEW s \in Sess, DropConsumers(s) PROVE RoomOK'
  BY <1>4, WithoutConsumersMembers, NoRoomOps DEF DropConsumers
<1>5. ASSUME NEW s \in Sess, RetainRooms(s) \/ RetainAgain(s) PROVE RoomOK'
  BY <1>5, RetainedRoom, NoRoomOps DEF RetainRooms, RetainAgain
<1>6. CASE RetainKicked \/ RemoveRoom \/ RetainElsewhere
  BY <1>6, RetainedRoom, NoRoomOps DEF RetainKicked, RemoveRoom, RetainElsewhere
<1>7. ASSUME NEW s \in Sess, Asking(s) PROVE room' = room
  BY <1>7 DEF Asking, Arrive, Relay, Produce, ReportStatus, Emergency, Ignore, GiveUp,
              RelayFails, Leave, maps, vars
<1>8. ASSUME NEW s \in Sess, Joining(s), ~JoinExisting(s), ~InsertRoom(s)
      PROVE  room' = room
  BY <1>8 DEF Joining, CheckOwner, FindNoRoom, Register, Replay, Subscribe,
              SyncProducers, SyncDataProducers, maps
<1>9. ASSUME NEW s \in Sess, Handling(s) PROVE room' = room
  BY <1>9 DEF Handling, SendRelayed, CacheNegotiation, Announce, maps
<1>10. ASSUME NEW s \in Sess, Leaving(s), ~RemoveSelf(s), ~RetainRooms(s),
              ~DropConsumers(s), ~RetainAgain(s)
       PROVE  room' = room
  BY <1>10 DEF Leaving, ReadType, ReadHost, LookRoomGone, RemoveSfuRoom,
               RemoveStatus, RemoveOwner, maps
<1>11. CASE Shutdown \/ UNCHANGED vars
  BY <1>11 DEF Shutdown, vars, maps
<1> QED
  BY <1>1, <1>2, <1>3, <1>4, <1>5, <1>6, <1>7, <1>8, <1>9, <1>10, <1>11
     DEF Next, Administering

(* The other variables, in groups that the same actions change.               *)
OwnersOK ==
    /\ owner \in Devices \cup {None} /\ status \in Sess \cup {None}
    /\ bound \in [Sess -> Devices \cup {None}]
    /\ client \in [Sess -> Clients \cup {Nobody}]

LEMMA IdentityType ==
    ASSUME OwnersOK, NEW s \in Sess
    PROVE  Identified(s) \in Identity /\ Identified(s).device \in Devices \cup {None}
<1>1. client[s].who \in Identity
  BY NobodyType, ServerAssumption DEF OwnersOK
<1> QED
  BY <1>1 DEF Identified, Identity

LEMMA OwnersStep ==
    ASSUME OwnersOK, [Next]_vars
    PROVE  OwnersOK'
<1> USE DEF OwnersOK
<1>1. ASSUME NEW s \in Sess, Asking(s) PROVE OwnersOK'
  BY <1>1 DEF Asking, Arrive, Relay, Produce, ReportStatus, Emergency, Ignore, GiveUp,
              RelayFails, Leave, maps, vars
<1>2. ASSUME NEW s \in Sess, Register(s) PROVE OwnersOK'
  BY <1>2, IdentityType DEF Register
<1>3. ASSUME NEW s \in Sess, Joining(s), ~Register(s) PROVE OwnersOK'
  BY <1>3 DEF Joining, CheckOwner, JoinExisting, InsertRoom, FindNoRoom, Replay,
              Subscribe, SyncProducers, SyncDataProducers, maps
<1>4. ASSUME NEW s \in Sess, Handling(s) PROVE OwnersOK'
  BY <1>4 DEF Handling, SendRelayed, CacheNegotiation, Announce, maps
<1>5. ASSUME NEW s \in Sess, Leaving(s) PROVE OwnersOK'
  BY <1>5 DEF Leaving, ReadType, ReadHost, RemoveSelf, RetainRooms, LookRoomGone,
              DropConsumers, RetainAgain, RemoveSfuRoom, RemoveStatus, RemoveOwner, maps
<1>6. CASE Administering \/ RetainElsewhere \/ Shutdown \/ UNCHANGED vars
  BY <1>6 DEF Administering, RemoveRoom, RetainKicked, KickPeer, RetainElsewhere,
              Shutdown, vars, maps
<1> QED
  BY <1>1, <1>2, <1>3, <1>4, <1>5, <1>6 DEF Next

StepsOK ==
    /\ pc \in [Sess -> Steps] /\ sub \subseteq Sess
    /\ dropper \in [Sess -> BOOLEAN] /\ gone \in [Sess -> BOOLEAN]
    /\ DOMAIN direct = Sess /\ DOMAIN relayed = Sess /\ DOMAIN missed = Sess

LEMMA StepsStep ==
    ASSUME StepsOK, [Next]_vars
    PROVE  StepsOK'
<1> USE DEF StepsOK, Steps, Goto, got
<1>0. ASSUME NEW m, Broadcast(m) PROVE DOMAIN relayed' = Sess /\ DOMAIN missed' = Sess
  BY <1>0, BroadcastAdds
<1>1. ASSUME NEW s \in Sess, Asking(s) PROVE StepsOK'
  <2>1. CASE Emergency(s)
    BY <1>0, <2>1 DEF Emergency, local
  <2>2. CASE Leave(s)
    BY <2>2 DEF Leave, Forget, local
  <2> QED
    BY <1>1, <2>1, <2>2 DEF Asking, Arrive, Relay, Produce, ReportStatus, Ignore, GiveUp,
       RelayFails, local, net, vars
<1>2. ASSUME NEW s \in Sess, Joining(s) PROVE StepsOK'
  BY <1>2 DEF Joining, CheckOwner, JoinExisting, InsertRoom, FindNoRoom, Register,
              Registered, Replay, Subscribe, SyncProducers, SyncDataProducers, local, net
<1>3. ASSUME NEW s \in Sess, Handling(s) PROVE StepsOK'
  BY <1>0, <1>3 DEF Handling, SendRelayed, CacheNegotiation, Announce, local, net
<1>4. ASSUME NEW s \in Sess, Leaving(s) PROVE StepsOK'
  BY <1>4 DEF Leaving, ReadType, ReadHost, RemoveSelf, RetainRooms, LookRoomGone,
              AfterUnbind, DropConsumers, RetainAgain, RemoveSfuRoom, RemoveStatus,
              RemoveOwner, local, net
<1>5. CASE Administering \/ RetainElsewhere \/ Shutdown \/ UNCHANGED vars
  BY <1>5 DEF Administering, RemoveRoom, RetainKicked, KickPeer, RetainElsewhere,
              Shutdown, vars, local, net
<1> QED
  BY <1>1, <1>2, <1>3, <1>4, <1>5 DEF Next

CountsOK ==
    /\ shutdown \in BOOLEAN /\ kicking \in BOOLEAN /\ nadmin \in 0 .. MaxAdmin
    /\ nmsg \in 0 .. MaxMsgs

LEMMA CountsStep ==
    ASSUME CountsOK, [Next]_vars
    PROVE  CountsOK'
<1> USE ServerAssumption DEF CountsOK
<1>1. ASSUME NEW s \in Sess, Asking(s) PROVE CountsOK'
  BY <1>1 DEF Asking, Arrive, Relay, Produce, ReportStatus, Emergency, Ignore, GiveUp,
              RelayFails, Leave, env, vars
<1>2. ASSUME NEW s \in Sess, Joining(s) \/ Handling(s) PROVE CountsOK'
  BY <1>2 DEF Joining, CheckOwner, JoinExisting, InsertRoom, FindNoRoom, Register,
              Replay, Subscribe, SyncProducers, SyncDataProducers, Handling, SendRelayed,
              CacheNegotiation, Announce, env
<1>3. ASSUME NEW s \in Sess, Leaving(s) PROVE CountsOK'
  BY <1>3 DEF Leaving, ReadType, ReadHost, RemoveSelf, RetainRooms, LookRoomGone,
              DropConsumers, RetainAgain, RemoveSfuRoom, RemoveStatus, RemoveOwner, env
<1>4. ASSUME NEW s \in Sess, KickPeer(s) PROVE CountsOK'
  BY <1>4 DEF KickPeer
<1>5. CASE RemoveRoom \/ RetainElsewhere
  BY <1>5 DEF RemoveRoom, RetainElsewhere, env
<1>6. CASE RetainKicked
  BY <1>6 DEF RetainKicked
<1>7. CASE Shutdown
  BY <1>7 DEF Shutdown
<1>8. CASE UNCHANGED vars
  BY <1>8 DEF vars, env
<1> QED
  BY <1>1, <1>2, <1>3, <1>4, <1>5, <1>6, <1>7, <1>8 DEF Next, Administering

LEMMA TypesInit == Init => TypeOK
<1> SUFFICES ASSUME Init PROVE TypeOK
  OBVIOUS
<1>1. RoomOK
  BY NoRoomOps DEF Init, RoomOK
<1>2. OwnersOK
  BY DEF Init, OwnersOK
<1>3. StepsOK
  BY DEF Init, StepsOK, Steps
<1>4. CountsOK
  <2>1. nadmin = 0 /\ nmsg = 0
    BY DEF Init
  <2>2. nadmin \in 0 .. MaxAdmin /\ nmsg \in 0 .. MaxMsgs
    BY <2>1, ServerAssumption
  <2>3. shutdown \in BOOLEAN /\ kicking \in BOOLEAN
    BY Zenon DEF Init
  <2> QED
    BY <2>2, <2>3 DEF CountsOK
<1> QED
  BY <1>1, <1>2, <1>3, <1>4 DEF TypeOK, RoomOK, OwnersOK, StepsOK, CountsOK

LEMMA TypesStep == TypeOK /\ [Next]_vars => TypeOK'
<1> SUFFICES ASSUME TypeOK, [Next]_vars PROVE TypeOK'
  OBVIOUS
<1>1. RoomOK /\ OwnersOK /\ StepsOK /\ CountsOK
  BY DEF TypeOK, RoomOK, OwnersOK, StepsOK, CountsOK
<1>2. RoomOK' /\ OwnersOK' /\ StepsOK' /\ CountsOK'
  BY <1>1, RoomStep, OwnersStep, StepsStep, CountsStep
<1> QED
  BY <1>2 DEF TypeOK, RoomOK, OwnersOK, StepsOK, CountsOK

(* Every variable of the signalling server's room keeps its type.             *)
THEOREM RoomTypes == Spec => []TypeOK
BY TypesInit, TypesStep, PTL DEF Spec

-----------------------------------------------------------------------------
(* Where a session is decides what it may hold.                               *)
LEMMA HoldingsStep ==
    ASSUME TypeOK, HoldingsOK, [Next]_vars
    PROVE  HoldingsOK'
<1> USE DEF HoldingsOK, BoundAt, SubAt, Goto
<1>0. /\ pc \in [Sess -> Steps] /\ bound \in [Sess -> Devices \cup {None}]
      /\ sub \subseteq Sess
  BY DEF TypeOK
<1>1. ASSUME NEW s \in Sess, Asking(s) PROVE HoldingsOK'
  BY <1>0, <1>1 DEF Asking, Arrive, Relay, Produce, ReportStatus, Emergency, Ignore,
     GiveUp, RelayFails, Leave, net, vars
<1>2. ASSUME NEW s \in Sess, Joining(s) PROVE HoldingsOK'
  BY <1>0, <1>2 DEF Joining, CheckOwner, JoinExisting, InsertRoom, FindNoRoom, Register,
     Registered, Replay, Subscribe, SyncProducers, SyncDataProducers, net
<1>3. ASSUME NEW s \in Sess, Handling(s) PROVE HoldingsOK'
  BY <1>0, <1>3 DEF Handling, SendRelayed, CacheNegotiation, Announce, net
<1>4. ASSUME NEW s \in Sess, Leaving(s) PROVE HoldingsOK'
  BY <1>0, <1>4 DEF Leaving, ReadType, ReadHost, RemoveSelf, RetainRooms, LookRoomGone,
     AfterUnbind, DropConsumers, RetainAgain, RemoveSfuRoom, RemoveStatus, RemoveOwner, net
<1>5. CASE Administering \/ RetainElsewhere \/ Shutdown \/ UNCHANGED vars
  BY <1>5 DEF Administering, RemoveRoom, RetainKicked, KickPeer, RetainElsewhere,
              Shutdown, vars, net
<1> QED
  BY <1>1, <1>2, <1>3, <1>4, <1>5 DEF Next

(* A session that leaves takes its place in the room with it, and whoever is  *)
(* last before the empty room is dropped drops it.                            *)
LEMMA PlacesStep ==
    ASSUME TypeOK, PlacesOK, [Next]_vars
    PROVE  PlacesOK'
<1> USE DEF PlacesOK, Inside, ToRetain, Goto
<1>0. room \in Room /\ pc \in [Sess -> Steps]
  BY DEF TypeOK
<1>1. ASSUME NEW s \in Sess, Asking(s) PROVE PlacesOK'
  BY <1>0, <1>1 DEF Asking, Arrive, Relay, Produce, ReportStatus, Emergency, Ignore,
     GiveUp, RelayFails, Leave, maps, vars
<1>2. ASSUME NEW s \in Sess, JoinExisting(s) PROVE PlacesOK'
  <2>1. CASE IsFull(room, client[s].role)
    BY <1>0, <1>2, <2>1 DEF JoinExisting
  <2>2. CASE ~IsFull(room, client[s].role)
    <3>1. room' = WithPeer(room, s, client[s].role) /\ pc' = [pc EXCEPT ![s] = Registered(s)]
      BY <1>2, <2>2 DEF JoinExisting
    <3>2. Members(room') \subseteq Members(room) \cup {s}
      BY <1>0, <3>1, WithPeerMembers
    <3> QED
      BY <1>0, <3>1, <3>2 DEF Registered
  <2> QED
    BY <2>1, <2>2
<1>3. ASSUME NEW s \in Sess, InsertRoom(s) PROVE PlacesOK'
  <2>1. Members(room') \subseteq {s}
    BY <1>3, CreatedMembers DEF InsertRoom
  <2> QED
    BY <1>0, <1>3, <2>1 DEF InsertRoom, Registered
<1>4. ASSUME NEW s \in Sess, Joining(s), ~JoinExisting(s), ~InsertRoom(s)
      PROVE  PlacesOK'
  BY <1>0, <1>4 DEF Joining, CheckOwner, FindNoRoom, Register, Replay, Subscribe,
     SyncProducers, SyncDataProducers, maps
<1>5. ASSUME NEW s \in Sess, Handling(s) PROVE PlacesOK'
  BY <1>0, <1>5 DEF Handling, SendRelayed, CacheNegotiation, Announce, maps
<1>6. ASSUME NEW s \in Sess, ReadType(s) \/ ReadHost(s) PROVE PlacesOK'
  BY <1>0, <1>6 DEF ReadType, ReadHost, maps
<1>7. ASSUME NEW s \in Sess, RemoveSelf(s) PROVE PlacesOK'
  <2>1. Members(room') = Members(room) \ {s}
    BY <1>0, <1>7, WithoutPeerMembers DEF RemoveSelf
  <2> QED
    BY <1>0, <1>7, <2>1, NoRoomOps DEF RemoveSelf
<1>8. ASSUME NEW s \in Sess, RetainRooms(s) PROVE PlacesOK'
  <2>1. room' = NoRoom \/ (room' = room /\ \E u \in Sess : u \in Members(room))
    <3>1. Members(room) \subseteq Sess
      BY <1>0 DEF Members, Room
    <3> QED
      BY <1>0, <1>8, <3>1, RetainedRoom DEF RetainRooms
  <2> QED
    BY <1>0, <1>8, <2>1, NoRoomOps DEF RetainRooms
<1>9. ASSUME NEW s \in Sess, DropConsumers(s) PROVE PlacesOK'
  <2>1. Members(room') \subseteq Members(room)
    BY <1>0, <1>9, WithoutConsumersMembers DEF DropConsumers
  <2> QED
    BY <1>0, <1>9, <2>1, NoRoomOps DEF DropConsumers
<1>10. ASSUME NEW s \in Sess, RetainAgain(s) PROVE PlacesOK'
  BY <1>0, <1>10, RetainedRoom, NoRoomOps DEF RetainAgain
<1>11. ASSUME NEW s \in Sess, LookRoomGone(s) \/ RemoveSfuRoom(s) \/ RemoveStatus(s)
                                \/ RemoveOwner(s)
       PROVE  PlacesOK'
  BY <1>0, <1>11 DEF LookRoomGone, AfterUnbind, RemoveSfuRoom, RemoveStatus,
     RemoveOwner, maps
<1>12. ASSUME NEW s \in Sess, KickPeer(s) PROVE PlacesOK'
  <2>1. Members(room') = Members(room) \ {s}
    BY <1>0, <1>12, WithoutPeerMembers DEF KickPeer
  <2> QED
    BY <1>0, <1>12, <2>1, NoRoomOps DEF KickPeer
<1>13. CASE RemoveRoom \/ RetainKicked \/ RetainElsewhere \/ Shutdown \/ UNCHANGED vars
  BY <1>0, <1>13, RetainedRoom, NoRoomOps
     DEF RemoveRoom, RetainKicked, RetainElsewhere, Shutdown, vars, maps
<1> QED
  BY <1>1, <1>2, <1>3, <1>4, <1>5, <1>6, <1>7, <1>8, <1>9, <1>10, <1>11, <1>12, <1>13
     DEF Next, Leaving, Administering

-----------------------------------------------------------------------------
(* Who will remove what is left.  A session that looks and finds the room     *)
(* there leaves the work to one that has not dropped the room yet.            *)
LEMMA ResidueStep ==
    ASSUME TypeOK, PlacesOK, ResidueOK, [Next]_vars
    PROVE  ResidueOK'
<1> USE DEF ResidueOK, Cleans, ToLook, ToRetain, Inside, Goto
<1>0. /\ pc \in [Sess -> Steps] /\ gone \in [Sess -> BOOLEAN]
  BY DEF TypeOK
<1>1. ASSUME NEW s \in Sess, Produce(s, "media") \/ Produce(s, "data") PROVE ResidueOK'
  BY <1>0, <1>1 DEF Produce, maps
<1>2. ASSUME NEW s \in Sess, ReportStatus(s) PROVE ResidueOK'
  BY <1>0, <1>2 DEF ReportStatus, local
<1>3. ASSUME NEW s \in Sess, Leave(s) PROVE ResidueOK'
  BY <1>0, <1>3 DEF Leave, maps, local
<1>4. ASSUME NEW s \in Sess, NEW c \in Clients, Arrive(s, c) PROVE ResidueOK'
  BY <1>0, <1>4 DEF Arrive, maps, local
<1>5. ASSUME NEW s \in Sess, NEW k \in MsgKinds, Relay(s, k) PROVE ResidueOK'
  BY <1>0, <1>5 DEF Relay, maps
<1>6. ASSUME NEW s \in Sess, Emergency(s) \/ RelayFails(s) \/ GiveUp(s) PROVE ResidueOK'
  BY <1>0, <1>6 DEF Emergency, RelayFails, GiveUp, maps, local
<1>7. ASSUME NEW s \in Sess, CheckOwner(s) \/ FindNoRoom(s) \/ JoinExisting(s)
                               \/ InsertRoom(s)
      PROVE  ResidueOK'
  BY <1>0, <1>7 DEF CheckOwner, FindNoRoom, JoinExisting, InsertRoom, Registered,
     maps, local
<1>8. ASSUME NEW s \in Sess, Register(s) PROVE ResidueOK'
  BY <1>0, <1>8 DEF Register, local
<1>9. ASSUME NEW s \in Sess, Replay(s) \/ Subscribe(s) \/ SyncProducers(s)
                               \/ SyncDataProducers(s)
      PROVE  ResidueOK'
  BY <1>0, <1>9 DEF Replay, Subscribe, SyncProducers, SyncDataProducers, maps, local
<1>10. ASSUME NEW s \in Sess, Handling(s) PROVE ResidueOK'
  BY <1>0, <1>10 DEF Handling, SendRelayed, CacheNegotiation, Announce, maps, local
<1>11. ASSUME NEW s \in Sess, ReadType(s) \/ ReadHost(s) \/ RemoveSelf(s)
                                \/ RetainRooms(s)
       PROVE  ResidueOK'
  BY <1>0, <1>11 DEF ReadType, ReadHost, RemoveSelf, RetainRooms, maps, local
<1>12. ASSUME NEW s \in Sess, LookRoomGone(s) PROVE ResidueOK'
  <2>1. CASE room = NoRoom
    <3>1. gone'[s] /\ pc' = [pc EXCEPT ![s] = IF dropper[s] THEN "drop" ELSE "sfu"]
      BY <1>0, <1>12, <2>1 DEF LookRoomGone, AfterUnbind
    <3> QED
      BY <1>0, <1>12, <3>1 DEF LookRoomGone, maps
  <2>2. CASE room # NoRoom
    <3>1. PICK u \in Sess : pc[u] \in ToRetain
      BY <2>2 DEF PlacesOK
    <3>2. u # s /\ pc'[u] = pc[u]
      BY <1>0, <1>12, <3>1 DEF LookRoomGone
    <3> QED
      BY <3>1, <3>2
  <2> QED
    BY <2>1, <2>2
<1>13. ASSUME NEW s \in Sess, DropConsumers(s) \/ RetainAgain(s) PROVE ResidueOK'
  BY <1>0, <1>13 DEF DropConsumers, RetainAgain, local
<1>14. ASSUME NEW s \in Sess, RemoveSfuRoom(s) PROVE ResidueOK'
  BY <1>0, <1>14 DEF RemoveSfuRoom, maps, local
<1>15. ASSUME NEW s \in Sess, RemoveStatus(s) PROVE ResidueOK'
  BY <1>0, <1>15 DEF RemoveStatus, local
<1>16. ASSUME NEW s \in Sess, RemoveOwner(s) PROVE ResidueOK'
  BY <1>0, <1>16 DEF RemoveOwner, local
<1>17. CASE Administering \/ RetainElsewhere \/ Shutdown \/ UNCHANGED vars
  BY <1>17 DEF Administering, RemoveRoom, RetainKicked, KickPeer, RetainElsewhere,
               Shutdown, vars, maps, local
<1>18. ASSUME NEW s \in Sess, Asking(s) PROVE ResidueOK'
  <2>1. ASSUME NEW k \in MsgKinds, Produce(s, k) PROVE ResidueOK'
    BY <1>1, <2>1 DEF Produce
  <2>2. CASE Ignore(s)
    BY <2>2 DEF Ignore, vars, maps, local
  <2> QED
    BY <1>18, <1>2, <1>3, <1>4, <1>5, <1>6, <2>1, <2>2 DEF Asking
<1> QED
  BY <1>7, <1>8, <1>9, <1>10, <1>11, <1>12, <1>13, <1>14, <1>15, <1>16, <1>17, <1>18
     DEF Next, Joining, Leaving

LEMMA RoomInvInit == Init => RoomInv
<1> SUFFICES ASSUME Init PROVE RoomInv
  OBVIOUS
<1>1. PlacesOK
  BY NoRoomOps DEF Init, PlacesOK
<1>2. HoldingsOK /\ ResidueOK
  BY DEF Init, HoldingsOK, ResidueOK
<1> QED
  BY <1>1, <1>2, TypesInit DEF RoomInv

LEMMA RoomInvStep == RoomInv /\ [Next]_vars => RoomInv'
BY TypesStep, PlacesStep, HoldingsStep, ResidueStep DEF RoomInv

(* A session that has left, or was refused, has no place in the room, no      *)
(* device binding and no subscription (signaling.rs:110-113, 994-1001).       *)
THEOREM DepartedAreForgotten == Spec => []DepartedForgotten
<1>1. RoomInv => DepartedForgotten
  BY DEF RoomInv, PlacesOK, HoldingsOK, DepartedForgotten, Gone, Inside, BoundAt, SubAt
<1> QED
  BY RoomInvInit, RoomInvStep, <1>1, PTL DEF Spec

(* When the last session has gone nothing of the room is left, whatever was   *)
(* interleaved (signaling.rs:1026-1036, admin.rs:334-411).                    *)
THEOREM RegistriesAreCleared == Spec => []RegistriesCleared
<1>1. RoomInv => RegistriesCleared
  <2> SUFFICES ASSUME RoomInv,
                      \A s \in Sess : pc[s] \in {"idle", "check", "lookup", "done"}
               PROVE  room = NoRoom /\ owner = None /\ status = None /\ producers = {}
    BY DEF RegistriesCleared
  <2>1. room = NoRoom
    BY DEF RoomInv, PlacesOK, ToRetain, Inside
  <2>2. owner = None /\ status = None /\ producers = {}
    BY DEF RoomInv, ResidueOK, Cleans, ToLook, ToRetain, Inside
  <2> QED
    BY <2>1, <2>2
<1> QED
  BY RoomInvInit, RoomInvStep, <1>1, PTL DEF Spec

-----------------------------------------------------------------------------
(* Messages.                                                                  *)

LEMMA AppendMessage ==
    ASSUME NEW q \in Seq(Message), NEW m \in Message
    PROVE  /\ Append(q, m) \in Seq(Message) /\ Len(q) \in Nat
           /\ Len(Append(q, m)) = Len(q) + 1 /\ Append(q, m)[Len(q) + 1] = m
           /\ \A i \in 1 .. Len(q) : Append(q, m)[i] = q[i]
OBVIOUS

(* Appending to the cache, at its cap or not, adds that message at most.      *)
LEMMA CacheGrows ==
    ASSUME NEW q \in Seq(Message), NEW m \in Message, NegoCap \in Nat \ {0},
           NEW r, r = IF Len(q) < NegoCap THEN Append(q, m) ELSE Append(Tail(q), m)
    PROVE  /\ r \in Seq(Message)
           /\ {r[i] : i \in 1 .. Len(r)} \subseteq {q[i] : i \in 1 .. Len(q)} \cup {m}
<1>1. CASE Len(q) < NegoCap
  <2>1. r \in Seq(Message) /\ Len(r) = Len(q) + 1 /\ r[Len(q) + 1] = m
        /\ \A i \in 1 .. Len(q) : r[i] = q[i]
    BY <1>1
  <2> QED
    BY <2>1
<1>2. CASE ~(Len(q) < NegoCap)
  <2>1. q # <<>> /\ Len(q) \in Nat /\ Len(q) > 0
    BY <1>2
  <2> DEFINE rest == Tail(q)
  <2>2. /\ rest \in Seq(Message) /\ Len(rest) \in Nat /\ Len(rest) = Len(q) - 1
        /\ \A i \in 1 .. Len(rest) : rest[i] = q[i + 1]
    BY <2>1
  <2> HIDE DEF rest
  <2>3. r = Append(rest, m)
    BY <1>2 DEF rest
  <2>4. /\ r \in Seq(Message) /\ Len(r) = Len(rest) + 1 /\ r[Len(rest) + 1] = m
        /\ \A i \in 1 .. Len(rest) : r[i] = rest[i]
    BY <2>2, <2>3, AppendMessage
  <2> QED
    BY <2>1, <2>2, <2>4
<1> QED
  BY <1>1, <1>2

MessagesInv == TypeOK /\ MessagesOK /\ NoDuplicateNegotiation

LEMMA MessagesInit == Init => MessagesInv
<1> SUFFICES ASSUME Init PROVE MessagesInv
  OBVIOUS
<1>1. cached = <<>> /\ Cache = {}
  BY DEF Init, Cache
<1> QED
  BY <1>1, TypesInit DEF Init, MessagesInv, MessagesOK, NoDuplicateNegotiation

LEMMA MessagesStep ==
    ASSUME MessagesInv, [Next]_vars
    PROVE  MessagesOK' /\ NoDuplicateNegotiation'
<1> DEFINE P == MessagesOK' /\ NoDuplicateNegotiation'
<1> USE DEF MessagesOK, NoDuplicateNegotiation, SubAt, Goto
<1>0. /\ MessagesOK /\ NoDuplicateNegotiation
      /\ pc \in [Sess -> Steps] /\ sub \subseteq Sess
      /\ DOMAIN direct = Sess /\ DOMAIN relayed = Sess /\ DOMAIN missed = Sess
  BY DEF MessagesInv, TypeOK
<1>c. UNCHANGED cached => Cache' = Cache
  BY DEF Cache
<1>1. ASSUME NEW s \in Sess, NEW c \in Clients, Arrive(s, c) PROVE P
  BY <1>0, <1>c, <1>1 DEF Arrive, local, net, got
<1>2. ASSUME NEW s \in Sess, NEW k \in MsgKinds, Relay(s, k) PROVE P
  <2> DEFINE r == [kind |-> k, id |-> nmsg + 1]
  <2>1. /\ r \in Message /\ r.id = nmsg + 1 /\ nmsg' = nmsg + 1
        /\ r \notin Cache /\ \A t \in Sess : r \notin direct[t]
    BY <1>0, <1>2 DEF Relay, Message
  <2>2. held' = [held EXCEPT ![s] = r] /\ pc' = [pc EXCEPT ![s] = "send"]
    BY <1>2 DEF Relay
  <2> HIDE DEF r
  <2> QED
    BY <1>0, <1>c, <1>2, <2>1, <2>2 DEF Relay, net, got
<1>3. ASSUME NEW s \in Sess, NEW k \in MsgKinds, Produce(s, k) PROVE P
  <2> DEFINE r == [kind |-> k, id |-> nmsg + 1, by |-> s, peer |-> PeerOf(s)]
  <2>1. r.kind \in {"media", "data"} /\ r.id = nmsg + 1 /\ nmsg' = nmsg + 1
    BY <1>0, <1>3 DEF Produce
  <2>2. /\ held' = [held EXCEPT ![s] = r] /\ pc' = [pc EXCEPT ![s] = "announce"]
        /\ producers' = producers \cup {r}
    BY <1>0, <1>3 DEF Produce
  <2> HIDE DEF r
  <2> QED
    BY <1>0, <1>c, <1>3, <2>1, <2>2 DEF Produce, net, got
<1>4. ASSUME NEW s \in Sess, Emergency(s) PROVE P
  <2> DEFINE r == [kind |-> "emergency", id |-> nmsg + 1]
  <2>1. r.kind = "emergency" /\ Broadcast(r) /\ nmsg' = nmsg + 1
    BY <1>4 DEF Emergency
  <2> HIDE DEF r
  <2> QED
    BY <1>0, <1>c, <1>4, <2>1, BroadcastAdds DEF Emergency, local
<1>5. ASSUME NEW s \in Sess, GiveUp(s) \/ RelayFails(s) \/ Leave(s) PROVE P
  BY <1>0, <1>c, <1>5 DEF GiveUp, RelayFails, Leave, Forget, local, net, got
<1>6. ASSUME NEW s \in Sess, ReportStatus(s) \/ Ignore(s) PROVE P
  BY <1>0, <1>c, <1>6 DEF ReportStatus, Ignore, local, net, got, vars
<1>7. ASSUME NEW s \in Sess, CheckOwner(s) \/ FindNoRoom(s) \/ JoinExisting(s)
                               \/ InsertRoom(s) \/ Register(s)
      PROVE  P
  BY <1>0, <1>c, <1>7
     DEF CheckOwner, FindNoRoom, JoinExisting, InsertRoom, Register, Registered, local, net, got
<1>8. ASSUME NEW s \in Sess, Replay(s) PROVE P
  BY <1>0, <1>c, <1>8 DEF Replay, local, got
<1>9. ASSUME NEW s \in Sess, Subscribe(s) PROVE P
  BY <1>0, <1>c, <1>9 DEF Subscribe, local, got
<1>10. ASSUME NEW s \in Sess, SyncProducers(s) \/ SyncDataProducers(s) PROVE P
  <2>1. PICK k \in {"media", "data"} : direct' = [direct EXCEPT ![s] = @ \cup Producers(k)]
    BY <1>10 DEF SyncProducers, SyncDataProducers
  <2>2. \A m \in Producers(k) : /\ m.kind # "nego" /\ m.id \in 1 .. nmsg
                                /\ m \notin Message
    BY <1>0 DEF Producers, Message
  <2> QED
    BY <1>0, <1>c, <1>10, <2>1, <2>2 DEF SyncProducers, SyncDataProducers, local, got
<1>11. ASSUME NEW s \in Sess, SendRelayed(s) PROVE P
  <2>0. PICK x : x = held[s]
    OBVIOUS
  <2>1. Broadcast(x) /\ pc[s] = "send"
    BY <1>11, <2>0 DEF SendRelayed
  <2>2. /\ \A t \in Sess : /\ relayed'[t] \subseteq relayed[t] \cup {x}
                           /\ t \notin sub => relayed'[t] = relayed[t]
        /\ DOMAIN relayed' = Sess
    BY <1>0, <2>1, BroadcastAdds
  <2>3. /\ pc'[s] \in {"cache", "relay"}
        /\ pc'[s] = "cache" => held'[s] = x
        /\ DOMAIN held' = Sess
        /\ \A t \in Sess \ {s} : held'[t] = held[t] /\ pc'[t] = pc[t]
        /\ UNCHANGED <<cached, producers, sub, direct, nmsg>>
    BY <1>0, <1>11, <2>0 DEF SendRelayed
  <2>4. /\ x \in Message /\ x.id \in 1 .. nmsg
        /\ x \notin Cache /\ \A t \in Sess : x \notin direct[t]
        /\ \A t \in Sess \ {s} : pc[t] \in {"send", "cache"} => x.id # held[t].id
    BY <1>0, <2>0, <2>1
  <2>5. MessagesOK'
    BY <1>0, <1>c, <2>1, <2>2, <2>3, <2>4
  <2>6. NoDuplicateNegotiation'
    BY <1>0, <2>2, <2>3, <2>4
  <2> QED
    BY <2>5, <2>6
<1>12. ASSUME NEW s \in Sess, CacheNegotiation(s) PROVE P
  <2>1. held[s] \in Message
    BY <1>0, <1>12 DEF CacheNegotiation
  <2>2. cached' \in Seq(Message) /\ Cache' \subseteq Cache \cup {held[s]}
    BY <1>0, <1>12, <2>1, CacheGrows, ServerAssumption DEF CacheNegotiation, Cache
  <2> QED
    BY <1>0, <1>12, <2>1, <2>2 DEF CacheNegotiation, local, net, got
<1>13. ASSUME NEW s \in Sess, Announce(s) PROVE P
  BY <1>0, <1>c, <1>13, BroadcastAdds DEF Announce
<1>14. ASSUME NEW s \in Sess, Leaving(s) PROVE P
  BY <1>0, <1>c, <1>14 DEF Leaving, ReadType, ReadHost, RemoveSelf, RetainRooms,
     LookRoomGone, AfterUnbind, DropConsumers, RetainAgain, RemoveSfuRoom, RemoveStatus,
     RemoveOwner, local, net, got
<1>15. CASE Administering \/ RetainElsewhere \/ Shutdown \/ UNCHANGED vars
  BY <1>0, <1>c, <1>15 DEF Administering, RemoveRoom, RetainKicked, KickPeer,
     RetainElsewhere, Shutdown, vars, local, net, got
<1> QED
  BY <1>1, <1>2, <1>3, <1>4, <1>5, <1>6, <1>7, <1>8, <1>9, <1>10, <1>11, <1>12, <1>13,
     <1>14, <1>15 DEF Next, Asking, Joining, Handling

(* A late joiner is not sent a negotiation message twice: what it gets from   *)
(* the cache was broadcast before it subscribed (signaling.rs replay before   *)
(* subscribe, and cache only after the broadcast).                            *)
THEOREM NegotiationSentOnce == Spec => []NoDuplicateNegotiation
<1>1. MessagesInv /\ [Next]_vars => MessagesInv'
  BY MessagesStep, TypesStep DEF MessagesInv
<1>2. MessagesInv => NoDuplicateNegotiation
  BY DEF MessagesInv
<1> QED
  BY MessagesInit, <1>1, <1>2, PTL DEF Spec

-----------------------------------------------------------------------------
(* Producers.                                                                 *)
ProducersInv == TypeOK /\ DOMAIN held = Sess /\ AnnouncedOK

LEMMA ProducersStep ==
    ASSUME ProducersInv, [Next]_vars
    PROVE  DOMAIN held' = Sess /\ AnnouncedOK'
<1> DEFINE P == DOMAIN held' = Sess /\ AnnouncedOK'
<1> USE DEF AnnouncedOK, Told, Goto
<1>0. /\ AnnouncedOK /\ DOMAIN held = Sess
      /\ pc \in [Sess -> Steps] /\ DOMAIN direct = Sess /\ DOMAIN relayed = Sess /\ DOMAIN missed = Sess
  BY DEF ProducersInv, TypeOK
<1>1. ASSUME NEW s \in Sess, NEW c \in Clients, Arrive(s, c) PROVE P
  BY <1>0, <1>1 DEF Arrive, local, net, got
<1>2. ASSUME NEW s \in Sess, NEW k \in MsgKinds, Relay(s, k) PROVE P
  BY <1>0, <1>2 DEF Relay, net, got
<1>3. ASSUME NEW s \in Sess, NEW k \in MsgKinds, Produce(s, k) PROVE P
  <2> DEFINE r == [kind |-> k, id |-> nmsg + 1, by |-> s, peer |-> PeerOf(s)]
  <2>1. /\ held' = [held EXCEPT ![s] = r] /\ pc' = [pc EXCEPT ![s] = "announce"]
        /\ producers' = producers \cup {r} /\ r.kind \in {"media", "data"}
    BY <1>0, <1>3 DEF Produce
  <2> HIDE DEF r
  <2>2. pc'[s] = "announce" /\ held'[s] = r
    BY <1>0, <2>1
  <2>3. UNCHANGED <<sub, direct, relayed, missed>> /\ pc[s] = "relay"
    BY <1>3 DEF Produce, net, got
  <2>4. ASSUME NEW u \in sub, NEW p \in producers, Told(u, p) PROVE Told(u, p)'
    <3>1. CASE p \in direct[u] \cup relayed[u] \cup missed[u]
      BY <2>3, <3>1
    <3>2. CASE \E t \in Sess : pc[t] = "announce" /\ held[t] = p
      <4>1. PICK t \in Sess : pc[t] = "announce" /\ held[t] = p
        BY <3>2
      <4>2. t # s /\ pc'[t] = "announce" /\ held'[t] = p
        BY <1>0, <2>1, <2>3, <4>1
      <4> QED
        BY <4>2
    <3> QED
      BY <2>4, <3>1, <3>2
  <2>5. ASSUME NEW u \in sub, NEW p \in producers',
               \/ pc'[u] = "syncdata" /\ p.kind = "media"
               \/ pc'[u] \in {"relay", "send", "cache", "announce"}
        PROVE  Told(u, p)'
    <3>1. CASE p \in producers
      <4>1. \/ pc[u] = "syncdata" /\ p.kind = "media"
            \/ pc[u] \in {"relay", "send", "cache", "announce"}
        BY <1>0, <2>1, <2>3, <2>5
      <4> QED
        BY <1>0, <2>4, <3>1, <4>1
    <3>2. CASE p = r
      BY <1>0, <2>2, <3>2
    <3> QED
      BY <2>1, <3>1, <3>2
  <2>6. DOMAIN held' = Sess /\ sub' \subseteq Sess /\ \A p \in producers' : p.kind \in {"media", "data"}
    BY <1>0, <2>1, <2>3
  <2> QED
    BY <2>3, <2>5, <2>6
<1>4. ASSUME NEW s \in Sess, Emergency(s) PROVE P
  <2>1. \A u \in Sess : relayed[u] \subseteq relayed'[u] /\ missed[u] \subseteq missed'[u]
    <3>1. PICK m : Broadcast(m)
      BY <1>4 DEF Emergency
    <3> QED
      BY <1>0, <3>1, BroadcastAdds
  <2> QED
    BY <1>0, <1>4, <2>1 DEF Emergency, local
<1>5. ASSUME NEW s \in Sess, GiveUp(s) \/ RelayFails(s) \/ Leave(s) PROVE P
  BY <1>0, <1>5 DEF GiveUp, RelayFails, Leave, Forget, local, net, got
<1>6. ASSUME NEW s \in Sess, ReportStatus(s) \/ Ignore(s) PROVE P
  BY <1>0, <1>6 DEF ReportStatus, Ignore, local, net, got, vars
<1>7. ASSUME NEW s \in Sess, CheckOwner(s) \/ FindNoRoom(s) \/ JoinExisting(s)
                               \/ InsertRoom(s) \/ Register(s)
      PROVE  P
  BY <1>0, <1>7
     DEF CheckOwner, FindNoRoom, JoinExisting, InsertRoom, Register, Registered, local, net, got
<1>8. ASSUME NEW s \in Sess, Replay(s) PROVE P
  BY <1>0, <1>8 DEF Replay, local, got
<1>9. ASSUME NEW s \in Sess, Subscribe(s) PROVE P
  BY <1>0, <1>9 DEF Subscribe, local, got
<1>10. ASSUME NEW s \in Sess, SyncProducers(s) \/ SyncDataProducers(s) PROVE P
  BY <1>0, <1>10 DEF SyncProducers, SyncDataProducers, Producers, local, got
<1>11. ASSUME NEW s \in Sess, SendRelayed(s) PROVE P
  <2>1. \A u \in Sess : relayed[u] \subseteq relayed'[u] /\ missed[u] \subseteq missed'[u]
    BY <1>0, <1>11, BroadcastAdds DEF SendRelayed
  <2> QED
    BY <1>0, <1>11, <2>1 DEF SendRelayed
<1>12. ASSUME NEW s \in Sess, CacheNegotiation(s) PROVE P
  BY <1>0, <1>12 DEF CacheNegotiation, local, net, got
<1>13. ASSUME NEW s \in Sess, Announce(s) PROVE P
  <2>1. \A u \in Sess : /\ relayed[u] \subseteq relayed'[u] /\ missed[u] \subseteq missed'[u]
                        /\ u \in sub => held[s] \in relayed'[u] \cup missed'[u]
    BY <1>0, <1>13, BroadcastAdds DEF Announce
  <2>2. /\ pc' = [pc EXCEPT ![s] = "relay"] /\ pc[s] = "announce"
        /\ DOMAIN held' = Sess /\ \A t \in Sess \ {s} : held'[t] = held[t]
        /\ UNCHANGED <<producers, sub, direct>>
    BY <1>0, <1>13 DEF Announce
  <2>3. ASSUME NEW u \in sub, NEW p \in producers,
               \/ pc'[u] = "syncdata" /\ p.kind = "media"
               \/ pc'[u] \in {"relay", "send", "cache", "announce"}
        PROVE  Told(u, p)'
    <3>1. \/ pc[u] = "syncdata" /\ p.kind = "media"
          \/ pc[u] \in {"relay", "send", "cache", "announce"}
      BY <1>0, <2>2, <2>3
    <3>2. CASE \E t \in Sess \ {s} : pc[t] = "announce" /\ held[t] = p
      <4>1. PICK t \in Sess \ {s} : pc[t] = "announce" /\ held[t] = p
        BY <3>2
      <4>2. pc'[t] = "announce" /\ held'[t] = p
        BY <1>0, <2>2, <4>1
      <4> QED
        BY <4>2
    <3>3. CASE p = held[s] \/ p \in direct[u] \cup relayed[u] \cup missed[u]
      BY <1>0, <2>1, <2>2, <3>3
    <3> QED
      BY <1>0, <3>1, <3>2, <3>3
  <2> QED
    BY <1>0, <2>2, <2>3
<1>14. ASSUME NEW s \in Sess, Leaving(s) PROVE P
  BY <1>0, <1>14 DEF Leaving, ReadType, ReadHost, RemoveSelf, RetainRooms,
     LookRoomGone, AfterUnbind, DropConsumers, RetainAgain, RemoveSfuRoom, RemoveStatus,
     RemoveOwner, local, net, got
<1>15. CASE Administering \/ RetainElsewhere \/ Shutdown \/ UNCHANGED vars
  BY <1>0, <1>15 DEF Administering, RemoveRoom, RetainKicked, KickPeer,
     RetainElsewhere, Shutdown, vars, local, net, got
<1> QED
  BY <1>1, <1>2, <1>3, <1>4, <1>5, <1>6, <1>7, <1>8, <1>9, <1>10, <1>11, <1>12, <1>13,
     <1>14, <1>15 DEF Next, Asking, Joining, Handling

(* A session in its message loop that receives the broadcast knows of every   *)
(* producer of the room, or is about to be told, but for those it was skipped *)
(* over when it lagged (signaling.rs:669-715 against 1216-1234, and 655-657). *)
THEOREM EveryProducerAnnounced == Spec => []ProducersAnnounced
<1>1. Init => ProducersInv
  BY TypesInit DEF Init, ProducersInv, AnnouncedOK
<1>2. ProducersInv /\ [Next]_vars => ProducersInv'
  BY ProducersStep, TypesStep DEF ProducersInv
<1>3. ProducersInv => ProducersAnnounced
  BY DEF ProducersInv, AnnouncedOK, ProducersAnnounced, Joined, Told
<1> QED
  BY <1>1, <1>2, <1>3, PTL DEF Spec

(* A producer registered under its session's own id belongs to a session that *)
(* has not left.                                                              *)
OwnersThere ==
    /\ DOMAIN held = Sess
    /\ \A p \in producers :
           p.peer = p.by =>
               p.by \in Sess /\ pc[p.by] \in {"relay", "send", "cache", "announce"}

LEMMA OwnersThereStep ==
    ASSUME TypeOK, OwnersThere, [Next]_vars
    PROVE  OwnersThere'
<1> USE DEF OwnersThere, Goto
<1>0. /\ pc \in [Sess -> Steps] /\ client \in [Sess -> Clients \cup {Nobody}]
  BY DEF TypeOK
<1>1. ASSUME NEW s \in Sess, NEW c \in Clients, Arrive(s, c) PROVE OwnersThere'
  BY <1>0, <1>1 DEF Arrive, local
<1>2. ASSUME NEW s \in Sess, NEW k \in MsgKinds, Relay(s, k) PROVE OwnersThere'
  BY <1>0, <1>2 DEF Relay
<1>3. ASSUME NEW s \in Sess, NEW k \in MsgKinds, Produce(s, k) PROVE OwnersThere'
  <2> DEFINE r == [kind |-> k, id |-> nmsg + 1, by |-> s, peer |-> PeerOf(s)]
  <2>1. r.by = s
    OBVIOUS
  <2>2. /\ held' = [held EXCEPT ![s] = r] /\ held'[s] = r
        /\ producers' = producers \cup {r} /\ client' = client
        /\ pc[s] = "relay" /\ pc' = [pc EXCEPT ![s] = "announce"]
    BY <1>3 DEF Produce
  <2> HIDE DEF r
  <2> QED
    BY <1>0, <2>1, <2>2
<1>4. ASSUME NEW s \in Sess, Emergency(s) \/ ReportStatus(s) \/ Ignore(s) \/ RelayFails(s)
                               \/ GiveUp(s)
      PROVE  OwnersThere'
  BY <1>0, <1>4 DEF Emergency, ReportStatus, Ignore, RelayFails, GiveUp, local, vars
<1>5. ASSUME NEW s \in Sess, Leave(s) PROVE OwnersThere'
  BY <1>0, <1>5 DEF Leave, local
<1>6. ASSUME NEW s \in Sess, Joining(s) PROVE OwnersThere'
  BY <1>0, <1>6 DEF Joining, CheckOwner, JoinExisting, InsertRoom, FindNoRoom, Register,
     Registered, Replay, Subscribe, SyncProducers, SyncDataProducers, local
<1>7. ASSUME NEW s \in Sess, Handling(s) PROVE OwnersThere'
  BY <1>0, <1>7 DEF Handling, SendRelayed, CacheNegotiation, Announce, local
<1>8. ASSUME NEW s \in Sess, Leaving(s) PROVE OwnersThere'
  BY <1>0, <1>8 DEF Leaving, ReadType, ReadHost, RemoveSelf, RetainRooms, LookRoomGone,
     AfterUnbind, DropConsumers, RetainAgain, RemoveSfuRoom, RemoveStatus, RemoveOwner, local
<1>9. CASE Administering \/ RetainElsewhere \/ Shutdown \/ UNCHANGED vars
  BY <1>9 DEF Administering, RemoveRoom, RetainKicked, KickPeer, RetainElsewhere,
              Shutdown, local, vars
<1> QED
  BY <1>1, <1>2, <1>3, <1>4, <1>5, <1>6, <1>7, <1>8, <1>9 DEF Next, Asking

(* The producers a session registered under its own peer id go when the       *)
(* session does, whoever else uses which name (signaling.rs:973); what is     *)
(* registered under a shared name may stay behind, as a run shows.            *)
THEOREM ProducersGoWithOwner == Spec => []OwnProducersGone
<1>1. Init => TypeOK /\ OwnersThere
  BY TypesInit DEF Init, OwnersThere
<1>2. TypeOK /\ OwnersThere /\ [Next]_vars => (TypeOK /\ OwnersThere)'
  BY TypesStep, OwnersThereStep
<1>3. OwnersThere => OwnProducersGone
  BY DEF OwnersThere, OwnProducersGone, Gone
<1> QED
  BY <1>1, <1>2, <1>3, PTL DEF Spec
=============================================================================
