-------------------------- MODULE SignalingServer --------------------------
(***************************************************************************)
(* One room of the signalling server (mediaservo-server/src/signaling.rs):  *)
(* every WebSocket session runs handle_socket as a task of its own, and the *)
(* tasks share concurrent maps without a common lock.  A step of a session  *)
(* below is the code between two accesses to shared state, so that whatever *)
(* the tasks may interleave is interleaved here.                            *)
(***************************************************************************)
EXTENDS RoomManager, Naturals, Sequences, FiniteSets

CONSTANTS Clients,  \* [who, role, peer] of the sessions that may connect; peer
                    \* says which id its SFU messages carry: "own" or "shared"
          MsgKinds, \* what sessions send: subset of Kinds
          MaxMsgs,  \* bound: messages and producers over a run
          MaxAdmin, \* bound: rooms removed and peers kicked over a run
          NegoCap,  \* cap of the negotiation cache (64)
          MaxLag    \* bound: broadcasts a session is skipped over in a run

Kinds == {"nego", "frame", "emergency", "media", "data"}

ASSUME ServerAssumption ==
    /\ None \notin Sess \cup Devices
    /\ Clients \subseteq [who : Identity, role : PeerRoles,
                          peer : {"own", "shared"}]
    /\ MsgKinds \subseteq Kinds
    /\ MaxMsgs \in Nat /\ MaxAdmin \in Nat /\ NegoCap \in Nat \ {0}
    /\ MaxLag \in Nat

VARIABLES
    room,      \* the room of RoomManager.rooms, or NoRoom
    owner,     \* room_owners of the room
    bound,     \* device_bindings, by session
    status,    \* status_registry of the room: whose report it holds
    cached,    \* pending_messages of the room
    producers, \* media and data producers of the SFU room
    sub,       \* sessions whose relay task is subscribed to the room
    shutdown,  \* the shutdown signal
    kicking,   \* the REST handler is inside leave_room, for a peer it kicks
    nadmin,    \* number of administrator's requests so far (bound)
    pc,        \* where each session's handler is
    client,    \* what each session authenticated and joined as
    held,      \* the message a session is handling
    dropper,   \* is_device_stream_host of a leaving session
    gone,      \* room_removed of a leaving session
    direct,    \* what was written to a session's socket by its own handler
    relayed,   \* what a session's relay task has sent on or will, of the room
               \* broadcast
    missed,    \* what it was skipped over when it lagged
    nmsg       \* number of messages so far (bound and identity)

maps  == <<room, owner, status>>
local == <<held, dropper, gone>>
got   == <<relayed, missed>>
net   == <<sub, direct, got>>
env   == <<shutdown, kicking, nadmin>>
vars  == <<room, owner, bound, status, cached, producers, sub, env, pc,
           client, held, dropper, gone, direct, got, nmsg>>

-----------------------------------------------------------------------------
Nobody == [who |-> LegacyIdentity, role |-> "consumer", peer |-> "own"]

Blank == [kind |-> "frame", id |-> 0]

Producers(k) == {p \in producers : p.kind = k}

Cache == {cached[i] : i \in 1 .. Len(cached)}

Identified(s) == client[s].who

Init ==
    /\ room = NoRoom /\ owner = None /\ status = None
    /\ bound = [s \in Sess |-> None]
    /\ cached = <<>> /\ producers = {} /\ sub = {}
    /\ shutdown = FALSE /\ kicking = FALSE /\ nadmin = 0
    /\ pc = [s \in Sess |-> "idle"]
    /\ client = [s \in Sess |-> Nobody]
    /\ held = [s \in Sess |-> Blank]
    /\ dropper = [s \in Sess |-> FALSE] /\ gone = [s \in Sess |-> FALSE]
    /\ direct = [s \in Sess |-> {}] /\ relayed = [s \in Sess |-> {}]
    /\ missed = [s \in Sess |-> {}]
    /\ nmsg = 0

Goto(s, from, to) == pc[s] = from /\ pc' = [pc EXCEPT ![s] = to]

(* tx.send: it is kept for every subscribed session, the sender included,   *)
(* unless the relay task falls behind by the channel's capacity (4096)      *)
(* before it comes to it: the receiver is then moved past it (Lagged), and  *)
(* the task goes on with what is left.  Which these are is chosen here.     *)
Broadcast(m) ==
    \E lagging \in SUBSET sub :
        /\ lagging # {} => Cardinality(UNION {missed[t] : t \in Sess}) < MaxLag
        /\ missed' = [t \in Sess |-> IF t \in lagging THEN missed[t] \cup {m}
                                     ELSE missed[t]]
        /\ relayed' = [t \in Sess |-> IF t \in sub \ lagging
                                      THEN relayed[t] \cup {m} ELSE relayed[t]]

-----------------------------------------------------------------------------
(* Joining.                                                                 *)

(* The RoomJoin of an authenticated client, and the gates that look only at *)
(* who it is: an account is no host, and a remote must be able to control.  *)
(* The shutdown signal was looked at before the wait for the message.       *)
Arrive(s, c) ==
    /\ pc[s] = "idle"
    /\ client' = [client EXCEPT ![s] = c]
    /\ pc' = [pc EXCEPT ![s] =
                  IF \/ c.role = "host" /\ ~MayJoinAsHost(c.who)
                     \/ c.role = "remote" /\ ~CanControl(c.who)
                  THEN "done" ELSE "check"]
    /\ UNCHANGED <<maps, bound, cached, producers, net, env, local, nmsg>>

(* The gate that looks at the owner of the room.                            *)
CheckOwner(s) ==
    /\ Goto(s, "check",
            IF MayJoinVehicleRoom(Identified(s), owner) THEN "lookup" ELSE "done")
    /\ UNCHANGED <<maps, bound, cached, producers, net, env, client,
                   local, nmsg>>

(* Only the sessions of a device have something to register.                *)
Registered(s) ==
    IF Identified(s).kind = "device" THEN "register" ELSE "replay"

(* Wrong variant: joining without looking whether the room is there.        *)
JoinUnchecked(s) ==
    /\ Goto(s, "lookup",
            IF IsFull(room, client[s].role) THEN "done" ELSE Registered(s))
    /\ room' = IF IsFull(room, client[s].role) THEN room
               ELSE WithPeer(room, s, client[s].role)
    /\ UNCHANGED <<owner, status, bound, cached, producers, net, env,
                   client, local, nmsg>>

(* join_room: the room exists, and is joined or refused (4002) under its    *)
(* lock.                                                                    *)
JoinExisting(s) ==
    /\ room # NoRoom
    /\ Goto(s, "lookup",
            IF IsFull(room, client[s].role) THEN "done" ELSE Registered(s))
    /\ room' = IF IsFull(room, client[s].role) THEN room
               ELSE WithPeer(room, s, client[s].role)
    /\ UNCHANGED <<owner, status, bound, cached, producers, net, env,
                   client, local, nmsg>>

(* It does not, and a room of this session's own is inserted later: in the  *)
(* meantime the map is not locked.                                          *)
FindNoRoom(s) ==
    /\ room = NoRoom
    /\ Goto(s, "lookup", "insert")
    /\ UNCHANGED <<maps, bound, cached, producers, net, env, client,
                   local, nmsg>>

InsertRoom(s) ==
    /\ Goto(s, "insert", Registered(s))
    /\ room' = CreatedBy(s, client[s].role)
    /\ UNCHANGED <<owner, status, bound, cached, producers, net, env,
                   client, local, nmsg>>

(* device_bindings is keyed by the session itself, so that binding and      *)
(* registering the owner can be one step.                                   *)
Register(s) ==
    /\ Goto(s, "register", "replay")
    /\ bound' = [bound EXCEPT ![s] = Identified(s).device]
    /\ owner' = Identified(s).device
    /\ UNCHANGED <<room, status, cached, producers, net, env, client,
                   local, nmsg>>

(* Wrong variant: subscribing before the cached negotiation is replayed.    *)
ReplaySubscribed(s) ==
    \/ /\ Goto(s, "replay", "replay")
       /\ s \notin sub
       /\ sub' = sub \cup {s}
       /\ UNCHANGED <<maps, bound, cached, producers, direct, got,
                      env, client, local, nmsg>>
    \/ /\ Goto(s, "replay", "subscribe")
       /\ s \in sub
       /\ direct' = [direct EXCEPT ![s] = Cache]
       /\ UNCHANGED <<maps, bound, cached, producers, sub, got, env,
                      client, local, nmsg>>

(* RoomJoined, then the negotiation so far, read under the cache's lock.    *)
Replay(s) ==
    /\ Goto(s, "replay", "subscribe")
    /\ direct' = [direct EXCEPT ![s] = Cache]
    /\ UNCHANGED <<maps, bound, cached, producers, sub, got, env,
                   client, local, nmsg>>

Subscribe(s) ==
    /\ Goto(s, "subscribe", "sync")
    /\ sub' = sub \cup {s}
    /\ UNCHANGED <<maps, bound, cached, producers, direct, got, env,
                   client, local, nmsg>>

SyncProducers(s) ==
    /\ Goto(s, "sync", "syncdata")
    /\ direct' = [direct EXCEPT ![s] = @ \cup Producers("media")]
    /\ UNCHANGED <<maps, bound, cached, producers, sub, got, env,
                   client, local, nmsg>>

(* Wrong variant: the late joiner is told of media producers only.          *)
SyncNoDataProducers(s) ==
    /\ Goto(s, "syncdata", "relay")
    /\ UNCHANGED <<maps, bound, cached, producers, net, env, client,
                   local, nmsg>>

SyncDataProducers(s) ==
    /\ Goto(s, "syncdata", "relay")
    /\ direct' = [direct EXCEPT ![s] = @ \cup Producers("data")]
    /\ UNCHANGED <<maps, bound, cached, producers, sub, got, env,
                   client, local, nmsg>>

-----------------------------------------------------------------------------
(* The message loop.                                                        *)

(* Sdp, RTCIceCandidate, Frame and EncoderStatus are relayed: a DeviceStream *)
(* room carries no negotiation, another room only that of sessions that may *)
(* control.  The type of the room is read here, the message sent later.     *)
Relay(s, k) ==
    /\ k \in {"nego", "frame"}
    /\ nmsg < MaxMsgs
    /\ ~shutdown
    /\ k = "nego" => ~IsDeviceStream(room) /\ CanControl(Identified(s))
    /\ Goto(s, "relay", "send")
    /\ held' = [held EXCEPT ![s] = [kind |-> k, id |-> nmsg + 1]]
    /\ nmsg' = nmsg + 1
    /\ UNCHANGED <<maps, bound, cached, producers, net, env, client,
                   dropper, gone>>

(* Without a receiver the message is dropped; only negotiation is cached,   *)
(* and only once it was sent.                                               *)
SendRelayed(s) ==
    /\ LET caches == held[s].kind = "nego" /\ sub # {}
       IN  /\ Goto(s, "send", IF caches THEN "cache" ELSE "relay")
           /\ held' = [held EXCEPT ![s] = IF caches THEN @ ELSE Blank]
    /\ Broadcast(held[s])
    /\ UNCHANGED <<maps, bound, cached, producers, sub, direct, env,
                   client, dropper, gone, nmsg>>

CacheNegotiation(s) ==
    /\ Goto(s, "cache", "relay")
    /\ cached' = IF Len(cached) < NegoCap THEN Append(cached, held[s])
                 ELSE Append(Tail(cached), held[s])
    /\ held' = [held EXCEPT ![s] = Blank]
    /\ UNCHANGED <<maps, bound, producers, net, env, client, dropper, gone,
                   nmsg>>

ReportStatus(s) ==
    /\ pc[s] = "relay"
    /\ ~shutdown
    /\ MayReportStatus(Identified(s), client[s].role)
    /\ status' = s
    /\ UNCHANGED <<room, owner, bound, cached, producers, net, env, pc,
                   client, local, nmsg>>

(* EmergencyCommand, audited and passed on if the sender may stop the       *)
(* vehicle that owns the room.                                              *)
Emergency(s) ==
    /\ "emergency" \in MsgKinds
    /\ pc[s] = "relay"
    /\ ~shutdown
    /\ nmsg < MaxMsgs
    /\ CanEmergency(Identified(s), owner)
    /\ Broadcast([kind |-> "emergency", id |-> nmsg + 1])
    /\ nmsg' = nmsg + 1
    /\ UNCHANGED <<maps, bound, cached, producers, sub, direct, env, pc,
                   client, local>>

(* Whatever is refused, filtered or not relayed changes nothing: it is      *)
(* answered 4031 or dropped.                                                *)
Ignore(s) ==
    /\ pc[s] = "relay"
    /\ ~shutdown
    /\ UNCHANGED vars

(* Produce and CreateDataProducer: the SFU registers the producer under the *)
(* peer id of the message, the announcement follows.                        *)
PeerOf(s) == IF client[s].peer = "own" THEN s ELSE "host"

Produce(s, k) ==
    /\ k \in {"media", "data"}
    /\ nmsg < MaxMsgs
    /\ ~shutdown
    /\ CanProduce(Identified(s))
    /\ Goto(s, "relay", "announce")
    /\ held' = [held EXCEPT ![s] = [kind |-> k, id |-> nmsg + 1, by |-> s,
                                    peer |-> PeerOf(s)]]
    /\ producers' = producers \cup {held'[s]}
    /\ nmsg' = nmsg + 1
    /\ UNCHANGED <<maps, bound, cached, net, env, client, dropper, gone>>

Announce(s) ==
    /\ Goto(s, "announce", "relay")
    /\ Broadcast(held[s])
    /\ held' = [held EXCEPT ![s] = Blank]
    /\ UNCHANGED <<maps, bound, cached, producers, sub, direct, env,
                   client, dropper, gone, nmsg>>

(* The relay task cannot write to the socket any more; the session itself   *)
(* goes on until it reads the end of it.                                    *)
RelayFails(s) ==
    /\ s \in sub
    /\ sub' = sub \ {s}
    /\ UNCHANGED <<maps, bound, cached, producers, direct, got, env,
                   pc, client, local, nmsg>>

-----------------------------------------------------------------------------
(* Leaving: a RoomLeave, the end of the socket, or the first message after  *)
(* the shutdown signal.  The RoomLeave broadcast on the way out is not      *)
(* kept: no session of the server acts on it.                               *)

(* What was written to a socket that is closed is of no more interest.      *)
Forget(s) ==
    /\ direct' = [direct EXCEPT ![s] = {}]
    /\ relayed' = [relayed EXCEPT ![s] = {}]
    /\ missed' = [missed EXCEPT ![s] = {}]

(* Wrong variant: leaving the SFU peer behind.                              *)
LeaveSfuPeer(s) ==
    /\ Goto(s, "relay", "type")
    /\ sub' = sub \ {s}
    /\ Forget(s)
    /\ UNCHANGED <<maps, bound, cached, producers, env, client, local, nmsg>>

(* The relay task is aborted and sfu.remove_peer takes what is registered   *)
(* under the session's own peer id.                                         *)
Leave(s) ==
    /\ Goto(s, "relay", "type")
    /\ sub' = sub \ {s}
    /\ producers' = {p \in producers : p.peer # s}
    /\ Forget(s)
    /\ UNCHANGED <<maps, bound, cached, env, client, local, nmsg>>

(* A client that goes away before it joined left nothing to clean.          *)
GiveUp(s) ==
    /\ pc[s] = "idle"
    /\ pc' = [pc EXCEPT ![s] = "done"]
    /\ UNCHANGED <<maps, bound, cached, producers, net, env, client,
                   local, nmsg>>

ReadType(s) ==
    /\ Goto(s, "type", IF IsDeviceStream(room) THEN "host" ELSE "remove")
    /\ UNCHANGED <<maps, bound, cached, producers, net, env, client,
                   local, nmsg>>

ReadHost(s) ==
    /\ Goto(s, "host", "remove")
    /\ dropper' = [dropper EXCEPT ![s] = room.host = s]
    /\ UNCHANGED <<maps, bound, cached, producers, net, env, client,
                   held, gone, nmsg>>

(* leave_room, in three critical sections.                                  *)
RemoveSelf(s) ==
    /\ Goto(s, "remove", "retain")
    /\ room' = WithoutPeer(room, s)
    /\ UNCHANGED <<owner, status, bound, cached, producers, net, env,
                   client, local, nmsg>>

(* Wrong variant: an empty room is kept for its next member.                *)
RetainAll(s) ==
    /\ Goto(s, "retain", "gone")
    /\ UNCHANGED <<maps, bound, cached, producers, net, env, client,
                   local, nmsg>>

RetainRooms(s) ==
    /\ Goto(s, "retain", "gone")
    /\ room' = Retained(room)
    /\ UNCHANGED <<owner, status, bound, cached, producers, net, env,
                   client, local, nmsg>>

AfterUnbind(s) == IF gone'[s] THEN "sfu" ELSE "done"

(* Wrong variant: the binding outlives the connection.                      *)
LookRoomStillBound(s) ==
    /\ pc[s] = "gone"
    /\ gone' = [gone EXCEPT ![s] = room = NoRoom]
    /\ pc' = [pc EXCEPT ![s] = IF dropper[s] THEN "drop" ELSE AfterUnbind(s)]
    /\ UNCHANGED <<maps, bound, cached, producers, net, env, client,
                   held, dropper, nmsg>>

(* Is the room gone?  The session's own binding is released next.           *)
LookRoomGone(s) ==
    /\ pc[s] = "gone"
    /\ gone' = [gone EXCEPT ![s] = room = NoRoom]
    /\ bound' = [bound EXCEPT ![s] = None]
    /\ pc' = [pc EXCEPT ![s] = IF dropper[s] THEN "drop" ELSE AfterUnbind(s)]
    /\ UNCHANGED <<maps, cached, producers, net, env, client, held,
                   dropper, nmsg>>

(* disconnect_consumers, in two critical sections: the consumers lose their *)
(* place in the room, not their sockets.                                    *)
DropConsumers(s) ==
    /\ Goto(s, "drop", "redrop")
    /\ room' = WithoutConsumers(room)
    /\ UNCHANGED <<owner, status, bound, cached, producers, net, env,
                   client, local, nmsg>>

RetainAgain(s) ==
    /\ Goto(s, "redrop", IF gone[s] THEN "sfu" ELSE "done")
    /\ room' = Retained(room)
    /\ UNCHANGED <<owner, status, bound, cached, producers, net, env,
                   client, local, nmsg>>

(* A room that was gone takes its SFU room, status and owner with it, one   *)
(* after the other.                                                         *)
RemoveSfuRoom(s) ==
    /\ Goto(s, "sfu", "status")
    /\ producers' = {}
    /\ UNCHANGED <<maps, bound, cached, net, env, client, local, nmsg>>

RemoveStatus(s) ==
    /\ Goto(s, "status", "owner")
    /\ status' = None
    /\ UNCHANGED <<room, owner, bound, cached, producers, net, env,
                   client, local, nmsg>>

RemoveOwner(s) ==
    /\ Goto(s, "owner", "done")
    /\ owner' = None
    /\ gone' = [gone EXCEPT ![s] = FALSE]
    /\ UNCHANGED <<room, status, bound, cached, producers, net, env,
                   client, held, dropper, nmsg>>

-----------------------------------------------------------------------------
(* A session leaving another room drops every empty room it finds.          *)
RetainElsewhere ==
    /\ room # NoRoom
    /\ IsEmpty(room)
    /\ room' = NoRoom
    /\ UNCHANGED <<owner, status, bound, cached, producers, net, env, pc,
                   client, local, nmsg>>

Shutdown ==
    /\ ~shutdown
    /\ shutdown' = TRUE
    /\ UNCHANGED <<maps, bound, cached, producers, net, kicking, nadmin, pc,
                   client, local, nmsg>>

(* DELETE of a room: the record goes, its sessions know nothing of it.      *)
RemoveRoom ==
    /\ room # NoRoom /\ nadmin < MaxAdmin
    /\ nadmin' = nadmin + 1
    /\ room' = NoRoom
    /\ UNCHANGED <<owner, status, bound, cached, producers, net, shutdown,
                   kicking, pc, client, local, nmsg>>

(* A peer is kicked: leave_room takes it out of the record, in two critical *)
(* sections; its session stays, relaying and subscribed as before.          *)
KickPeer(s) ==
    /\ s \in Members(room) /\ ~kicking /\ nadmin < MaxAdmin
    /\ nadmin' = nadmin + 1
    /\ kicking' = TRUE
    /\ room' = WithoutPeer(room, s)
    /\ UNCHANGED <<owner, status, bound, cached, producers, net, shutdown, pc,
                   client, local, nmsg>>

RetainKicked ==
    /\ kicking /\ kicking' = FALSE
    /\ room' = Retained(room)
    /\ UNCHANGED <<owner, status, bound, cached, producers, net, shutdown,
                   nadmin, pc, client, local, nmsg>>

(* What the server's tasks do on their own, once a client is there.         *)
Joining(s) ==
    \/ CheckOwner(s) \/ JoinExisting(s) \/ FindNoRoom(s) \/ InsertRoom(s)
    \/ Register(s) \/ Replay(s) \/ Subscribe(s)
    \/ SyncProducers(s) \/ SyncDataProducers(s)

Handling(s) == SendRelayed(s) \/ CacheNegotiation(s) \/ Announce(s)

Leaving(s) ==
    \/ ReadType(s) \/ ReadHost(s) \/ RemoveSelf(s) \/ RetainRooms(s)
    \/ LookRoomGone(s) \/ DropConsumers(s) \/ RetainAgain(s)
    \/ RemoveSfuRoom(s) \/ RemoveStatus(s) \/ RemoveOwner(s)

(* What a client makes its session do.                                      *)
Asking(s) ==
    \/ \E c \in Clients : Arrive(s, c)
    \/ \E k \in MsgKinds : Relay(s, k) \/ Produce(s, k)
    \/ ReportStatus(s) \/ Emergency(s) \/ Ignore(s)
    \/ GiveUp(s) \/ RelayFails(s) \/ Leave(s)

(* What the REST handlers of admin.rs do to the room.                       *)
Administering ==
    RemoveRoom \/ RetainKicked \/ \E s \in Sess : KickPeer(s)

Next ==
    \/ \E s \in Sess : Asking(s) \/ Joining(s) \/ Handling(s) \/ Leaving(s)
    \/ Administering
    \/ RetainElsewhere
    \/ Shutdown

Spec == Init /\ [][Next]_vars

-----------------------------------------------------------------------------
(* Properties.                                                              *)

Joined == {s \in Sess : pc[s] \in {"relay", "send", "cache", "announce"}}

Gone == {s \in Sess : pc[s] = "done"}

Steps == {"idle", "check", "lookup", "insert", "register", "replay",
          "subscribe", "sync", "syncdata", "relay", "send", "cache",
          "announce", "type", "host", "remove", "retain", "gone", "drop",
          "redrop", "sfu", "status", "owner", "done"}

(* Every variable keeps its type.                                           *)
TypeOK ==
    /\ room \in Room /\ (room.type = "none" => room = NoRoom)
    /\ owner \in Devices \cup {None} /\ status \in Sess \cup {None}
    /\ bound \in [Sess -> Devices \cup {None}]
    /\ sub \subseteq Sess
    /\ shutdown \in BOOLEAN /\ kicking \in BOOLEAN /\ nadmin \in 0 .. MaxAdmin
    /\ pc \in [Sess -> Steps] /\ client \in [Sess -> Clients \cup {Nobody}]
    /\ dropper \in [Sess -> BOOLEAN] /\ gone \in [Sess -> BOOLEAN]
    /\ DOMAIN direct = Sess /\ DOMAIN relayed = Sess /\ DOMAIN missed = Sess
    /\ nmsg \in 0 .. MaxMsgs

(* A session that was refused or has left leaves nothing of its own: no     *)
(* place in the room, no device binding, no subscription                    *)
(* (signaling.rs:110-113 and 994-1001).                                     *)
DepartedForgotten ==
    \A s \in Gone : s \notin Members(room) \cup sub /\ bound[s] = None

(* When the last session has gone the registries hold nothing of the room:  *)
(* not its record, owner, status or SFU producers, whatever the joins and   *)
(* clean-ups of several sessions interleaved, and whoever an administrator  *)
(* kicked or whichever room he removed under them (signaling.rs:1026-1036,  *)
(* admin.rs:334-411).                                                       *)
RegistriesCleared ==
    (\A s \in Sess : pc[s] \in {"idle", "check", "lookup", "done"})
        => room = NoRoom /\ owner = None /\ status = None /\ producers = {}

(* The same of the negotiation cache does not hold: no clean-up touches     *)
(* pending_messages (signaling.rs:949 is its only writer), and whoever next *)
(* takes the room's name is replayed an old offer (signaling.rs:619).       *)
NegotiationGoesWithRoom ==
    (\A s \in Sess : pc[s] \in {"idle", "check", "lookup", "done"})
        => cached = <<>>

(* The producers of a session go when the session does, even if the room    *)
(* stays (signaling.rs:973, gateway.rs:31-32).                              *)
DepartedProducersGone == \A p \in producers : p.by \notin Gone

(* That much holds of the producers a session registered under its own      *)
(* peer id, whoever else is in the room under whatever name.                *)
OwnProducersGone == \A p \in producers : p.peer = p.by => p.by \notin Gone

(* A late joiner is not sent one negotiation message twice: what it gets    *)
(* from the cache was broadcast before it subscribed.                       *)
NoDuplicateNegotiation ==
    \A s \in Sess : \A m \in direct[s] \cap relayed[s] : m.kind # "nego"

(* A session in its message loop that still receives the broadcast knows of *)
(* every producer of the room, or is about to be told, but for those whose  *)
(* announcement it was skipped over when it lagged                          *)
(* (signaling.rs:669-715 against 1216-1234, and 655-657).                   *)
ProducersAnnounced ==
    \A s \in Joined \cap sub, p \in producers :
        \/ p \in direct[s] \cup relayed[s] \cup missed[s]
        \/ \E t \in Sess : pc[t] = "announce" /\ held[t] = p

(* Without the exception it does not hold: nothing repeats an announcement, *)
(* and the relay task only logs that it lagged (signaling.rs:655-657).      *)
LaggingStillTold ==
    \A s \in Joined \cap sub, p \in producers :
        \/ p \in direct[s] \cup relayed[s]
        \/ \E t \in Sess : pc[t] = "announce" /\ held[t] = p

(* A room has at most one host (room.rs:50 and 80).                         *)
OneHost ==
    \A s, t \in Joined :
        client[s].role = "host" /\ client[t].role = "host" => s = t
=============================================================================
