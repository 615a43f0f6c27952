------------------------------ MODULE Gateway ------------------------------
(***************************************************************************)
(* The signalling gateway of host-agent (mediaservo-host/src/gateway.rs):   *)
(* many local child connections are multiplexed onto one WebSocket session  *)
(* with the signalling server, and the server's anonymous answers have to   *)
(* find their way back to the child that asked.                             *)
(*                                                                          *)
(* Messages keep only what routing looks at.  The fields origin, slot, id   *)
(* and sess are ghosts: no routing decision of the gateway reads origin,    *)
(* slot or sess, and id stands for the text the echo cache compares.        *)
(***************************************************************************)
EXTENDS Naturals, Sequences, FiniteSets

CONSTANTS MaxConns,    \* bound: local connections accepted over a run
          MaxMsgs,     \* bound: messages accepted from children and agent
          MaxPeer,     \* bound: messages the rest of the room sends
          MaxSessions, \* bound: remote sessions
          EventCap,    \* capacity of the session's event channel (64)
          EchoCap,     \* ECHO_CACHE_CAP (256)
          ChildKinds,  \* kinds of message children send
          AgentKinds,  \* kinds of message the agent itself sends
          PeerKinds,   \* kinds of message the rest of the room sends
          Losses       \* how the remote connection may be lost

Kinds == {"sfu", "data", "nego", "media", "status"}

ASSUME GatewayAssumption ==
    /\ MaxConns \in Nat /\ MaxMsgs \in Nat /\ MaxPeer \in Nat
    /\ MaxSessions \in Nat
    /\ EventCap \in Nat \ {0} /\ EchoCap \in Nat \ {0}
    /\ ChildKinds \subseteq Kinds \ {"status"}
    /\ AgentKinds \subseteq {"status", "media"}
    /\ PeerKinds \subseteq {"nego", "media", "room"}
    /\ Losses \subseteq {"disconnected", "error"}

VARIABLES
    conns,     \* State.conns: ids of the live child connections
    nextId,    \* State.next_id
    pending,   \* State.pending: ids awaiting an SFU answer, oldest first
    owner,     \* State.p2p_owner, 0 for None
    echo,      \* State.echo_cache
    joined,    \* State.joined
    phase,     \* where remote_loop is
    session,   \* number of the current (or last) remote session
    alive,     \* the session's background task is running
    remoteRx,  \* the channel conn_task -> remote_loop
    wire,      \* session channel, WebSocket and server input, oldest first
    chan,      \* the vehicle's receiver of the server's room broadcast
    replay,    \* cached SDP/ICE the server still replays to this session
    cached,    \* the server's pending_messages of the vehicle room
    events,    \* SignalSession events not yet received by run_session
    delivered, \* ghost: what this session handed to which child
    nmsg,      \* number of messages accepted so far (bound and identity)
    npeer,     \* number of messages the rest of the room sent (bound)
    pushed, sent, answered, popped,
               \* ghosts: how many SFU requests of this session were pushed
               \* onto pending, sent, answered by the server, and popped
    skewed     \* ghost: an answer was dropped before it was read, or an
               \* Error answered a message that holds no slot

child == <<conns, nextId>>
route == <<pending, owner, echo, joined>>
link  == <<phase, session, alive>>
srv   == <<chan, replay, cached>>
count == <<nmsg, npeer>>
slots == <<pushed, sent, answered, popped>>
ghost == <<delivered, slots, skewed>>
vars  == <<conns, nextId, pending, owner, echo, joined,
           phase, session, alive, remoteRx, wire, chan, replay, cached,
           events, delivered, nmsg, npeer, pushed, sent, answered,
           popped, skewed>>

-----------------------------------------------------------------------------
Agent == 0

ConnIds == 1 .. MaxConns

EventKinds == {"resp", "nego", "media", "room", "disconnected", "error"}

Msg == [kind : Kinds \cup EventKinds, origin : 0 .. MaxConns,
        slot : Nat, id : Nat, sess : Nat]

(* A message of the server or of another member of the room.               *)
Foreign(kind) ==
    [kind |-> kind, origin |-> 0, slot |-> 0, id |-> 0, sess |-> session]

IsSfuRequest(m) == m.kind = "sfu"

IsRelayMsg(m) == m.kind \in {"nego", "media"}

IsResponse(m) == m.kind = "resp"

Init ==
    /\ conns = {} /\ nextId = 1
    /\ pending = <<>> /\ owner = 0 /\ echo = <<>> /\ joined = FALSE
    /\ phase = "connecting" /\ session = 0 /\ alive = FALSE
    /\ remoteRx = <<>> /\ wire = <<>> /\ events = <<>>
    /\ chan = <<>> /\ replay = <<>> /\ cached = <<>>
    /\ delivered = {} /\ nmsg = 0 /\ npeer = 0
    /\ pushed = 0 /\ sent = 0 /\ answered = 0 /\ popped = 0 /\ skewed = FALSE

-----------------------------------------------------------------------------
(* Local connections.                                                       *)

Accept ==
    /\ nextId <= MaxConns
    /\ conns' = conns \cup {nextId}
    /\ nextId' = nextId + 1
    /\ UNCHANGED <<route, link, remoteRx, wire, srv,
                   events, count, ghost>>

(* Wrong variant: taking the dead connection's slots out of the FIFO.       *)
RemoveConnShifting(c) ==
    /\ c \in conns
    /\ conns' = conns \ {c}
    /\ pending' = SelectSeq(pending, LAMBDA p : p # c)
    /\ owner' = IF owner = c THEN 0 ELSE owner
    /\ UNCHANGED <<nextId, echo, joined, link, remoteRx, wire, srv, events,
                   count, ghost>>

(* Wrong variant: leaving the negotiation with a dead connection.           *)
RemoveConnKeepingOwner(c) ==
    /\ c \in conns
    /\ conns' = conns \ {c}
    /\ UNCHANGED <<nextId, route, link, remoteRx, wire, srv, events, count,
                   ghost>>

(* The mark-dead rule: a dead connection keeps its slots in pending, where  *)
(* their own answers will pop them.                                         *)
RemoveConn(c) ==
    /\ c \in conns
    /\ conns' = conns \ {c}
    /\ owner' = IF owner = c THEN 0 ELSE owner
    /\ UNCHANGED <<nextId, pending, echo, joined, link, remoteRx, wire, srv,
                   events, count, ghost>>

(* State.upstream.  RoomJoin and RoomLeave never leave the gateway: the     *)
(* first is answered RoomJoined or 5001, the second dropped, and neither    *)
(* touches the state kept here.                                             *)
Intercept(c) ==
    /\ c \in conns
    /\ UNCHANGED vars

(* Everything else is refused with 5001 before any state is recorded, or    *)
(* recorded and sent in one critical section.                               *)

(* Wrong variant: recording the slot before looking at joined.              *)
RefuseAfterPush(c, k) ==
    /\ c \in conns
    /\ k \in ChildKinds
    /\ ~joined
    /\ Len(pending) < MaxMsgs
    /\ pending' = IF k = "sfu" THEN Append(pending, c) ELSE pending
    /\ UNCHANGED <<child, owner, echo, joined, link, remoteRx, wire, srv,
                   events, count, ghost>>

Refuse(c, k) ==
    /\ c \in conns
    /\ k \in ChildKinds
    /\ ~joined
    /\ UNCHANGED vars

Stamp(c, k) ==
    [kind |-> k, origin |-> c, id |-> nmsg + 1, sess |-> session,
     slot |-> IF k = "sfu" THEN pushed + 1 ELSE 0]

(* Wrong variant: remembering negotiation only.                             *)
RememberNegotiation(m) == IF m.kind = "nego" THEN Append(echo, m.id) ELSE echo

(* echo_cache, capped: the oldest text makes room for the newest.           *)
Remember(m) ==
    IF ~IsRelayMsg(m) THEN echo
    ELSE IF Len(echo) < EchoCap THEN Append(echo, m.id)
    ELSE Append(Tail(echo), m.id)

(* Wrong variant: pushing the slot and sending in two critical sections, so *)
(* that a message may overtake those of other connections.                  *)
ForwardOvertaking(c, k) ==
    LET m == Stamp(c, k)
    IN  /\ c \in conns
        /\ k \in ChildKinds
        /\ joined
        /\ nmsg < MaxMsgs
        /\ pending' = IF IsSfuRequest(m) THEN Append(pending, c) ELSE pending
        /\ pushed' = IF IsSfuRequest(m) THEN pushed + 1 ELSE pushed
        /\ owner' = IF k = "nego" THEN c ELSE owner
        /\ echo' = Remember(m)
        /\ remoteRx' = <<m>> \o remoteRx
        /\ nmsg' = nmsg + 1
        /\ UNCHANGED <<child, joined, link, wire, srv, events, npeer,
                       delivered, sent, answered, popped, skewed>>

Forward(c, k) ==
    LET m == Stamp(c, k)
    IN  /\ c \in conns
        /\ k \in ChildKinds
        /\ joined
        /\ nmsg < MaxMsgs
        /\ pending' = IF IsSfuRequest(m) THEN Append(pending, c) ELSE pending
        /\ pushed' = IF IsSfuRequest(m) THEN pushed + 1 ELSE pushed
        /\ owner' = IF k = "nego" THEN c ELSE owner
        /\ echo' = Remember(m)
        /\ remoteRx' = Append(remoteRx, m)
        /\ nmsg' = nmsg + 1
        /\ UNCHANGED <<child, joined, link, wire, srv, events, npeer,
                       delivered, sent, answered, popped, skewed>>

(* GatewayHandle.send_remote: the status reporter's StatusReport and        *)
(* EncoderStatus.  Neither the FIFO nor the echo cache hears of them.       *)
(* A report is sent every 5 s: the model lets one be on its way at a time,   *)
(* which keeps its number unbounded and its queue short.                    *)
Report == [kind |-> "status", origin |-> Agent, slot |-> 0, id |-> 0,
           sess |-> session]

Queued(m) == \/ \E i \in 1 .. Len(remoteRx) : remoteRx[i] = m
             \/ \E i \in 1 .. Len(wire) : wire[i] = m

SendReport ==
    /\ "status" \in AgentKinds
    /\ joined
    /\ ~Queued(Report)
    /\ remoteRx' = Append(remoteRx, Report)
    /\ UNCHANGED <<child, route, link, wire, srv, events, count,
                   ghost>>

SendEncoderStatus ==
    /\ "media" \in AgentKinds
    /\ joined
    /\ nmsg < MaxMsgs
    /\ remoteRx' = Append(remoteRx, Stamp(Agent, "media"))
    /\ nmsg' = nmsg + 1
    /\ UNCHANGED <<child, route, link, wire, srv, events, npeer,
                   ghost>>

-----------------------------------------------------------------------------
(* The session's events reach run_session through a broadcast channel: with *)
(* no receiver yet they are lost, and a full channel drops its oldest one   *)
(* (RecvError::Lagged, which run_session only logs).                        *)

Subscribed == phase = "running"

Emit(e) ==
    IF ~Subscribed THEN UNCHANGED <<events, skewed>>
    ELSE IF Len(events) < EventCap
    THEN /\ events' = Append(events, e)
         /\ skewed' = (skewed \/ (IsResponse(e) /\ e.slot = 0))
    ELSE /\ events' = Append(Tail(events), e)
         /\ skewed' = \/ skewed
                      \/ IsResponse(Head(events))
                      \/ IsResponse(e) /\ e.slot = 0

(* The server, as far as one vehicle session can tell (signaling.rs): after *)
(* the RoomJoined ack it replays the cached negotiation, then handles the   *)
(* session's messages one by one, answering each SFU request exactly once   *)
(* and relaying the rest to the whole room, the sender included.            *)

ServerReplay ==
    /\ alive
    /\ replay # <<>>
    /\ Emit(Head(replay))
    /\ replay' = Tail(replay)
    /\ UNCHANGED <<child, route, link, remoteRx, wire, chan, cached,
                   count, delivered, slots>>

ServerReady == alive /\ replay = <<>> /\ wire # <<>>

AnswerSfu ==
    /\ ServerReady
    /\ IsSfuRequest(Head(wire))
    /\ Emit([Head(wire) EXCEPT !.kind = "resp"])
    /\ wire' = Tail(wire)
    /\ answered' = answered + 1
    /\ UNCHANGED <<child, route, link, remoteRx, srv, count, delivered,
                   pushed, sent, popped>>

(* CreateDataProducer and ConsumeData: success is one more broadcast kind   *)
(* for the gateway, failure an Error.                                       *)
AnswerData ==
    /\ ServerReady
    /\ Head(wire).kind = "data"
    /\ \E k \in {"room", "resp"} : Emit([Head(wire) EXCEPT !.kind = k])
    /\ wire' = Tail(wire)
    /\ UNCHANGED <<child, route, link, remoteRx, srv, count,
                   delivered, slots>>

RelayRoom ==
    /\ ServerReady
    /\ IsRelayMsg(Head(wire))
    /\ chan' = Append(chan, Head(wire))
    /\ cached' = IF Head(wire).kind = "nego"
                 THEN Append(cached, Head(wire)) ELSE cached
    /\ wire' = Tail(wire)
    /\ UNCHANGED <<child, route, link, remoteRx, replay, events,
                   count, ghost>>

StoreStatus ==
    /\ ServerReady
    /\ Head(wire).kind = "status"
    /\ wire' = Tail(wire)
    /\ UNCHANGED <<child, route, link, remoteRx, srv, events, count,
                   ghost>>

(* The rest of the room sends whether the vehicle is there or not; only     *)
(* negotiation is cached for late joiners.                                  *)
PeerSend(k) ==
    /\ npeer < MaxPeer
    /\ npeer' = npeer + 1
    /\ chan' = IF alive THEN Append(chan, Foreign(k)) ELSE chan
    /\ cached' = IF k = "nego" THEN Append(cached, Foreign(k)) ELSE cached
    /\ UNCHANGED <<child, route, link, remoteRx, wire, replay, events,
                   nmsg, ghost>>

RelayToVehicle ==
    /\ alive
    /\ replay = <<>>
    /\ chan # <<>>
    /\ Emit(Head(chan))
    /\ chan' = Tail(chan)
    /\ UNCHANGED <<child, route, link, remoteRx, wire, replay,
                   cached, count, delivered, slots>>

-----------------------------------------------------------------------------
(* remote_loop and run_session.                                             *)

(* Wrong variant: giving up after the first session.                        *)
ConnectOnce ==
    /\ phase = "connecting"
    /\ session = 0 /\ MaxSessions > 0
    /\ session' = 1
    /\ phase' = "joined"
    /\ joined' = TRUE
    /\ alive' = TRUE
    /\ replay' = cached
    /\ UNCHANGED <<child, pending, owner, echo, remoteRx, wire, chan, cached,
                   events, count, ghost>>

Connect ==
    /\ phase = "connecting"
    /\ session < MaxSessions
    /\ session' = session + 1
    /\ phase' = "joined"
    /\ joined' = TRUE
    /\ alive' = TRUE
    /\ replay' = cached
    /\ UNCHANGED <<child, pending, owner, echo, remoteRx, wire, chan,
                   cached, events, count, ghost>>

Subscribe ==
    /\ phase = "joined"
    /\ phase' = "running"
    /\ UNCHANGED <<child, route, session, alive, remoteRx, wire, srv,
                   events, count, ghost>>

(* The session's background task ends: on a Close it says so with a         *)
(* Disconnected event, on a read error only with an Error event.            *)
LoseConnection(how) ==
    /\ alive
    /\ alive' = FALSE
    /\ Emit(Foreign(how))
    /\ wire' = <<>>
    /\ chan' = <<>>
    /\ replay' = <<>>
    /\ UNCHANGED <<child, route, phase, session, remoteRx, cached,
                   count, delivered, slots>>

(* A write to the socket fails: the background task ends without an event.  *)
WriteFails ==
    /\ alive
    /\ wire # <<>>
    /\ alive' = FALSE
    /\ wire' = <<>>
    /\ chan' = <<>>
    /\ replay' = <<>>
    /\ UNCHANGED <<child, route, phase, session, remoteRx, cached, events,
                   count, ghost>>

(* run_session returns and reset_remote forgets the session; whatever is    *)
(* still queued for it is drained afterwards.                               *)
ResetRemote ==
    /\ joined' = FALSE
    /\ pending' = <<>>
    /\ owner' = 0
    /\ echo' = <<>>
    /\ phase' = "draining"
    /\ alive' = FALSE
    /\ wire' = <<>>
    /\ chan' = <<>>
    /\ replay' = <<>>
    /\ events' = <<>>
    /\ delivered' = {}
    /\ pushed' = 0 /\ sent' = 0 /\ answered' = 0 /\ popped' = 0
    /\ skewed' = FALSE

Disconnected ==
    /\ phase = "running"
    /\ events # <<>>
    /\ Head(events).kind = "disconnected"
    /\ ResetRemote
    /\ UNCHANGED <<child, session, remoteRx, cached, count>>

SendRemote ==
    /\ phase = "running"
    /\ remoteRx # <<>>
    /\ alive
    /\ wire' = Append(wire, Head(remoteRx))
    /\ remoteRx' = Tail(remoteRx)
    /\ sent' = IF IsSfuRequest(Head(remoteRx)) THEN sent + 1 ELSE sent
    /\ UNCHANGED <<child, route, link, srv, events, count, delivered, pushed,
                   answered, popped, skewed>>

(* Wrong variant: logging the failure and going on.                         *)
SendFailsUnnoticed ==
    /\ phase = "running"
    /\ remoteRx # <<>>
    /\ ~alive
    /\ remoteRx' = Tail(remoteRx)
    /\ UNCHANGED <<child, route, link, wire, srv, events, count, ghost>>

SendFails ==
    /\ phase = "running"
    /\ remoteRx # <<>>
    /\ ~alive
    /\ remoteRx' = Tail(remoteRx)
    /\ ResetRemote
    /\ UNCHANGED <<child, session, cached, count>>

(* Wrong variant: reconnecting without emptying the channel.                *)
DrainNothing ==
    /\ phase = "draining"
    /\ phase' = "connecting"
    /\ UNCHANGED <<child, route, session, alive, remoteRx, wire, srv,
                   events, count, ghost>>

Drain ==
    /\ phase = "draining"
    /\ phase' = "connecting"
    /\ remoteRx' = <<>>
    /\ UNCHANGED <<child, route, session, alive, wire, srv, events,
                   count, ghost>>

(* State.downstream: which connections the server's message goes to.        *)
Echoed(m) == IsRelayMsg(m) /\ \E i \in 1 .. Len(echo) : echo[i] = m.id

Targets(m) ==
    IF Echoed(m) \/ m.kind = "error" THEN {}
    ELSE IF IsResponse(m)
    THEN IF pending = <<>> THEN {} ELSE {Head(pending)} \cap conns
    ELSE IF m.kind = "nego" THEN {owner} \cap conns
    ELSE conns

Downstream ==
    LET m == Head(events)
    IN  /\ phase = "running"
        /\ events # <<>>
        /\ m.kind # "disconnected"
        /\ events' = Tail(events)
        /\ delivered' = delivered \cup {[to |-> c, msg |-> m] : c \in Targets(m)}
        /\ pending' = IF IsResponse(m) /\ pending # <<>>
                      THEN Tail(pending) ELSE pending
        /\ popped' = IF IsResponse(m) /\ pending # <<>>
                     THEN popped + 1 ELSE popped
        /\ UNCHANGED <<child, owner, echo, joined, link, remoteRx, wire, srv,
                       count, pushed, sent, answered, skewed>>

-----------------------------------------------------------------------------
Server ==
    \/ ServerReplay \/ AnswerSfu \/ AnswerData \/ RelayRoom \/ StoreStatus
    \/ RelayToVehicle

RemoteLoop ==
    \/ Connect \/ Subscribe \/ Disconnected \/ SendRemote \/ SendFails \/ Drain
    \/ Downstream

Next ==
    \/ Accept
    \/ \E c \in ConnIds : Intercept(c) \/ RemoveConn(c)
    \/ \E c \in ConnIds, k \in ChildKinds : Refuse(c, k) \/ Forward(c, k)
    \/ SendReport \/ SendEncoderStatus
    \/ \E k \in PeerKinds : PeerSend(k)
    \/ \E how \in Losses : LoseConnection(how)
    \/ WriteFails
    \/ Server
    \/ RemoteLoop

Spec == Init /\ [][Next]_vars

(* The tokio tasks that run without a user: the reporter's 5 s tick, the    *)
(* remote loop with its reconnects, and a server that keeps serving.        *)
Fairness ==
    /\ WF_vars(SendReport)
    /\ WF_vars(Connect) /\ WF_vars(Subscribe) /\ WF_vars(Drain)
    /\ WF_vars(SendRemote) /\ WF_vars(SendFails)
    /\ WF_vars(Downstream) /\ WF_vars(Disconnected)
    /\ WF_vars(Server)

FairSpec == Spec /\ Fairness

-----------------------------------------------------------------------------
(* Properties.                                                              *)

Flags == joined \in BOOLEAN /\ alive \in BOOLEAN /\ skewed \in BOOLEAN

Fields ==
    /\ conns \subseteq ConnIds /\ nextId \in 1 .. MaxConns + 1
    /\ pending \in Seq(ConnIds) /\ owner \in conns \cup {0} /\ echo \in Seq(Nat)
    /\ phase \in {"connecting", "joined", "running", "draining"}
    /\ session \in Nat
    /\ remoteRx \in Seq(Msg) /\ wire \in Seq(Msg) /\ events \in Seq(Msg)
    /\ chan \in Seq(Msg) /\ replay \in Seq(Msg) /\ cached \in Seq(Msg)
    /\ delivered \subseteq [to : ConnIds, msg : Msg]
    /\ nmsg \in Nat /\ npeer \in Nat
    /\ pushed \in Nat /\ sent \in Nat /\ answered \in Nat /\ popped \in Nat

(* Every variable keeps its type, pending names connections once accepted,  *)
(* and the negotiation belongs to a connection that is still there.         *)
TypeOK == Flags /\ Fields

(* While no answer was dropped unread and no Error answered a message that  *)
(* holds no slot, an SFU answer reaches the child whose request it answers  *)
(* and nobody else, whatever children die, are refused or reconnect in the  *)
(* meantime (gateway.rs:12-21).                                             *)
RoutedToRequester ==
    ~skewed => \A d \in delivered : IsResponse(d.msg) => d.to = d.msg.origin

(* Between two sessions nothing of a session is left: no slot a request     *)
(* refused with 5001 could have pushed, no negotiation, no echo             *)
(* (gateway.rs:17 and 31-32).                                               *)
NoStaleSlots == ~joined => pending = <<>> /\ owner = 0 /\ echo = <<>>

(* The unconditional reading of gateway.rs:12-16: whatever the server sends *)
(* and however slowly run_session reads, an answer reaches its requester.   *)
AnswersReachRequester ==
    \A d \in delivered : IsResponse(d.msg) => d.to = d.msg.origin

(* Queue q holds the SFU requests (or answers) numbered lo+1 .. hi, each of *)
(* them once and in order.                                                  *)
InOrder(q, lo, hi) ==
    /\ \A i \in 1 .. Len(q) : q[i].slot # 0 => q[i].slot \in lo + 1 .. hi
    /\ \A i, j \in 1 .. Len(q) :
           i < j /\ q[i].slot # 0 /\ q[j].slot # 0 => q[i].slot < q[j].slot
    /\ \A n \in lo + 1 .. hi : \E i \in 1 .. Len(q) : q[i].slot = n

(* The slot of pend an SFU message of q waits in, where pend starts with    *)
(* slot base + 1, is the slot of its own sender.                            *)
OwnsSlot(q, pend, base) ==
    \A i \in 1 .. Len(q) :
        q[i].slot # 0 => /\ q[i].slot - base \in 1 .. Len(pend)
                         /\ pend[q[i].slot - base] = q[i].origin

Counted ==
    /\ popped <= answered
    /\ answered <= sent
    /\ sent <= pushed
    /\ Len(pending) = pushed - popped

AlignedDown ==
    /\ InOrder(events, popped, answered)
    /\ OwnsSlot(events, pending, popped)

AlignedWire ==
    alive => /\ InOrder(wire, answered, sent)
             /\ OwnsSlot(wire, pending, popped)

AlignedUp ==
    joined => /\ InOrder(remoteRx, sent, pushed)
              /\ OwnsSlot(remoteRx, pending, popped)

(* As long as nothing has skewed the session, the requests on their way up  *)
(* and the answers on their way down are together exactly the slots of      *)
(* pending, in the same order and for the same children.                    *)
PendingAligned == ~skewed => Counted /\ AlignedDown /\ AlignedWire /\ AlignedUp

(* The gateway keeps the promise of RequestReply: the slots of pending are  *)
(* the open requests, numbered as they were pushed (gateway.rs:12-21).      *)
OpenRequests ==
    {[child |-> pending[i], no |-> popped + i] : i \in 1 .. Len(pending)}

Replies ==
    {[to |-> d.to, child |-> d.msg.origin, no |-> d.msg.slot] :
        d \in {e \in delivered : IsResponse(e.msg)}}

Promise == INSTANCE RequestReply
    WITH Child <- ConnIds, live <- conns, last <- pushed,
         open <- OpenRequests, given <- Replies

RepliesAsPromised == Promise!Spec

(* A message accepted under one remote session is never sent on another:    *)
(* what the old session left in the channel is drained before the next one  *)
(* is joined (gateway.rs:31-32 and 676-681).                                *)
SessionIsolation ==
    joined => \A i \in 1 .. Len(remoteRx) : remoteRx[i].sess = session

(* A relay message a child sent in this session is never handed back to any *)
(* child when the server's room broadcast returns it (gateway.rs:28-29).    *)
EchoSuppressed ==
    \A d \in delivered :
        IsRelayMsg(d.msg) /\ d.msg.origin # Agent => d.msg.sess # session

(* What else holds of the phases of remote_loop and of the messages in      *)
(* flight; with the properties above it is inductive.                       *)
Phases ==
    /\ joined <=> phase \in {"joined", "running"}
    /\ alive => joined
    /\ phase # "running" => wire = <<>> /\ events = <<>>
    /\ phase = "connecting" => remoteRx = <<>>
    /\ ~joined => /\ pending = <<>> /\ owner = 0 /\ echo = <<>>
                 /\ delivered = {} /\ ~skewed
                 /\ pushed = 0 /\ sent = 0 /\ answered = 0 /\ popped = 0

Plain(q) ==
    \A i \in 1 .. Len(q) : q[i].slot = 0 /\ q[i].kind \notin {"sfu", "resp"}

Requests(q) ==
    \A i \in 1 .. Len(q) : /\ q[i].slot # 0 <=> q[i].kind = "sfu"
                           /\ q[i].kind # "resp"

Answers(q) == \A i \in 1 .. Len(q) : q[i].slot # 0 <=> q[i].kind = "resp"

Shapes ==
    /\ Plain(chan) /\ Plain(replay) /\ Plain(cached)
    /\ Requests(remoteRx) /\ Requests(wire)
    /\ ~skewed => Answers(events)

(* The inductive invariant of the gateway.                                  *)
Inductive ==
    /\ TypeOK /\ Phases /\ Shapes /\ SessionIsolation
    /\ PendingAligned /\ RoutedToRequester

(* Every SFU request of a session is popped by an answer, unless the        *)
(* session ends first: no slot outlives its request.                        *)
EveryRequestAnswered ==
    \A n \in 1 .. MaxMsgs, s \in 1 .. MaxSessions :
        []<>(joined /\ session = s /\ pushed >= n => popped >= n)

(* A dead remote connection is noticed and the state bound to it is cleared *)
(* even when the task died on a read error, which run_session only logs:    *)
(* the next status report fails to be sent (gateway.rs:706-722).            *)
LossDetected == []<>(joined => alive)

(* The gateway gets back into its room after every loss.                    *)
Rejoins == []<>(joined \/ session = MaxSessions)
=============================================================================
