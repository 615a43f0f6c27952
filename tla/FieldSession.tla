---------------------------- MODULE FieldSession ----------------------------
(* PushSession and PullSession of mediaservo-field: one track is published, or*)
(* one producer subscribed to, by requests over a signalling session whose    *)
(* answers carry no request number and are told apart by their kind.          *)
EXTENDS Naturals, Sequences

CONSTANTS
  Producers,      \* producer ids a pull session may ask for
  NoProducer,     \* argument of a message without one
  MaxTries,       \* bound: calls of publish_video or subscribe
  MaxRefusals,    \* bound: requests the server refuses
  MaxOthers,      \* bound: other messages of the room
  EventsKept,     \* capacity of the event channel (64)
  SessionLosses   \* ways the signalling session may end

ASSUME FieldAssumption ==
  /\ MaxTries \in Nat /\ MaxRefusals \in Nat /\ MaxOthers \in Nat /\ EventsKept \in Nat \ {0}
  /\ SessionLosses \subseteq {"disconnected", "readError", "mute"}

VARIABLES
  role,           \* "push" or "pull"
  doing,          \* what the call waits for: "idle", "transport", "consumed", "done"
  try,            \* number of the call, stamped on its requests
  wanted,         \* the producer it subscribes to
  transport,      \* the transport a subscribe was told of, 0 for none (the call that made it)
  receiver,       \* events of the receiver the call made for itself
  lagged,         \* that receiver lost events and will say so first
  signal,         \* the signalling session: "up" or how it ended
  wire, back,     \* requests on their way to the server, answers on their way back
  bound,          \* the transport and the consumer the track ended up with
  disturbed,      \* ghost: a call gave up before the answers to it had come
  refusals, others

fieldVars == <<role, doing, try, wanted, transport, receiver, lagged, signal, wire, back, bound,
               disturbed, refusals, others>>

Requests == {"create", "connect", "produce", "consume"}
AnswerOf(k) == CASE k = "create" -> "created" [] k = "connect" -> "connected"
                 [] k = "produce" -> "produced" [] k = "consume" -> "consumed"
Msg(k, t, p) == [kind |-> k, try |-> t, producer |-> p]
Unbound == [transport |-> 0, consumer |-> NoProducer]

FieldTypeOK ==
  /\ role \in {"push", "pull"} /\ doing \in {"idle", "transport", "consumed", "done"}
  /\ role = "push" => doing # "consumed"
  /\ try \in 0 .. MaxTries /\ wanted \in Producers \cup {NoProducer}
  /\ transport \in 0 .. try /\ (doing = "consumed" <=> transport # 0)
  /\ Len(receiver) <= EventsKept /\ (doing \in {"idle", "done"} => receiver = <<>> /\ ~lagged)
  /\ signal \in {"up"} \cup SessionLosses
  /\ bound.transport \in 0 .. try /\ (doing = "done" <=> bound # Unbound)
  /\ \A i \in DOMAIN wire : wire[i].kind \in Requests /\ wire[i].try <= try
  /\ refusals \in 0 .. MaxRefusals /\ others \in 0 .. MaxOthers

FieldInit ==
  /\ role \in {"push", "pull"} /\ doing = "idle" /\ try = 0 /\ wanted = NoProducer
  /\ transport = 0 /\ receiver = <<>> /\ lagged = FALSE
  /\ signal = "up" /\ wire = <<>> /\ back = <<>> /\ bound = Unbound /\ disturbed = FALSE /\ refusals = 0 /\ others = 0
----------------------------------------------------------------------------
(* Wrong variant: the answer is there before the receiver is.                *)
CallSubscribingLate ==
  /\ doing = "idle" /\ try < MaxTries
  /\ try' = try + 1
  /\ wanted' \in IF role = "pull" THEN Producers ELSE {NoProducer}
  /\ receiver' = <<>> /\ lagged' = FALSE
  /\ IF signal = "up"
       THEN doing' = "transport" /\ back' = Append(back, Msg("other", 0, NoProducer))
       ELSE UNCHANGED <<doing, back>>
  /\ UNCHANGED <<role, transport, signal, wire, bound, disturbed, refusals, others>>

(* publish_video and subscribe: one track only; the call subscribes to events *)
(* before it asks for its transport.                                          *)
Call ==
  /\ doing = "idle" /\ try < MaxTries
  /\ try' = try + 1
  /\ wanted' \in IF role = "pull" THEN Producers ELSE {NoProducer}
  /\ receiver' = <<>> /\ lagged' = FALSE
  /\ IF signal = "up"
       THEN doing' = "transport" /\ wire' = Append(wire, Msg("create", try', NoProducer))
       ELSE UNCHANGED <<doing, wire>>              \* send() returns an error
  /\ UNCHANGED <<role, transport, signal, back, bound, disturbed, refusals, others>>

(* A call that returns an error drops its receiver, its peer connection and   *)
(* what it had been told so far.                                              *)
AwaitedBy == {m \in {wire[i] : i \in DOMAIN wire} \cup {back[i] : i \in DOMAIN back} : m.try = try}
GiveUpCall ==
  /\ doing' = "idle" /\ transport' = 0 /\ receiver' = <<>> /\ lagged' = FALSE
  /\ disturbed' = (disturbed \/ AwaitedBy # {})
  /\ UNCHANGED <<wire, bound>>

Take(k) == ~lagged /\ receiver # <<>> /\ Head(receiver).kind = k
Rest == <<role, try, wanted, signal, back, refusals, others>>

Lagged ==
  /\ lagged /\ doing \in {"transport", "consumed"}
  /\ GiveUpCall
  /\ UNCHANGED Rest

(* The transport is there. A push session negotiates, asks to connect and to  *)
(* produce, and reports the track published; a pull session asks to consume.  *)
TransportCreated ==
  /\ doing = "transport" /\ Take("created")
  /\ \/ GiveUpCall                                  \* negotiation or send fails
     \/ /\ signal = "up" /\ role = "push"
        /\ wire' = wire \o <<Msg("connect", try, NoProducer), Msg("produce", try, NoProducer)>>
        /\ bound' = [transport |-> Head(receiver).try, consumer |-> NoProducer]
        /\ doing' = "done" /\ receiver' = <<>>
        /\ UNCHANGED <<transport, lagged, disturbed>>
     \/ /\ signal = "up" /\ role = "pull"
        /\ transport' = Head(receiver).try
        /\ wire' = Append(wire, Msg("consume", try, wanted))
        /\ doing' = "consumed" /\ receiver' = Tail(receiver)
        /\ UNCHANGED <<bound, lagged, disturbed>>
  /\ UNCHANGED Rest

(* The first Consumed is taken, whatever producer it names; the connection is *)
(* asked for on the transport the Created message named.                      *)
ConsumerCreated ==
  /\ doing = "consumed" /\ Take("consumed")
  /\ \/ GiveUpCall
     \/ /\ signal = "up"
        /\ wire' = Append(wire, Msg("connect", try, NoProducer))
        /\ bound' = [transport |-> transport, consumer |-> Head(receiver).producer]
        /\ doing' = "done" /\ transport' = 0 /\ receiver' = <<>>
        /\ UNCHANGED <<lagged, disturbed>>
  /\ UNCHANGED Rest

(* Wrong variant: a refusal is passed over.                                  *)
RefusedPassedOver ==
  /\ doing \in {"transport", "consumed"}
  /\ Take("refused") \/ Take("disconnected")
  /\ receiver' = Tail(receiver)
  /\ UNCHANGED <<doing, transport, lagged, wire, bound, disturbed, Rest>>

Refused ==
  /\ doing \in {"transport", "consumed"}
  /\ Take("refused") \/ Take("disconnected")
  /\ GiveUpCall
  /\ UNCHANGED Rest

(* Everything else is passed over: the confirmation of a connect, a new       *)
(* producer, and also the error event that a failed read leaves behind.       *)
Skipped ==
  /\ doing \in {"transport", "consumed"} /\ ~lagged /\ receiver # <<>>
  /\ Head(receiver).kind \notin {"refused", "disconnected"}
  /\ ~(doing = "transport" /\ Take("created")) /\ ~(doing = "consumed" /\ Take("consumed"))
  /\ receiver' = Tail(receiver)
  /\ UNCHANGED <<doing, transport, lagged, wire, bound, disturbed, Rest>>
----------------------------------------------------------------------------
(* The event channel keeps the newest EventsKept events of a receiver.        *)
Hear(e) ==
  IF doing \notin {"transport", "consumed"} THEN UNCHANGED <<receiver, lagged>>
  ELSE IF Len(receiver) < EventsKept THEN receiver' = Append(receiver, e) /\ UNCHANGED lagged
  ELSE receiver' = Append(Tail(receiver), e) /\ lagged' = TRUE

(* The server answers in order: it does what is asked, or refuses.            *)
ServerAnswers ==
  /\ wire # <<>> /\ signal = "up"
  /\ wire' = Tail(wire)
  /\ \/ back' = Append(back, [Head(wire) EXCEPT !.kind = AnswerOf(@)]) /\ UNCHANGED refusals
     \/ /\ refusals < MaxRefusals /\ refusals' = refusals + 1
        /\ back' = Append(back, [Head(wire) EXCEPT !.kind = "refused"])
  /\ UNCHANGED <<role, doing, try, wanted, transport, receiver, lagged, signal, bound, disturbed,
                 others>>

OtherMessage ==
  /\ signal = "up" /\ others < MaxOthers
  /\ others' = others + 1
  /\ back' = Append(back, Msg("other", 0, NoProducer))
  /\ UNCHANGED <<role, doing, try, wanted, transport, receiver, lagged, signal, wire, bound,
                 disturbed, refusals>>

Arrives ==
  /\ back # <<>> /\ signal = "up"
  /\ back' = Tail(back)
  /\ Hear(Head(back))
  /\ UNCHANGED <<role, doing, try, wanted, transport, signal, wire, bound, disturbed, refusals,
                 others>>

SessionLost == \E how \in SessionLosses :
  /\ signal = "up" /\ signal' = how
  /\ wire' = <<>> /\ back' = <<>>
  /\ IF how = "mute" THEN UNCHANGED <<receiver, lagged>> ELSE Hear(Msg(how, 0, NoProducer))
  /\ UNCHANGED <<role, doing, try, wanted, transport, bound, disturbed, refusals, others>>

FieldStep == Lagged \/ TransportCreated \/ ConsumerCreated \/ Refused \/ Skipped
FieldEnv == ServerAnswers \/ OtherMessage \/ Arrives \/ SessionLost
FieldNext == Call \/ FieldStep \/ FieldEnv
FieldSpec == FieldInit /\ [][FieldNext]_fieldVars
----------------------------------------------------------------------------
(* A session whose calls never gave up with an answer to them still on its way*)
(* ends up with the transport its own call asked for and, if it pulls, with   *)
(* the consumer of the producer that call named.                              *)
ShowsWhatWasAsked ==
  doing = "done" /\ ~disturbed => bound = [transport |-> try, consumer |-> wanted]

(* The same of every session. It does not hold: answers carry no request      *)
(* number, the next call takes the first of the kind it waits for, and that   *)
(* may be the late answer to a call that gave up.                             *)
AnswersAreOwn == doing = "done" => bound = [transport |-> try, consumer |-> wanted]

(* A call that waits does not wait for nothing: what it asked for is on its   *)
(* way, or the answer, the refusal, the end of the session, or the news that  *)
(* it lost events is. (Not of a session that ended by a failed read or without*)
(* a word: the code passes the first over and is not told of the second.)     *)
EndsTheWait(e) ==
  e.kind \in {"refused", "disconnected", IF doing = "transport" THEN "created" ELSE "consumed"}
CallAwaited ==
  doing \in {"transport", "consumed"} /\ signal \in {"up", "disconnected"} =>
    \/ lagged
    \/ \E i \in DOMAIN receiver : EndsTheWait(receiver[i])
    \/ signal = "up" /\ \E i \in DOMAIN back : EndsTheWait(back[i])
    \/ signal = "up" /\ \E i \in DOMAIN wire :
         wire[i].kind = IF doing = "transport" THEN "create" ELSE "consume"

(* A call returns: with its track, with the server's refusal, or when the     *)
(* session is closed under it; unless a read of the session failed or the     *)
(* server fell silent.                                                        *)
CallReturns == []<>(doing \in {"idle", "done"} \/ signal \in {"readError", "mute"})

(* The same however the session ends. It does not hold: the waits pass over   *)
(* the event of a failed read and have no time-out, so that a call waits for  *)
(* ever on a session that will not speak again.                               *)
CallAlwaysReturns == []<>(doing \in {"idle", "done"})
=============================================================================
