------------------------------ MODULE HostAudio ------------------------------
(* host-audio: one signalling session over which the process publishes its    *)
(* microphone and, in a task per remote producer, subscribes to the others.   *)
(* Every wait for an answer is a receiver of its own on the same broadcast,   *)
(* subscribed after the request was sent, and takes the first answer of the   *)
(* kind it wants.                                                             *)
EXTENDS Naturals, Sequences, FiniteSets

CONSTANTS
  Remotes,        \* producers of other participants
  OwnProducer,
  MaxRefused,     \* bound: requests the server refuses
  MaxRepeats      \* bound: producers announced again

ASSUME HostAudioAssumption == OwnProducer \notin Remotes /\ MaxRefused \in Nat /\ MaxRepeats \in Nat

VARIABLES
  audioMain,      \* "publish", "run", "closing", or the exit: "ok", "shared", "failed"
  audioTask,      \* audioTask[x]: the publication (x = OwnProducer) or subscription to x:
                  \*   "none", "create", "listen", "created", "consume", "answer", "connect",
                  \*   "done", "failed"
  audioAsked,     \* requests the server has not answered: kind and for which task
  audioHeard,     \* events the session has broadcast so far
  audioAt,        \* audioAt[x]: events passed by the receiver of task x
  mainAt,         \* and by the one of main, from when it subscribed
  subscribedTo,   \* the set subscribed
  transportOf,    \* transportOf[x]: which transport task x took for its own
  consumerOf,     \* consumerOf[x]: the producer of the consumer it took
  consumes,       \* consumes[x]: Consume requests sent for x
  audioLost,      \* the session was lost
  nRefused, nRepeats

audioVars == <<audioMain, audioTask, audioAsked, audioHeard, audioAt, mainAt, subscribedTo,
               transportOf, consumerOf, consumes, audioLost, nRefused, nRepeats>>

AudioTasks == Remotes \cup {OwnProducer}
AudioNobody == "nobody"
NewProducerEvent(p) == [kind |-> "new", task |-> p]
LossEvent == [kind |-> "lost", task |-> AudioNobody]
InFlight == {x \in Remotes : audioTask[x] \notin {"none", "done", "failed"}}

AudioTypeOK ==
  /\ audioMain \in {"publish", "run", "closing", "ok", "shared", "failed"}
  /\ \A x \in AudioTasks : /\ audioTask[x] \in {"none", "create", "listen", "created", "consume", "answer",
                                                "connect", "done", "failed"}
                           /\ audioAt[x] <= Len(audioHeard)
  /\ mainAt <= Len(audioHeard) /\ subscribedTo \subseteq Remotes

(* The session is joined; the producers of the room were announced to it.     *)
AudioInit ==
  /\ audioMain = "publish" /\ audioTask = [x \in AudioTasks |-> IF x = OwnProducer THEN "create" ELSE "none"]
  /\ audioAsked = <<>> /\ audioAt = [x \in AudioTasks |-> 0] /\ mainAt = 0
  /\ audioHeard \in {<<>>} \cup {<<NewProducerEvent(p)>> : p \in Remotes}
  /\ subscribedTo = {} /\ transportOf = [x \in AudioTasks |-> AudioNobody]
  /\ consumerOf = [x \in AudioTasks |-> AudioNobody] /\ consumes = [x \in Remotes |-> 0]
  /\ audioLost = FALSE /\ nRefused = 0 /\ nRepeats = 0

AudioUp == audioMain \in {"publish", "run"}
To(x, step) == audioTask' = [audioTask EXCEPT ![x] = step]
Ask(x, kind) == audioAsked' = Append(audioAsked, [kind |-> kind, task |-> x])
AudioServer == <<audioMain, audioTask, audioAt, mainAt, subscribedTo, transportOf, consumerOf, consumes>>
AudioRest == <<audioMain, mainAt, subscribedTo, audioHeard, audioLost, nRefused, nRepeats>>

-----------------------------------------------------------------------------
(* The server: answers in the order of the requests, and announcements.       *)
AudioAnswered ==
  /\ ~audioLost /\ AudioUp /\ audioAsked # <<>> /\ audioAsked' = Tail(audioAsked)
  /\ \/ audioHeard' = Append(audioHeard, Head(audioAsked)) /\ UNCHANGED nRefused
     \/ /\ nRefused < MaxRefused /\ nRefused' = nRefused + 1
        /\ audioHeard' = Append(audioHeard, [kind |-> "error", task |-> Head(audioAsked).task])
  /\ UNCHANGED <<AudioServer, audioLost, nRepeats>>

Announced(p) == \E i \in 1 .. Len(audioHeard) : audioHeard[i] = NewProducerEvent(p)

AudioAnnounced(p) ==
  /\ ~audioLost /\ AudioUp /\ audioHeard' = Append(audioHeard, NewProducerEvent(p))
  /\ IF Announced(p) THEN nRepeats < MaxRepeats /\ nRepeats' = nRepeats + 1 ELSE UNCHANGED nRepeats
  /\ UNCHANGED <<AudioServer, audioAsked, audioLost, nRefused>>

AudioLoses ==
  /\ ~audioLost /\ AudioUp /\ audioLost' = TRUE /\ audioHeard' = Append(audioHeard, LossEvent)
  /\ audioAsked' = <<>> /\ UNCHANGED <<AudioServer, nRefused, nRepeats>>

-----------------------------------------------------------------------------
(* publish_audio and subscribe_producer, step by step.                        *)
TaskSteps(x, from) == AudioUp /\ audioTask[x] = from

SendCreate(x) ==
  /\ TaskSteps(x, "create")
  /\ IF audioLost THEN To(x, "failed") /\ UNCHANGED audioAsked ELSE To(x, "listen") /\ Ask(x, "created")
  /\ UNCHANGED <<AudioRest, audioAt, transportOf, consumerOf, consumes>>

(* signal.events(), after the request.                                        *)
ListenForAnswer(x) ==
  /\ TaskSteps(x, "listen") /\ To(x, "created") /\ audioAt' = [audioAt EXCEPT ![x] = Len(audioHeard)]
  /\ UNCHANGED <<AudioRest, audioAsked, transportOf, consumerOf, consumes>>

(* await_event: passes what is not of its kind, fails at an error or the loss. *)
HeardNext(x) == audioHeard[audioAt[x] + 1]
AwaitEvent(x, from, kind, taken) ==
  /\ TaskSteps(x, from) /\ audioAt[x] < Len(audioHeard)
  /\ audioAt' = [audioAt EXCEPT ![x] = @ + 1]
  /\ \/ HeardNext(x).kind = kind /\ taken
     \/ HeardNext(x).kind \in {"error", "lost"} /\ To(x, "failed") /\ UNCHANGED <<transportOf, consumerOf>>
     \/ /\ HeardNext(x).kind \notin {kind, "error", "lost"}
        /\ UNCHANGED <<audioTask, transportOf, consumerOf>>
  /\ UNCHANGED <<AudioRest, audioAsked, consumes>>

AwaitCreated(x) ==
  AwaitEvent(x, "created", "created",
    /\ transportOf' = [transportOf EXCEPT ![x] = HeardNext(x).task]
    /\ To(x, IF x = OwnProducer THEN "connect" ELSE "consume") /\ UNCHANGED consumerOf)

SendConsume(x) ==
  /\ x \in Remotes /\ TaskSteps(x, "consume")
  /\ IF audioLost THEN To(x, "failed") /\ UNCHANGED <<audioAsked, consumes>>
     ELSE To(x, "answer") /\ Ask(x, "consumed") /\ consumes' = [consumes EXCEPT ![x] = @ + 1]
  /\ UNCHANGED <<AudioRest, audioAt, transportOf, consumerOf>>

AwaitConsumed(x) ==
  x \in Remotes /\ AwaitEvent(x, "answer", "consumed",
    /\ consumerOf' = [consumerOf EXCEPT ![x] = HeardNext(x).task]
    /\ To(x, "connect") /\ UNCHANGED transportOf)

(* The connection comes up, or its time-out passes.  The publication then     *)
(* sends Produce and waits for the answer.                                    *)
AudioConnect(x) ==
  /\ TaskSteps(x, "connect")
  /\ \/ To(x, "failed") /\ UNCHANGED audioAsked
     \/ x \in Remotes /\ To(x, "done") /\ UNCHANGED audioAsked
     \/ x = OwnProducer /\ ~audioLost /\ To(x, "answer") /\ Ask(x, "produced")
  /\ UNCHANGED <<AudioRest, audioAt, transportOf, consumerOf, consumes>>

AwaitProduced ==
  AwaitEvent(OwnProducer, "answer", "produced",
    To(OwnProducer, "done") /\ UNCHANGED <<transportOf, consumerOf>>)

-----------------------------------------------------------------------------
(* main: from its own receiver, made once the publication is there.           *)
Published ==
  /\ audioMain = "publish" /\ audioTask[OwnProducer] \in {"done", "failed"}
  /\ IF audioTask[OwnProducer] = "done"
     THEN audioMain' = "run" /\ mainAt' = Len(audioHeard)
     ELSE audioMain' = "failed" /\ UNCHANGED mainAt
  /\ UNCHANGED <<audioTask, audioAsked, audioHeard, audioAt, subscribedTo, transportOf, consumerOf,
                 consumes, audioLost, nRefused, nRepeats>>

MainReceives ==
  /\ audioMain = "run" /\ mainAt < Len(audioHeard) /\ mainAt' = mainAt + 1
  /\ LET e == audioHeard[mainAt + 1]
     IN  \/ /\ e.kind = "new" /\ e.task \notin subscribedTo
            /\ To(e.task, "create") /\ subscribedTo' = subscribedTo \cup {e.task} /\ UNCHANGED audioMain
         \/ e.kind = "lost" /\ audioMain' = "closing" /\ UNCHANGED <<audioTask, subscribedTo>>
         \/ /\ e.kind # "lost" /\ ~(e.kind = "new" /\ e.task \notin subscribedTo)
            /\ UNCHANGED <<audioMain, audioTask, subscribedTo>>
  /\ UNCHANGED <<audioAsked, audioHeard, audioAt, transportOf, consumerOf, consumes, audioLost,
                 nRefused, nRepeats>>

(* SIGTERM, SIGINT or the end of --duration.                                  *)
AudioTerminated ==
  /\ audioMain = "run" /\ audioMain' = "closing"
  /\ UNCHANGED <<audioTask, audioAsked, audioHeard, audioAt, mainAt, subscribedTo, transportOf,
                 consumerOf, consumes, audioLost, nRefused, nRepeats>>

(* Arc::try_unwrap: a subscription that has not ended holds the session too,  *)
(* and the process then ends with an error and the session not closed.        *)
AudioCloses ==
  /\ audioMain = "closing" /\ audioMain' = IF InFlight = {} THEN "ok" ELSE "shared"
  /\ UNCHANGED <<audioTask, audioAsked, audioHeard, audioAt, mainAt, subscribedTo, transportOf,
                 consumerOf, consumes, audioLost, nRefused, nRepeats>>

AudioNext ==
  \/ AudioAnswered \/ AudioLoses \/ AwaitProduced \/ Published \/ MainReceives \/ AudioTerminated \/ AudioCloses
  \/ \E p \in Remotes : AudioAnnounced(p)
  \/ \E x \in AudioTasks : \/ SendCreate(x) \/ ListenForAnswer(x) \/ AwaitCreated(x) \/ SendConsume(x)
                           \/ AwaitConsumed(x) \/ AudioConnect(x)

AudioSpec == AudioInit /\ [][AudioNext]_audioVars

-----------------------------------------------------------------------------
(* A producer announced twice is consumed once, and an exit without an error  *)
(* leaves no subscription half made.                                          *)
AudioSettles ==
  /\ \A p \in Remotes : consumes[p] <= 1
  /\ audioMain = "ok" => InFlight = {}

(* A subscription ends with the consumer of the producer it asked for, over a *)
(* transport no other has.  Does not hold with two of them at the same time.  *)
ConsumersMatch ==
  \A p \in Remotes : audioTask[p] = "done" => consumerOf[p] = p /\ transportOf[p] = p
=============================================================================
