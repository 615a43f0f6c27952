----------------------------- MODULE PeerChild -----------------------------
(* A vehicle process that offers the cockpit a peer connection with data      *)
(* channels only: host-controller. host-emergency (EmergencyStop) is built    *)
(* the same way. The process joins through the local gateway, sends its offer,*)
(* then serves signalling events until something ends it; OxMgr restarts it.  *)
EXTENDS Naturals, Sequences, SequencesExt

CONSTANTS
  Candidates,     \* ICE candidates of the cockpit
  Commands,       \* seq numbers of the cockpit's commands
  MaxLives,       \* bound: starts of the process
  MaxAnswers      \* bound: answers the cockpits send to one offer

ASSUME PeerAssumption == MaxLives \in Nat \ {0} /\ MaxAnswers \in Nat

VARIABLES
  stage,          \* how far main() is
  link,           \* the session with the gateway: "up", "lost", or "mute" when
                  \* its task ended on a failed write, which no event reports
  inbox,          \* signalling events this process has subscribed to
  remoteSet,      \* the cockpit's answer is set
  pendingIce,     \* candidates kept back until then
  added,          \* candidates given to the peer connection, in order
  received,       \* ghost: candidates taken out of inbox, in order
  commands,       \* envelopes spooled by the data channel
  acks,           \* seq numbers acknowledged
  lives, answers  \* counters for the bounds

peerVars == <<stage, link, inbox, remoteSet, pendingIce, added, received, commands, acks,
              lives, answers>>
iceVars == <<remoteSet, pendingIce, added, received>>
channelVars == <<commands, acks>>

Alive == stage # "exited"
Losses == {"disconnected", "error"}

PeerTypeOK ==
  /\ stage \in {"start", "joined", "offered", "run", "failing", "exited"}
  /\ link \in {"up", "lost", "mute"}
  /\ inbox \in Seq(Candidates \cup {"answer", "offer"} \cup Losses)
  /\ remoteSet \in BOOLEAN
  /\ pendingIce \in Seq(Candidates) /\ added \in Seq(Candidates) /\ received \in Seq(Candidates)
  /\ commands \in Seq(Commands) /\ acks \subseteq Commands
  /\ lives \in 1 .. MaxLives /\ answers \in 0 .. MaxAnswers

PeerInit ==
  /\ stage = "start" /\ link = "up" /\ inbox = <<>>
  /\ remoteSet = FALSE /\ pendingIce = <<>> /\ added = <<>> /\ received = <<>>
  /\ commands = <<>> /\ acks = {} /\ lives = 1 /\ answers = 0
----------------------------------------------------------------------------
(* main() up to the loop. Any failure on the way exits with code 1.           *)
Join ==
  /\ stage = "start" /\ stage' = "joined"
  /\ UNCHANGED <<link, inbox, iceVars, channelVars, lives, answers>>

SendOffer ==
  /\ stage = "joined"
  /\ stage' = IF link = "up" THEN "offered" ELSE "exited"
  /\ UNCHANGED <<link, inbox, iceVars, channelVars, lives, answers>>

(* The process subscribes to events after it has sent the offer.              *)
SubscribeEvents ==
  /\ stage = "offered" /\ stage' = "run"
  /\ UNCHANGED <<link, inbox, iceVars, channelVars, lives, answers>>

StartFails ==
  /\ stage \in {"start", "joined"} /\ stage' = "exited"
  /\ UNCHANGED <<link, inbox, iceVars, channelVars, lives, answers>>

Exit ==
  /\ stage' = "exited"
  /\ UNCHANGED <<link, inbox, iceVars, channelVars, lives, answers>>
----------------------------------------------------------------------------
(* The session's task: what it reads goes to whoever has subscribed by then.  *)
Deliver(e) == inbox' = IF stage \in {"run", "failing"} THEN Append(inbox, e) ELSE inbox

CockpitSends == \E e \in Candidates \cup {"answer", "offer"} :
  /\ link = "up" /\ stage \in {"offered", "run"}
  /\ e \in Candidates => e \notin Range(received \o inbox)
  /\ e = "answer" => answers < MaxAnswers
  /\ e = "offer" => "offer" \notin Range(inbox) /\ remoteSet = FALSE
  /\ answers' = IF e = "answer" THEN answers + 1 ELSE answers
  /\ Deliver(e)
  /\ UNCHANGED <<stage, link, iceVars, channelVars, lives>>

LinkLost == \E e \in Losses :
  /\ link = "up" /\ Alive /\ stage # "start"
  /\ link' = "lost"
  /\ Deliver(e)
  /\ UNCHANGED <<stage, iceVars, channelVars, lives, answers>>

(* A candidate of our own is written and the write fails: the task is gone,   *)
(* the process logs nothing and hears nothing.                                *)
WriteFails ==
  /\ link = "up" /\ stage = "run"
  /\ link' = "mute"
  /\ UNCHANGED <<stage, inbox, iceVars, channelVars, lives, answers>>
----------------------------------------------------------------------------
(* The arms of the loop.                                                      *)
Next1(e) == stage = "run" /\ inbox # <<>> /\ Head(inbox) = e /\ inbox' = Tail(inbox)

(* Wrong variant: what was kept back stays there.                            *)
HandleAnswerLate ==
  /\ Next1("answer")
  /\ IF remoteSet
       THEN stage' = "exited" /\ UNCHANGED iceVars
       ELSE remoteSet' = TRUE /\ UNCHANGED <<stage, added, pendingIce, received>>
  /\ UNCHANGED <<link, channelVars, lives, answers>>

(* An answer is accepted once; a second one is an error and ends the process. *)
HandleAnswer ==
  /\ Next1("answer")
  /\ IF remoteSet
       THEN stage' = "exited" /\ UNCHANGED iceVars
       ELSE /\ remoteSet' = TRUE
            /\ added' = added \o pendingIce /\ pendingIce' = <<>>
            /\ UNCHANGED <<stage, received>>
  /\ UNCHANGED <<link, channelVars, lives, answers>>

HandleCandidate == \E c \in Candidates :
  /\ Next1(c)
  /\ received' = Append(received, c)
  /\ IF remoteSet
       THEN added' = Append(added, c) /\ UNCHANGED pendingIce
       ELSE pendingIce' = Append(pendingIce, c) /\ UNCHANGED added
  /\ UNCHANGED <<stage, link, remoteSet, channelVars, lives, answers>>

HandleOffer ==
  /\ Next1("offer")
  /\ UNCHANGED <<stage, link, iceVars, channelVars, lives, answers>>

HandleLoss == \E e \in Losses :
  /\ Next1(e)
  /\ stage' = "exited"
  /\ UNCHANGED <<link, iceVars, channelVars, lives, answers>>

(* ICE failed: the loop's arm sleeps for a second and then leaves the loop.   *)
IceFailed ==
  /\ stage = "run" /\ remoteSet
  /\ stage' = "failing"
  /\ UNCHANGED <<link, inbox, iceVars, channelVars, lives, answers>>
FailedWaited == stage = "failing" /\ Exit
Terminate == stage = "run" /\ Exit

(* OxMgr starts the process again.                                            *)
StartAgain ==
  /\ stage = "exited" /\ lives < MaxLives
  /\ stage' = "start" /\ link' = "up" /\ inbox' = <<>>
  /\ remoteSet' = FALSE /\ pendingIce' = <<>> /\ added' = <<>> /\ received' = <<>>
  /\ commands' = <<>> /\ lives' = lives + 1 /\ answers' = 0
  /\ UNCHANGED acks
----------------------------------------------------------------------------
(* The data channel: commands are spooled and handled one at a time by a task *)
(* of their own, which ends with the process.                                 *)
CommandArrives == \E c \in Commands :
  /\ remoteSet /\ stage \in {"run", "failing"}
  /\ c \notin acks \cup Range(commands)
  /\ commands' = Append(commands, c)
  /\ UNCHANGED <<stage, link, inbox, iceVars, acks, lives, answers>>

RouteCommand ==
  /\ Alive /\ commands # <<>>
  /\ commands' = Tail(commands)
  /\ acks' = acks \cup {Head(commands)}
  /\ UNCHANGED <<stage, link, inbox, iceVars, lives, answers>>

Loop == HandleAnswer \/ HandleCandidate \/ HandleOffer \/ HandleLoss \/ FailedWaited
PeerEnv == CockpitSends \/ LinkLost \/ WriteFails \/ IceFailed \/ Terminate \/ StartFails
PeerNext ==
  \/ Join \/ SendOffer \/ SubscribeEvents \/ Loop \/ StartAgain \/ PeerEnv
  \/ CommandArrives \/ RouteCommand
PeerSpec == PeerInit /\ [][PeerNext]_peerVars
----------------------------------------------------------------------------
(* Each candidate the process takes reaches the peer connection once, in the  *)
(* order it came in, and none before the answer (libwebrtc does not accept    *)
(* candidates earlier): what came while the answer was missing is not lost.   *)
CandidatesInOrder ==
  /\ added \o pendingIce = received
  /\ added # <<>> => remoteSet
  /\ remoteSet => pendingIce = <<>>

(* A process whose session with the gateway is gone exits, so that it is      *)
(* started again (host-emergency.rs and host-controller.rs: a signalling      *)
(* disconnect exits with 1 and the deployment restarts it).                   *)
(* Does not hold: a session that ends without an event leaves it waiting.     *)
LossEndsProcess == (stage = "run" /\ link # "up") ~> (stage # "run")
=============================================================================
