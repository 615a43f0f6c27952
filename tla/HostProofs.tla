----------------------------- MODULE HostProofs -----------------------------
(* Theorems about the processes of a vehicle: the session with the gateway,   *)
(* the peer connections with the cockpit, the configuration pushed from the   *)
(* cloud, what the host tools keep, monitor, audio, and the emergency stop.   *)
EXTENDS EmergencyStop, ConfigPush, LinkClient, HostInit, HostInstances, HostMonitor,
        HostStreamer, HostAudio, QueueLemmas, FiniteSetTheorems, WellFoundedInduction

-----------------------------------------------------------------------------
(* The session of a user of mediaservo-link.                                  *)

(* What the user gave is written or still in the channel, but for the message *)
(* a failed write took along; the callback is in its slot until it has run.   *)
LinkInv ==
  /\ sending \in Seq(Outgoing) /\ given \in Seq(Outgoing) /\ written \in Seq(Outgoing)
  /\ task \in {"none", "running", "ended"} /\ (why = "none" <=> task # "ended")
  /\ step # "open" => task = "none"
  /\ why # "write" => written \o sending = given
  /\ why = "closed" => sending = <<>>
  /\ slot \in {"none", "set", "taken"} /\ (slot # "taken" => fired = 0) /\ (slot = "taken" => fired = 1)
  /\ slot = "taken" => task = "ended" /\ why # "closed"
  /\ early => slot # "none" /\ (task = "ended" /\ why # "closed" => slot = "taken")

LEMMA LinkInitInv == LinkInit => LinkInv
<1>1. ASSUME LinkInit PROVE <<>> \o <<>> = <<>> /\ <<>> \in Seq(Outgoing)
  BY ConcatEmptySeq
<1> QED
  BY <1>1 DEF LinkInit, LinkInv

LEMMA LinkStep == LinkInv /\ [LinkNext]_linkVars => LinkInv'
<1> SUFFICES ASSUME LinkInv, [LinkNext]_linkVars PROVE LinkInv'
  OBVIOUS
<1> USE DEF LinkInv, connectVars, taskVars, userVars, Running
<1>1. CASE ConnectWithRetry
  BY <1>1 DEF ConnectWithRetry
<1>2. CASE Dialled
  BY <1>2 DEF Dialled
<1>3. CASE AuthAccepted
  BY <1>3 DEF AuthAccepted
<1>4. CASE Joined
  BY <1>4 DEF Joined
<1>5. CASE AttemptFails
  BY <1>5 DEF AttemptFails
<1>6. CASE Retry
  BY <1>6 DEF Retry
<1>7. CASE ReadText
  BY <1>7 DEF ReadText
<1>8. CASE PeerCloses
  BY <1>8 DEF PeerCloses, FireDisconnect
<1>9. CASE ReadFails
  BY <1>9 DEF ReadFails, FireDisconnect
<1>10. CASE SendClosed
  BY <1>10 DEF SendClosed
<1>11. CASE Subscribe
  BY <1>11 DEF Subscribe
<1>12. CASE OnDisconnect
  BY <1>12 DEF OnDisconnect
<1>13. CASE Close
  BY <1>13 DEF Close
<1>14. CASE WriteMessage
  <2>1. written \in Seq(Outgoing) /\ sending \in Seq(Outgoing) /\ sending # <<>>
    BY <1>14 DEF WriteMessage
  <2>2. /\ sending' \in Seq(Outgoing) /\ written' \in Seq(Outgoing)
        /\ written' \o sending' = written \o sending
    BY <1>14, <2>1, MoveHead DEF WriteMessage
  <2>3. why = "none" /\ UNCHANGED <<step, task, why, slot, fired, early, given>>
    BY <1>14 DEF WriteMessage
  <2> QED
    BY <2>2, <2>3
<1>15. CASE WriteRefused
  <2>1. sending' \in Seq(Outgoing)
    BY <1>15, HeadTailProperties DEF WriteRefused
  <2> QED
    BY <1>15, <2>1 DEF WriteRefused, FireDisconnect
<1>16. CASE Send
  <2>1. PICK m \in Outgoing : sending' = Append(sending, m) /\ given' = Append(given, m)
    BY <1>16 DEF Send
  <2>2. written \in Seq(Outgoing) /\ sending \in Seq(Outgoing) /\ given \in Seq(Outgoing)
    OBVIOUS
  <2>3. given = written \o sending => Append(given, m) = written \o Append(sending, m)
    BY <2>2, AppendConcat
  <2>4. sending' \in Seq(Outgoing) /\ given' \in Seq(Outgoing)
    BY <2>1, <2>2
  <2>5. why = "none" /\ UNCHANGED <<step, task, why, slot, fired, early, written>>
    BY <1>16 DEF Send
  <2> QED
    BY <2>1, <2>3, <2>4, <2>5
<1>17. CASE UNCHANGED linkVars
  BY <1>17 DEF linkVars
<1> QED
  BY <1>1, <1>2, <1>3, <1>4, <1>5, <1>6, <1>7, <1>8, <1>9, <1>10, <1>11, <1>12, <1>13, <1>14,
     <1>15, <1>16, <1>17
  DEF LinkNext, Connecting, Session, LinkUser

(* What else LinkTypeOK says, and how far the retries have come.              *)
LinkEvents == {"message", "bad", "disconnected", "error"}
LinkRest ==
  /\ step \in {"idle", "dial", "auth", "join", "sleep", "open", "failed"}
  /\ attempt \in 0 .. MaxRetries /\ (step = "sleep" => attempt < MaxRetries)
  /\ task = "none" <=> step # "open"
  /\ why \in {"none", "closed", "peer", "read", "write"}
  /\ fired \in Nat /\ heard \in Seq(LinkEvents) /\ spoken \in 0 .. MaxEvents
LinkFlags ==
  /\ gateway \in BOOLEAN /\ sendOpen \in BOOLEAN /\ subscribed \in BOOLEAN /\ early \in BOOLEAN

LEMMA LinkRestInit == LinkInit => LinkRest /\ LinkFlags
<1>1. LinkInit => LinkRest
  BY LinkAssumption DEF LinkInit, LinkRest
<1>2. LinkInit => LinkFlags
  BY DEF LinkInit, LinkFlags
<1> QED
  BY <1>1, <1>2

LEMMA LinkFlagsStep == LinkFlags /\ [LinkNext]_linkVars => LinkFlags'
BY DEF LinkFlags, LinkNext, Connecting, Session, LinkUser, linkVars, connectVars, taskVars, userVars,
   ConnectWithRetry, Dialled, AuthAccepted, Joined, AttemptFails, Retry, ReadText, PeerCloses, ReadFails,
   WriteMessage, WriteRefused, SendClosed, Subscribe, OnDisconnect, Send, Close, Running

LEMMA LinkRestStep == LinkInv /\ LinkRest /\ [LinkNext]_linkVars => LinkRest'
<1> SUFFICES ASSUME LinkInv, LinkRest, [LinkNext]_linkVars PROVE LinkRest'
  OBVIOUS
<1> USE DEF LinkRest, connectVars, taskVars, userVars
<1>0. MaxRetries \in Nat /\ MaxEvents \in Nat /\ attempt \in Nat /\ spoken \in Nat
  BY LinkAssumption
<1>1. ASSUME NEW e \in LinkEvents, Emitted(e) PROVE heard' \in Seq(LinkEvents)
  BY <1>1 DEF Emitted
<1>2. ASSUME FireDisconnect PROVE fired' \in Nat
  BY <1>2 DEF FireDisconnect
<1>3. CASE UNCHANGED linkVars
  BY <1>3 DEF linkVars
<1>4. CASE ConnectWithRetry \/ Dialled \/ AuthAccepted \/ Joined
  BY <1>0, <1>4 DEF ConnectWithRetry, Dialled, AuthAccepted, Joined
<1>5. CASE AttemptFails \/ Retry
  BY <1>0, <1>5 DEF AttemptFails, Retry
<1>6. CASE ReadText
  <2>1. heard' \in Seq(LinkEvents)
    BY <1>1, <1>6 DEF ReadText, LinkEvents
  <2> QED
    BY <1>0, <1>6, <2>1 DEF ReadText
<1>7. CASE PeerCloses \/ ReadFails
  <2>1. heard' \in Seq(LinkEvents) /\ fired' \in Nat
    BY <1>1, <1>2, <1>7 DEF PeerCloses, ReadFails, LinkEvents
  <2> QED
    BY <1>7, <2>1 DEF PeerCloses, ReadFails, Running
<1>8. CASE WriteRefused
  BY <1>2, <1>8 DEF WriteRefused, Running
<1>9. CASE WriteMessage \/ SendClosed
  BY <1>9 DEF WriteMessage, SendClosed, Running
<1>10. CASE LinkUser
  BY <1>10 DEF LinkUser, Subscribe, OnDisconnect, Send, Close
<1> QED
  BY <1>3, <1>4, <1>5, <1>6, <1>7, <1>8, <1>9, <1>10 DEF LinkNext, Connecting, Session

LEMMA LinkTypesFollow == LinkInv /\ LinkRest /\ LinkFlags => LinkTypeOK
BY DEF LinkInv, LinkRest, LinkFlags, LinkEvents, LinkTypeOK

(* A session ends as mediaservo-link promises (signal.rs: drained at close,   *)
(* the callback once): for any messages and any number of retries.            *)
THEOREM SessionEndsAsPromised == LinkSpec => [](LinkTypeOK /\ EndsAsPromised)
<1>1. LinkInv => EndsAsPromised
  BY ConcatEmptySeq DEF LinkInv, EndsAsPromised
<1> QED
  BY LinkInitInv, LinkStep, LinkRestInit, LinkRestStep, LinkFlagsStep, LinkTypesFollow, <1>1, PTL DEF LinkSpec

-----------------------------------------------------------------------------
(* The peer connection with the cockpit.                                      *)

IceTyped == /\ pendingIce \in Seq(Candidates) /\ added \in Seq(Candidates)
            /\ received \in Seq(Candidates)

LEMMA PeerInitInv == PeerInit => IceTyped /\ CandidatesInOrder
<1>1. <<>> \o <<>> = <<>> /\ <<>> \in Seq(Candidates)
  BY ConcatEmptySeq
<1> QED
  BY <1>1 DEF PeerInit, IceTyped, CandidatesInOrder

LEMMA CandidateStep ==
  ASSUME IceTyped, CandidatesInOrder, HandleCandidate
  PROVE  (IceTyped /\ CandidatesInOrder)'
<1>1. PICK c \in Candidates :
        /\ received' = Append(received, c)
        /\ IF remoteSet
             THEN added' = Append(added, c) /\ UNCHANGED pendingIce
             ELSE pendingIce' = Append(pendingIce, c) /\ UNCHANGED added
        /\ UNCHANGED remoteSet
  BY DEF HandleCandidate
<1>2. CASE remoteSet
  <2>1. pendingIce = <<>> /\ received = added
    BY <1>2, ConcatEmptySeq DEF IceTyped, CandidatesInOrder
  <2>2. added' \in Seq(Candidates) /\ received' = added' /\ pendingIce' = <<>>
    BY <1>1, <1>2, <2>1 DEF IceTyped
  <2>3. added' \o pendingIce' = received'
    BY <2>2, ConcatEmptySeq
  <2> QED
    BY <1>1, <1>2, <2>2, <2>3 DEF IceTyped, CandidatesInOrder
<1>3. CASE ~remoteSet
  <2>0. /\ pendingIce' = Append(pendingIce, c) /\ received' = Append(received, c)
        /\ UNCHANGED added
    BY <1>1, <1>3
  <2>1. pendingIce' \in Seq(Candidates) /\ received' \in Seq(Candidates)
    BY <2>0 DEF IceTyped
  <2>2. added \in Seq(Candidates) /\ pendingIce \in Seq(Candidates)
        /\ received \in Seq(Candidates) /\ received = added \o pendingIce
    BY DEF IceTyped, CandidatesInOrder
  <2>3. Append(received, c) = added \o Append(pendingIce, c)
    BY <2>2, AppendConcat
  <2> QED
    BY <1>1, <1>3, <2>0, <2>1, <2>2, <2>3 DEF IceTyped, CandidatesInOrder
<1> QED
  BY <1>2, <1>3

LEMMA PeerStep ==
  IceTyped /\ CandidatesInOrder /\ [PeerNext]_peerVars => (IceTyped /\ CandidatesInOrder)'
<1> SUFFICES ASSUME IceTyped, CandidatesInOrder, [PeerNext]_peerVars
             PROVE  (IceTyped /\ CandidatesInOrder)'
  OBVIOUS
<1>1. CASE HandleCandidate
  BY <1>1, CandidateStep
<1>2. CASE HandleAnswer
  <2>1. CASE UNCHANGED iceVars
    BY <2>1 DEF iceVars, IceTyped, CandidatesInOrder
  <2>2. CASE /\ remoteSet' = TRUE /\ added' = added \o pendingIce /\ pendingIce' = <<>>
             /\ UNCHANGED received
    <3>1. added' = received /\ added' \in Seq(Candidates)
      BY <2>2 DEF IceTyped, CandidatesInOrder
    <3>2. added' \o pendingIce' = received'
      BY <2>2, <3>1, ConcatEmptySeq
    <3> QED
      BY <2>2, <3>1, <3>2 DEF IceTyped, CandidatesInOrder
  <2> QED
    BY <1>2, <2>1, <2>2 DEF HandleAnswer
<1>3. CASE StartAgain
  <2>1. <<>> \o <<>> = <<>> /\ <<>> \in Seq(Candidates)
    BY ConcatEmptySeq
  <2> QED
    BY <1>3, <2>1 DEF StartAgain, IceTyped, CandidatesInOrder
<1>4. CASE UNCHANGED iceVars
  BY <1>4 DEF iceVars, IceTyped, CandidatesInOrder
<1> QED
  BY <1>1, <1>2, <1>3, <1>4
  DEF PeerNext, Join, SendOffer, SubscribeEvents, Loop, HandleOffer, HandleLoss, FailedWaited, Exit,
      PeerEnv, CockpitSends, LinkLost, WriteFails, IceFailed, Terminate, StartFails, CommandArrives,
      RouteCommand, peerVars, iceVars

PeerQueues ==
  /\ inbox \in Seq(Candidates \cup {"answer", "offer"} \cup Losses)
  /\ pendingIce \in Seq(Candidates) /\ added \in Seq(Candidates) /\ received \in Seq(Candidates)
  /\ commands \in Seq(Commands) /\ acks \subseteq Commands
PeerPlaces ==
  /\ stage \in {"start", "joined", "offered", "run", "failing", "exited"}
  /\ link \in {"up", "lost", "mute"}
  /\ lives \in 1 .. MaxLives /\ answers \in 0 .. MaxAnswers
PeerFlag == remoteSet \in BOOLEAN

LEMMA PeerTypesAgree == PeerTypeOK <=> PeerQueues /\ PeerPlaces /\ PeerFlag
BY DEF PeerTypeOK, PeerQueues, PeerPlaces, PeerFlag

LEMMA PeerTypesInit == PeerInit => PeerTypeOK
<1> SUFFICES ASSUME PeerInit PROVE PeerTypeOK
  OBVIOUS
<1>1. PeerQueues
  BY DEF PeerInit, PeerQueues
<1>2. PeerPlaces
  BY PeerAssumption DEF PeerInit, PeerPlaces
<1>3. PeerFlag
  BY DEF PeerInit, PeerFlag
<1> QED
  BY <1>1, <1>2, <1>3, PeerTypesAgree

LEMMA InboxTaken ==
  ASSUME PeerQueues, NEW e, Next1(e)
  PROVE  inbox' \in Seq(Candidates \cup {"answer", "offer"} \cup Losses)
<1> DEFINE S == Candidates \cup {"answer", "offer"} \cup Losses
<1>1. inbox \in Seq(S) /\ inbox # <<>> /\ inbox' = Tail(inbox)
  BY DEF PeerQueues, Next1
<1> HIDE DEF S
<1>2. Tail(inbox) \in Seq(S)
  BY <1>1, HeadTailProperties
<1> QED
  BY <1>1, <1>2 DEF S

LEMMA InboxGiven ==
  ASSUME PeerQueues, NEW e \in Candidates \cup {"answer", "offer"} \cup Losses, Deliver(e)
  PROVE  inbox' \in Seq(Candidates \cup {"answer", "offer"} \cup Losses)
BY DEF PeerQueues, Deliver

LEMMA PeerQueuesStep ==
  ASSUME PeerQueues, [PeerNext]_peerVars PROVE PeerQueues'
<1> USE DEF PeerQueues, iceVars, channelVars
<1>1. CASE UNCHANGED peerVars
  BY <1>1 DEF peerVars
<1>2. CASE CockpitSends
  BY <1>2, InboxGiven DEF CockpitSends
<1>3. CASE LinkLost
  BY <1>3, InboxGiven DEF LinkLost
<1>4. CASE HandleAnswer
  <2>1. inbox' \in Seq(Candidates \cup {"answer", "offer"} \cup Losses)
    BY <1>4, InboxTaken DEF HandleAnswer
  <2>2. added \o pendingIce \in Seq(Candidates) /\ <<>> \in Seq(Candidates)
    BY ConcatProperties
  <2>3. UNCHANGED iceVars \/ (added' = added \o pendingIce /\ pendingIce' = <<>> /\ UNCHANGED received)
    BY <1>4 DEF HandleAnswer
  <2>4. UNCHANGED channelVars
    BY <1>4 DEF HandleAnswer
  <2> QED
    BY <2>1, <2>2, <2>3, <2>4
<1>5. CASE HandleCandidate
  <2>1. PICK c \in Candidates :
          /\ Next1(c) /\ received' = Append(received, c)
          /\ \/ added' = Append(added, c) /\ UNCHANGED pendingIce
             \/ pendingIce' = Append(pendingIce, c) /\ UNCHANGED added
          /\ UNCHANGED channelVars
    BY <1>5 DEF HandleCandidate
  <2>2. inbox' \in Seq(Candidates \cup {"answer", "offer"} \cup Losses)
    BY <2>1, InboxTaken
  <2>3. /\ Append(received, c) \in Seq(Candidates) /\ Append(added, c) \in Seq(Candidates)
        /\ Append(pendingIce, c) \in Seq(Candidates)
    OBVIOUS
  <2>4. received' \in Seq(Candidates)
    BY <2>1, <2>3
  <2>5. added' \in Seq(Candidates) /\ pendingIce' \in Seq(Candidates)
    BY <2>1, <2>3
  <2> QED
    BY <2>1, <2>2, <2>4, <2>5
<1>6. CASE HandleOffer \/ HandleLoss
  <2>1. inbox' \in Seq(Candidates \cup {"answer", "offer"} \cup Losses)
    BY <1>6, InboxTaken DEF HandleOffer, HandleLoss
  <2> QED
    BY <1>6, <2>1 DEF HandleOffer, HandleLoss
<1>7. CASE StartAgain
  BY <1>7 DEF StartAgain
<1>8. CASE CommandArrives
  BY <1>8 DEF CommandArrives
<1>9. CASE RouteCommand
  <2>1. Head(commands) \in Commands /\ Tail(commands) \in Seq(Commands)
    BY <1>9, HeadTailProperties DEF RouteCommand
  <2> QED
    BY <1>9, <2>1 DEF RouteCommand
<1>10. CASE UNCHANGED <<inbox, iceVars, channelVars>>
  BY <1>10
<1> QED
  BY <1>1, <1>2, <1>3, <1>4, <1>5, <1>6, <1>7, <1>8, <1>9, <1>10
  DEF PeerNext, Join, SendOffer, SubscribeEvents, Loop, FailedWaited, Exit, PeerEnv, WriteFails, IceFailed,
      Terminate, StartFails

LEMMA PeerPlacesStep ==
  ASSUME PeerPlaces, [PeerNext]_peerVars PROVE PeerPlaces'
<1>1. lives' \in 1 .. MaxLives /\ answers' \in 0 .. MaxAnswers
  BY PeerAssumption
  DEF PeerPlaces, PeerNext, Join, SendOffer, SubscribeEvents, Loop, HandleAnswer, HandleCandidate, HandleOffer,
      HandleLoss, FailedWaited, Exit, PeerEnv, CockpitSends, LinkLost, WriteFails, IceFailed, Terminate, StartFails,
      StartAgain, CommandArrives, RouteCommand, peerVars
<1>2. /\ stage' \in {"start", "joined", "offered", "run", "failing", "exited"}
      /\ link' \in {"up", "lost", "mute"}
  BY DEF PeerPlaces, PeerNext, Join, SendOffer, SubscribeEvents, Loop, HandleAnswer, HandleCandidate, HandleOffer,
      HandleLoss, FailedWaited, Exit, PeerEnv, CockpitSends, LinkLost, WriteFails, IceFailed, Terminate, StartFails,
      StartAgain, CommandArrives, RouteCommand, peerVars
<1> QED
  BY <1>1, <1>2 DEF PeerPlaces

LEMMA PeerFlagStep ==
  ASSUME PeerFlag, [PeerNext]_peerVars PROVE PeerFlag'
BY DEF PeerFlag, PeerNext, Join, SendOffer, SubscribeEvents, Loop, HandleAnswer, HandleCandidate, HandleOffer,
   HandleLoss, FailedWaited, Exit, PeerEnv, CockpitSends, LinkLost, WriteFails, IceFailed, Terminate, StartFails,
   StartAgain, CommandArrives, RouteCommand, peerVars, iceVars

LEMMA PeerTypesStep == PeerTypeOK /\ [PeerNext]_peerVars => PeerTypeOK'
<1> SUFFICES ASSUME PeerTypeOK, [PeerNext]_peerVars PROVE PeerTypeOK'
  OBVIOUS
<1>1. PeerQueues /\ PeerPlaces /\ PeerFlag
  BY PeerTypesAgree
<1>2. PeerQueues' /\ PeerPlaces' /\ PeerFlag'
  BY <1>1, PeerQueuesStep, PeerPlacesStep, PeerFlagStep
<1> QED
  BY <1>2 DEF PeerTypeOK, PeerQueues, PeerPlaces, PeerFlag

(* The cockpit's candidates reach the peer connection once, in order and      *)
(* after the answer (host-controller.rs, pending_ice): for any candidates and *)
(* any number of restarts.                                                    *)
THEOREM CandidatesArriveInOrder == PeerSpec => [](PeerTypeOK /\ CandidatesInOrder)
BY PeerInitInv, PeerStep, PeerTypesInit, PeerTypesStep, PTL DEF PeerSpec

-----------------------------------------------------------------------------
(* Configuration pushed from the cloud.                                       *)

(* A non-empty set of versions has a newest one: the one with the smallest    *)
(* interval above it.                                                         *)
LEMMA NewestExists ==
  ASSUME NEW m \in Nat, NEW V \in SUBSET (0 .. m), V # {}
  PROVE  \E v \in V : \A w \in V : w <= v
<1> DEFINE Up(v) == v .. m
           Ups == {Up(v) : v \in V}
<1>1. IsFiniteSet(0 .. m)
  BY FS_Interval
<1>2. IsWellFoundedOn(StrictSubsetOrdering(0 .. m), SUBSET (0 .. m))
  BY <1>1, FS_FiniteSubsetsOfFinite, FS_StrictSubsetOrderingWellFounded
<1>3. Ups \subseteq SUBSET (0 .. m) /\ Ups # {}
  <2>1. \A v \in V : Up(v) \subseteq 0 .. m
    OBVIOUS
  <2> HIDE DEF Up
  <2> QED
    BY <2>1
<1>4. PICK x \in Ups : \A y \in Ups : ~(<<y, x>> \in StrictSubsetOrdering(0 .. m))
  <2> DEFINE R == StrictSubsetOrdering(0 .. m)
             T == SUBSET (0 .. m)
  <2>1. IsWellFoundedOn(R, T) /\ Ups \subseteq T /\ Ups # {}
    BY <1>2, <1>3
  <2>2. \E x \in Ups : \A y \in Ups : ~(<<y, x>> \in R)
    <3> HIDE DEF R, T, Ups
    <3> QED
      BY <2>1, WFMin
  <2> QED
    BY <2>2
<1>5. PICK v \in V : x = Up(v)
  BY <1>4
<1>6. ASSUME NEW w \in V, w > v PROVE FALSE
  <2>1. Up(w) \in Ups /\ Up(w) \subseteq Up(v)
    BY <1>6
  <2>2. v \in Up(v) /\ v \notin Up(w)
    BY <1>6
  <2>3. <<Up(w), x>> \in StrictSubsetOrdering(0 .. m)
    BY <2>1, <2>2, <1>3, <1>4, <1>5 DEF StrictSubsetOrdering
  <2> QED
    BY <2>1, <2>3, <1>4
<1> QED
  BY <1>6

(* The agent reports a version some backup is named after, or none; what it   *)
(* is about to write is newer and has its backup, made before; and while it   *)
(* is dead it writes nothing.                                                 *)
VersionInv ==
  /\ tomlVersion \in Versions /\ configVersion \in Versions /\ backups \in SUBSET Versions
  /\ mailbox \in Pushes \cup {NoPush}
  /\ DOMAIN at = Appliers /\ DOMAIN job = Appliers
  /\ configVersion # 0 => configVersion \in backups
  /\ ~agentUp => at["agent"] = "idle"
  /\ at["agent"] \in {"backup", "toml", "oxfile"} =>
       job["agent"].version \in Versions /\ job["agent"].version > configVersion
  /\ at["agent"] \in {"toml", "oxfile"} => job["agent"].version \in backups

LEMMA VersionInitInv == ConfigInit => VersionInv
BY ConfigAssumption DEF ConfigInit, VersionInv, Versions, Appliers

(* What is recovered after a restart is no older than what was reported.      *)
LEMMA RecoveredIsNewest ==
  ASSUME VersionInv
  PROVE  /\ RecoveredVersion \in Versions
         /\ RecoveredVersion >= configVersion
         /\ RecoveredVersion # 0 => RecoveredVersion \in backups
<1> USE DEF VersionInv, Versions
<1>1. CASE backups = {}
  BY <1>1, ConfigAssumption DEF RecoveredVersion
<1>2. CASE backups # {}
  <2>1. \E v \in backups : \A w \in backups : w <= v
    BY <1>2, NewestExists, ConfigAssumption
  <2>2. RecoveredVersion \in backups /\ \A w \in backups : w <= RecoveredVersion
    BY <1>2, <2>1 DEF RecoveredVersion
  <2> QED
    BY <2>2, ConfigAssumption
<1> QED
  BY <1>1, <1>2

NeverBack ==
  /\ configVersion' >= configVersion
  /\ tomlVersion' < tomlVersion => tomlVersion > configVersion

LEMMA VersionStep ==
  VersionInv /\ [ConfigNext]_configVars => VersionInv' /\ NeverBack
<1> SUFFICES ASSUME VersionInv, [ConfigNext]_configVars
             PROVE  VersionInv' /\ NeverBack
  OBVIOUS
<1> USE ConfigAssumption DEF VersionInv, NeverBack, Versions, Appliers, Goto, Fault,
        agentVars, diskVars, boundVars
<1>1. CASE UNCHANGED configVars
  BY <1>1 DEF configVars
<1>2. CASE PushConfig
  BY <1>2 DEF PushConfig
<1>3. CASE TakePush
  <2>1. CASE Stale(mailbox) \/ ~Valid(mailbox.config)
    BY <1>3, <2>1 DEF TakePush
  <2>2. CASE ~(Stale(mailbox) \/ ~Valid(mailbox.config))
    <3>1. mailbox \in Pushes /\ mailbox.version \in Versions /\ mailbox.version > configVersion
      BY <1>3, <2>2 DEF TakePush, Pushes, Stale
    <3>2. at' = [at EXCEPT !["agent"] = "backup"] /\ job' = [job EXCEPT !["agent"] = mailbox]
      BY <1>3, <2>2 DEF TakePush
    <3>3. at'["agent"] = "backup" /\ job'["agent"] = mailbox
      BY <3>2
    <3> QED
      BY <1>3, <3>1, <3>2, <3>3 DEF TakePush
  <2> QED
    BY <2>1, <2>2
<1>4. CASE Backup
  <2>1. /\ at["agent"] = "backup" /\ at' = [at EXCEPT !["agent"] = "toml"]
        /\ UNCHANGED <<hostToml, tomlVersion, agentUp, mailbox, configVersion, job>>
    BY <1>4 DEF Backup
  <2>2. at'["agent"] = "toml" /\ at'["cli"] = at["cli"]
    BY <2>1
  <2>3. /\ backups' = backups \cup {job["agent"].version} /\ job["agent"].version \in Versions /\ agentUp
        /\ job["agent"].version > configVersion
    BY <1>4 DEF Backup
  <2>4. NeverBack
    BY <2>1
  <2>5. VersionInv'
    BY <2>1, <2>2, <2>3
  <2> QED
    BY <2>4, <2>5
<1>5. CASE WriteToml
  BY <1>5 DEF WriteToml
<1>6. CASE WriteOxfile
  BY <1>6 DEF WriteOxfile
<1>7. CASE Restart
  BY <1>7, RecoveredIsNewest DEF Restart
<1>8. CASE WriteFailsHere
  <2>1. at' = [at EXCEPT !["agent"] = "idle"] /\ at'["agent"] = "idle"
    BY <1>8 DEF WriteFailsHere
  <2>2. backups' = backups \/ (at["agent"] = "backup" /\ backups' = backups \cup {job["agent"].version})
    BY <1>8 DEF WriteFailsHere
  <2>3. backups' \in SUBSET Versions /\ backups \subseteq backups'
    BY <2>2
  <2>4. UNCHANGED <<hostToml, tomlVersion, agentVars, job>>
    BY <1>8 DEF WriteFailsHere
  <2> QED
    BY <2>1, <2>3, <2>4
<1>9. CASE Crash
  BY <1>9 DEF Crash
<1>10. ASSUME NEW p \in Appliers, StartApps(p) \/ ListApps(p) \/ DeleteApp(p) \/ OxmgrFails(p)
       PROVE  VersionInv' /\ NeverBack
  <2>1. UNCHANGED <<diskVars, agentVars, job>>
    BY <1>10 DEF StartApps, ListApps, DeleteApp, OxmgrFails
  <2>2. \E s \in {"list", "delete", "idle"} : at[p] # "idle" /\ at' = [at EXCEPT ![p] = s]
    BY <1>10 DEF StartApps, ListApps, DeleteApp, OxmgrFails
  <2> QED
    BY <2>1, <2>2
<1>11. CASE ReadToml
  BY <1>11 DEF ReadToml
<1>12. CASE CliWriteOxfile
  BY <1>12 DEF CliWriteOxfile
<1> QED
  BY <1>1, <1>2, <1>3, <1>4, <1>5, <1>6, <1>7, <1>8, <1>9, <1>10, <1>11, <1>12
     DEF ConfigNext, ApplyStep, CliStep

(* The vehicle never leaves a version it has reported for an older one: for   *)
(* any number of pushes, failed writes, kills and restarts, and any hand-run  *)
(* `host apply` (translate.rs: the stale guard and recover_config_version).   *)
THEOREM NeverDowngraded == ConfigSpec => NoDowngrade
<1>1. VersionInv /\ [ConfigNext]_configVars => VersionInv'
  BY VersionStep
<1>2. VersionInv /\ [ConfigNext]_configVars =>
        [/\ configVersion' >= configVersion
         /\ tomlVersion' < tomlVersion => tomlVersion > configVersion]_configVars
  BY VersionStep DEF NeverBack
<1> QED
  BY VersionInitInv, <1>1, <1>2, PTL DEF ConfigSpec, NoDowngrade

(* What an applier is about to write is a configuration the oxfile can have:  *)
(* `Valid` has left none of the illegal names in it.                          *)
ConfigInHand ==
  /\ DOMAIN job = Appliers
  /\ doomed \in [Appliers -> SUBSET (Instances \cup FixedApps)]
  /\ at["agent"] \in {"backup", "toml", "oxfile"} =>
       job["agent"].version \in Versions /\ job["agent"].config \in Configs
  /\ at["cli"] = "oxfile" => job["cli"].config \in Configs

ConfigTyped == ConfigTypeOK /\ ConfigInHand

LEMMA ConfigTypedInit == ConfigInit => ConfigTyped
BY ConfigAssumption DEF ConfigInit, ConfigTyped, ConfigTypeOK, ConfigInHand, Configs, Versions,
   Appliers, OxfileApps

LEMMA FaultCounted ==
  ASSUME ConfigTypeOK, Fault
  PROVE  faults' \in 0 .. MaxFaults /\ UNCHANGED <<pushes, cliRuns>>
BY ConfigAssumption DEF Fault, ConfigTypeOK

LEMMA TakenIsValid ==
  ASSUME ConfigTyped, TakePush
  PROVE  ConfigTyped'
<1>1. CASE Stale(mailbox) \/ ~Valid(mailbox.config)
  BY <1>1 DEF TakePush, ConfigTyped, ConfigTypeOK, ConfigInHand, diskVars, boundVars
<1>2. CASE ~(Stale(mailbox) \/ ~Valid(mailbox.config))
  <2>1. mailbox \in Pushes /\ Valid(mailbox.config)
    BY <1>2 DEF TakePush, ConfigTyped, ConfigTypeOK
  <2>2. mailbox.version \in Versions /\ mailbox.config \in Configs
    BY <2>1, ConfigAssumption DEF Pushes, Valid, Configs
  <2>3. /\ at' = [at EXCEPT !["agent"] = "backup"] /\ job' = [job EXCEPT !["agent"] = mailbox]
        /\ mailbox' = NoPush /\ agentUp
        /\ UNCHANGED <<diskVars, liveApps, agentUp, configVersion, doomed, boundVars>>
    BY <1>2 DEF TakePush, Goto
  <2>4. at'["agent"] = "backup" /\ at'["cli"] = at["cli"] /\ job'["agent"] = mailbox /\ job'["cli"] = job["cli"]
    BY <2>3 DEF ConfigTyped, ConfigTypeOK, ConfigInHand, Appliers
  <2> QED
    BY <2>2, <2>3, <2>4 DEF ConfigTyped, ConfigTypeOK, ConfigInHand, Appliers, diskVars, boundVars
<1> QED
  BY <1>1, <1>2

LEMMA AppsStep ==
  ASSUME ConfigTyped, NEW p \in Appliers, StartApps(p) \/ ListApps(p) \/ DeleteApp(p) \/ OxmgrFails(p)
  PROVE  ConfigTyped'
<1>1. UNCHANGED <<diskVars, agentVars, job, pushes, cliRuns>>
  BY DEF StartApps, ListApps, DeleteApp, OxmgrFails, boundVars, Fault
<1>2. faults' \in 0 .. MaxFaults
  BY FaultCounted DEF StartApps, ListApps, DeleteApp, OxmgrFails, boundVars, ConfigTyped, ConfigTypeOK
<1>3. \E s \in {"list", "delete", "idle"} :
        at[p] \in {"start", "list", "delete"} /\ at' = [at EXCEPT ![p] = s]
  BY DEF StartApps, ListApps, DeleteApp, OxmgrFails, Goto
<1>4. liveApps' \subseteq FixedApps \cup Instances
  BY DEF StartApps, ListApps, DeleteApp, OxmgrFails, OxfileApps, ConfigTyped, ConfigTypeOK, Configs
<1>5. doomed' \in [Appliers -> SUBSET (Instances \cup FixedApps)]
  <2>1. doomed \in [Appliers -> SUBSET (Instances \cup FixedApps)] /\ liveApps \subseteq FixedApps \cup Instances
    BY DEF ConfigTyped, ConfigTypeOK, ConfigInHand
  <2>2. RemovedApps \subseteq Instances \cup FixedApps
    BY <2>1 DEF RemovedApps
  <2> QED
    BY <2>1, <2>2 DEF StartApps, ListApps, DeleteApp, OxmgrFails
<1>6. /\ at' \in [Appliers -> {"idle", "backup", "toml", "oxfile", "start", "list", "delete"}]
      /\ at'["cli"] \notin {"backup", "toml"} /\ (~agentUp => at'["agent"] = "idle")
      /\ at'["agent"] \in {"backup", "toml", "oxfile"} => at'["agent"] = at["agent"]
      /\ at'["cli"] = "oxfile" => at["cli"] = "oxfile"
  BY <1>3 DEF ConfigTyped, ConfigTypeOK, Appliers
<1> QED
  BY <1>1, <1>2, <1>4, <1>5, <1>6 DEF ConfigTyped, ConfigTypeOK, ConfigInHand, diskVars, agentVars

LEMMA ConfigTypedStep == VersionInv /\ ConfigTyped /\ [ConfigNext]_configVars => ConfigTyped'
<1> SUFFICES ASSUME VersionInv, ConfigTyped, [ConfigNext]_configVars PROVE ConfigTyped'
  OBVIOUS
<1> USE DEF ConfigTyped, ConfigTypeOK, ConfigInHand, Goto, Appliers, diskVars, agentVars, boundVars
<1>1. CASE UNCHANGED configVars
  BY <1>1 DEF configVars
<1>2. CASE PushConfig
  <2>1. pushes' \in 0 .. MaxPushes
    BY <1>2, ConfigAssumption DEF PushConfig
  <2> QED
    BY <1>2, <2>1 DEF PushConfig
<1>3. CASE TakePush
  BY <1>3, TakenIsValid
<1>4. CASE Backup
  BY <1>4 DEF Backup
<1>5. CASE WriteToml
  BY <1>5 DEF WriteToml
<1>6. CASE WriteOxfile
  BY <1>6 DEF WriteOxfile
<1>7. CASE Restart
  <2>1. RecoveredVersion \in Versions
    BY RecoveredIsNewest
  <2> QED
    BY <1>7, <2>1 DEF Restart
<1>8. CASE WriteFailsHere
  <2>1. faults' \in 0 .. MaxFaults /\ UNCHANGED <<pushes, cliRuns>>
    BY <1>8, FaultCounted DEF WriteFailsHere
  <2>2. backups' \subseteq Versions
    BY <1>8 DEF WriteFailsHere
  <2>3. UNCHANGED <<hostToml, tomlVersion, oxfile, liveApps, agentVars, job, doomed>>
        /\ at' = [at EXCEPT !["agent"] = "idle"]
    BY <1>8 DEF WriteFailsHere
  <2> QED
    BY <2>1, <2>2, <2>3
<1>9. CASE Crash
  <2>1. faults' \in 0 .. MaxFaults /\ UNCHANGED <<pushes, cliRuns>>
    BY <1>9, FaultCounted DEF Crash
  <2> QED
    BY <1>9, <2>1 DEF Crash
<1>10. ASSUME NEW p \in Appliers, StartApps(p) \/ ListApps(p) \/ DeleteApp(p) \/ OxmgrFails(p)
       PROVE  ConfigTyped'
  BY <1>10, AppsStep
<1>11. CASE ReadToml
  <2>1. cliRuns' \in 0 .. MaxCli
    BY <1>11, ConfigAssumption DEF ReadToml
  <2> QED
    BY <1>11, <2>1 DEF ReadToml
<1>12. CASE CliWriteOxfile
  BY <1>12 DEF CliWriteOxfile
<1> QED
  BY <1>1, <1>2, <1>3, <1>4, <1>5, <1>6, <1>7, <1>8, <1>9, <1>10, <1>11, <1>12
     DEF ConfigNext, ApplyStep, CliStep

(* What the agent and `host apply` write is always a configuration the oxfile *)
(* can have, whatever was pushed (translate.rs, validate): for any pushes.    *)
THEOREM ConfigKeepsTypes == ConfigSpec => []ConfigTypeOK
<1>1. ConfigTyped => ConfigTypeOK
  BY DEF ConfigTyped
<1> QED
  BY VersionInitInv, VersionStep, ConfigTypedInit, ConfigTypedStep, <1>1, PTL DEF ConfigSpec

(* Without faults and without `host apply`: how far apart host.toml, the      *)
(* oxfile and the running apps are at each step of the applier.               *)
Settling ==
  /\ at["cli"] = "idle" /\ agentUp
  /\ at["agent"] # "oxfile" => oxfile = hostToml
  /\ at["agent"] = "oxfile" => hostToml = job["agent"].config
  /\ at["agent"] \in {"idle", "backup", "toml", "oxfile"} => liveApps = OxfileApps(oxfile)
  /\ at["agent"] \in {"list", "delete"} => OxfileApps(oxfile) \subseteq liveApps
  /\ at["agent"] = "delete" => doomed["agent"] = liveApps \ OxfileApps(oxfile)
SettlingInv == faults = 0 /\ cliRuns = 0 => Settling

LEMMA SettlingStep == ConfigTyped /\ SettlingInv /\ [ConfigNext]_configVars => SettlingInv'
<1> SUFFICES ASSUME ConfigTyped, SettlingInv, [ConfigNext]_configVars, faults' = 0, cliRuns' = 0
             PROVE  Settling'
  BY DEF SettlingInv
<1>0. /\ faults \in Nat /\ cliRuns \in Nat /\ DOMAIN at = Appliers /\ DOMAIN job = Appliers
      /\ DOMAIN doomed = Appliers /\ "agent" \in Appliers /\ "cli" \in Appliers
  BY ConfigAssumption DEF ConfigTyped, ConfigTypeOK, ConfigInHand, Appliers
<1>1. faults = 0 /\ cliRuns = 0 /\ UNCHANGED <<faults, cliRuns>>
  BY <1>0 DEF ConfigNext, PushConfig, ApplyStep, CliStep, TakePush, Backup, WriteToml, WriteOxfile, Restart, StartApps,
     ListApps, DeleteApp, ReadToml, CliWriteOxfile, WriteFailsHere, OxmgrFails, Crash, Fault, boundVars, configVars
<1>2. Settling
  BY <1>1 DEF SettlingInv
<1> USE <1>0, <1>1, <1>2 DEF Settling, Goto, diskVars, agentVars, boundVars
<1>3. CASE PushConfig \/ UNCHANGED configVars
  BY <1>3 DEF PushConfig, configVars
<1>4. CASE TakePush
  BY <1>4 DEF TakePush
<1>5. CASE Backup
  BY <1>5 DEF Backup
<1>6. CASE WriteToml
  BY <1>6 DEF WriteToml
<1>7. CASE WriteOxfile
  BY <1>7 DEF WriteOxfile
<1>8. CASE StartApps("agent")
  BY <1>8 DEF StartApps
<1>9. CASE ListApps("agent")
  <2>1. CASE RemovedApps = {}
    <3>1. liveApps = OxfileApps(oxfile)
      BY <1>9, <2>1 DEF ListApps, RemovedApps
    <3> QED
      BY <1>9, <2>1, <3>1 DEF ListApps
  <2>2. CASE RemovedApps # {}
    BY <1>9, <2>2 DEF ListApps, RemovedApps
  <2> QED
    BY <2>1, <2>2
<1>10. CASE DeleteApp("agent")
  <2>1. PICK a \in doomed["agent"] :
          /\ at["agent"] = "delete" /\ liveApps' = liveApps \ {a}
          /\ doomed' = [doomed EXCEPT !["agent"] = @ \ {a}]
          /\ at' = [at EXCEPT !["agent"] = IF doomed["agent"] = {a} THEN "idle" ELSE "delete"]
          /\ UNCHANGED <<diskVars, agentVars, job>>
    <3>1. ~Fault
      BY DEF Fault
    <3> QED
      BY <1>10, <3>1 DEF DeleteApp
  <2>2. /\ OxfileApps(oxfile) \subseteq liveApps'
        /\ doomed["agent"] \ {a} = liveApps' \ OxfileApps(oxfile)
    BY <2>1
  <2>3. doomed["agent"] = {a} => liveApps' = OxfileApps(oxfile)
    BY <2>2
  <2>4. UNCHANGED <<hostToml, oxfile, agentUp>> /\ at'["cli"] = "idle" /\ doomed'["agent"] = doomed["agent"] \ {a}
        /\ at'["agent"] = IF doomed["agent"] = {a} THEN "idle" ELSE "delete"
    BY <2>1
  <2>5. OxfileApps(oxfile)' = OxfileApps(oxfile)
    BY <2>4 DEF OxfileApps
  <2> QED
    BY <2>1, <2>2, <2>3, <2>4, <2>5
<1>11. ~WriteFailsHere /\ ~OxmgrFails("agent") /\ ~Crash /\ ~Restart
  BY DEF WriteFailsHere, OxmgrFails, Crash, Restart, Fault
<1>12. ~CliStep
  BY DEF CliStep, ReadToml, CliWriteOxfile, StartApps, ListApps, DeleteApp, OxmgrFails
<1> QED
  BY <1>3, <1>4, <1>5, <1>6, <1>7, <1>8, <1>9, <1>10, <1>11, <1>12 DEF ConfigNext, ApplyStep

(* Without faults, and with nobody running `host apply` beside it, an applier *)
(* that waits for the next push has left exactly the apps running that        *)
(* host.toml asks for, however many pushes came while it worked               *)
(* (translate.rs, oxmgr_apply): for any instances, versions and pushes.       *)
THEOREM IdleMeansSettled == ConfigSpec => []SettledWhenIdle
<1>1. ConfigInit => SettlingInv
  BY DEF ConfigInit, SettlingInv, Settling, Appliers
<1>2. SettlingInv => SettledWhenIdle
  BY DEF SettlingInv, Settling, SettledWhenIdle
<1> QED
  BY VersionInitInv, VersionStep, ConfigTypedInit, ConfigTypedStep, SettlingStep, <1>1, <1>2, PTL
     DEF ConfigSpec

-----------------------------------------------------------------------------
(* The instance directory.                                                    *)

SetupFiles == {"host.toml", "signing.pem", "identity.json", "ros_bridge.yaml"}

(* A file that is being written is the next of the list, and a running        *)
(* command's; the key is rewritten only where no token is signed with it.     *)
InitInv ==
  /\ present \in [InstanceFiles -> {"no", "cut", "whole"}] /\ hostKey \in Nat
  /\ signedFor \in [TokenFiles -> [app : TokenApps \cup {NoApp.app}, key : Nat]]
  /\ issuance \in Seq(TokenApps)
  /\ \A f \in TokenFiles : signedFor[f] = NoApp \/ signedFor[f].app \in TokenApps
  /\ writing \in InstanceFiles \cup {NoWrite}
  /\ initExit \in {"none", "running", "ok", "error", "killed"}
  /\ writing # NoWrite => CommandRuns /\ todoFiles # <<>> /\ Head(todoFiles) # SetupFile("tokens")
  /\ writing \in TokenFiles => present[writing] # "no"
  /\ writing = "signing.pem" => present["signing.pem"] = "cut"
  /\ TokensAccountedFor

LEMMA NamesOfFiles ==
  /\ ToSet(SetupNames) = SetupFiles /\ InstanceFiles = SetupFiles \cup TokenFiles
  /\ SetupFiles \cap TokenFiles = {} /\ NoWrite \notin InstanceFiles
  /\ \A a \in TokenApps : a.id \in TokenFiles /\ a # SetupFile("tokens")
<1>1. ToSet(SetupNames) = SetupFiles
  <2>1. DOMAIN SetupNames = 1 .. 4
    BY DEF SetupNames
  <2>2. /\ SetupNames[1] = "host.toml" /\ SetupNames[2] = "signing.pem"
        /\ SetupNames[3] = "identity.json" /\ SetupNames[4] = "ros_bridge.yaml"
    BY DEF SetupNames
  <2>3. \A i \in 1 .. 4 : i = 1 \/ i = 2 \/ i = 3 \/ i = 4
    OBVIOUS
  <2>4. 1 \in 1 .. 4 /\ 2 \in 1 .. 4 /\ 3 \in 1 .. 4 /\ 4 \in 1 .. 4
    OBVIOUS
  <2> QED
    BY <2>1, <2>2, <2>3, <2>4 DEF ToSet, SetupFiles
<1>2. InstanceFiles = SetupFiles \cup TokenFiles
  BY <1>1 DEF InstanceFiles
<1>3. \A a \in TokenApps : a.id \in TokenFiles /\ a.id \notin SetupFiles /\ a.id # "none" /\ a.role # "setup"
  BY <1>1, HostInitAssumption DEF TokenFiles
<1>4. SetupFiles \cap TokenFiles = {} /\ NoWrite \notin TokenFiles
  BY <1>3 DEF TokenFiles, NoWrite
<1>5. NoWrite \notin SetupFiles
  BY DEF NoWrite, SetupFiles
<1>6. \A a \in TokenApps : a # SetupFile("tokens")
  BY <1>3 DEF SetupFile
<1> QED
  BY <1>1, <1>2, <1>3, <1>4, <1>5, <1>6

LEMMA InitInitInv == HostInitInit => InitInv
<1> SUFFICES ASSUME HostInitInit PROVE InitInv
  OBVIOUS
<1>1. <<>> \in Seq(TokenApps)
  BY EmptyQueue
<1>2. NoApp \in [app : TokenApps \cup {NoApp.app}, key : Nat]
  BY DEF NoApp
<1>3. "signing.pem" \in SetupFiles
  BY DEF SetupFiles
<1> QED
  BY <1>1, <1>2, <1>3, NamesOfFiles DEF HostInitInit, InitInv, TokensAccountedFor, NoWrite

LEMMA InitStep == InitInv /\ [HostInitNext]_initVars => InitInv'
<1> SUFFICES ASSUME InitInv, [HostInitNext]_initVars PROVE InitInv'
  OBVIOUS
<1>0. /\ "signing.pem" \in SetupFiles /\ "identity.json" \in SetupFiles /\ "tokens" \notin SetupFiles
      /\ \A f \in SetupFiles : SetupFile(f) # SetupFile("tokens")
  BY DEF SetupFiles, SetupFile
<1>1. CASE UNCHANGED <<present, hostKey, signedFor, issuance>> /\ (writing' = writing \/ writing' = NoWrite)
           /\ initExit' \in {"none", "running", "ok", "error", "killed"}
           /\ (writing' # NoWrite => initExit' = "running" /\ todoFiles' # <<>> /\ Head(todoFiles') # SetupFile("tokens"))
  BY <1>0, <1>1, NamesOfFiles DEF InitInv, TokensAccountedFor, CommandRuns
<1>2. ASSUME NEW todo, Command(todo) PROVE InitInv'
  <2>1. UNCHANGED <<present, hostKey, signedFor, issuance>> /\ writing' = writing /\ writing = NoWrite
        /\ initExit' = "running"
    BY <1>2 DEF Command, InitInv
  <2> QED
    BY <1>1, <2>1
<1>3. ASSUME NEW f \in ToSet(SetupNames), Setup(f) PROVE InitInv'
  <2>0. f \in SetupFiles /\ f \in InstanceFiles /\ f \notin TokenFiles
    BY NamesOfFiles
  <2>1. CASE UNCHANGED <<present, writing>>
    <3>1. writing = NoWrite /\ UNCHANGED <<hostKey, signedFor, issuance, initExit>>
      BY <1>3 DEF Setup
    <3> QED
      BY <1>1, <2>1, <3>1 DEF InitInv
  <2>2. CASE ~UNCHANGED <<present, writing>>
    <3>1. /\ present[f] = "no" \/ f = "ros_bridge.yaml"
          /\ present' = [present EXCEPT ![f] = "cut"] /\ writing' = f
          /\ UNCHANGED <<hostKey, signedFor, issuance, initExit, todoFiles>> /\ CommandRuns
          /\ todoFiles # <<>> /\ Head(todoFiles) = SetupFile(f)
      BY <1>3, <2>2 DEF Setup
    <3>2. /\ present' \in [InstanceFiles -> {"no", "cut", "whole"}] /\ present'[f] = "cut"
          /\ \A g \in InstanceFiles : g # f => present'[g] = present[g]
      BY <2>0, <3>1 DEF InitInv
    <3>3. TokensAccountedFor'
      <4>1. \A g \in TokenFiles : present'[g] = present[g]
        BY <2>0, <3>2, NamesOfFiles
      <4>2. CASE f = "signing.pem"
        BY <3>1, <4>1, <4>2 DEF InitInv, TokensAccountedFor
      <4>3. CASE f # "signing.pem"
        <5>1. present'["signing.pem"] = present["signing.pem"]
          BY <1>0, <3>2, <4>3, NamesOfFiles
        <5> QED
          BY <3>1, <4>1, <5>1 DEF InitInv, TokensAccountedFor
      <4> QED
        BY <4>2, <4>3
    <3> QED
      BY <1>0, <2>0, <3>1, <3>2, <3>3, NamesOfFiles DEF InitInv, CommandRuns
  <2> QED
    BY <2>1, <2>2
<1>4. CASE EnsureIdentity
  <2>0. "identity.json" \in InstanceFiles /\ "identity.json" \notin TokenFiles
    BY <1>0, NamesOfFiles
  <2>1. CASE UNCHANGED present
    <3>1. writing = NoWrite /\ UNCHANGED <<hostKey, signedFor, issuance>> /\ (writing' = writing \/ writing' = NoWrite)
          /\ (UNCHANGED initExit \/ initExit' = "error")
      <4>1. writing' = "identity.json" => present' = [present EXCEPT !["identity.json"] = "cut"] /\ present["identity.json"] = "no"
        BY <1>4, NamesOfFiles, <2>0 DEF EnsureIdentity, EndCommand, NoWrite
      <4>2. writing' # "identity.json"
        BY <2>0, <2>1, <4>1 DEF InitInv
      <4> QED
        BY <1>4, <2>1, <4>2 DEF EnsureIdentity, EndCommand
    <3> QED
      BY <1>1, <2>1, <3>1 DEF InitInv
  <2>2. CASE ~UNCHANGED present
    <3>1. /\ present' = [present EXCEPT !["identity.json"] = "cut"] /\ writing' = "identity.json"
          /\ UNCHANGED <<hostKey, signedFor, issuance, initExit, todoFiles>> /\ CommandRuns
          /\ todoFiles # <<>> /\ Head(todoFiles) = SetupFile("identity.json")
      BY <1>4, <2>2 DEF EnsureIdentity
    <3>2. /\ present' \in [InstanceFiles -> {"no", "cut", "whole"}]
          /\ \A g \in InstanceFiles : g # "identity.json" => present'[g] = present[g]
      BY <2>0, <3>1 DEF InitInv
    <3>3. TokensAccountedFor'
      <4>1. \A g \in TokenFiles : present'[g] = present[g]
        BY <2>0, <3>2, NamesOfFiles
      <4>2. present'["signing.pem"] = present["signing.pem"]
        BY <1>0, <3>2, NamesOfFiles
      <4> QED
        BY <3>1, <4>1, <4>2 DEF InitInv, TokensAccountedFor
    <3> QED
      BY <1>0, <2>0, <3>1, <3>2, <3>3, NamesOfFiles DEF InitInv, CommandRuns
  <2> QED
    BY <2>1, <2>2
<1>5. CASE ReadApps
  <2>1. /\ Head(todoFiles) = SetupFile("tokens") /\ UNCHANGED <<present, hostKey, signedFor, issuance>>
        /\ (writing' = writing \/ writing' = NoWrite) /\ (UNCHANGED initExit \/ initExit' = "error")
    BY <1>5 DEF ReadApps, EndCommand
  <2>2. writing = NoWrite
    BY <2>1 DEF InitInv
  <2> QED
    BY <1>1, <2>1, <2>2 DEF InitInv
<1>6. CASE CommandCut \/ CommandEnds
  <2>1. /\ UNCHANGED <<present, hostKey, signedFor, issuance>> /\ (writing' = writing \/ writing' = NoWrite)
        /\ initExit' \in {"killed", "error", "ok"}
        /\ writing' # NoWrite => todoFiles = <<>> /\ writing' = writing
    BY <1>6 DEF CommandCut, CommandEnds, EndCommand
  <2>2. writing' = NoWrite
    BY <2>1 DEF InitInv
  <2> QED
    BY <1>1, <2>1, <2>2
<1>7. ASSUME NEW f \in InstanceFiles, Written(f) PROVE InitInv'
  <2>1. /\ writing = f /\ present' = [present EXCEPT ![f] = "whole"] /\ writing' = NoWrite
        /\ hostKey' = IF f = "signing.pem" THEN hostKey + 1 ELSE hostKey
        /\ UNCHANGED <<signedFor, issuance, initExit>>
    BY <1>7 DEF Written
  <2>2. /\ present' \in [InstanceFiles -> {"no", "cut", "whole"}] /\ present'[f] = "whole"
        /\ \A g \in InstanceFiles : g # f => present'[g] = present[g]
    BY <2>1 DEF InitInv
  <2>3. hostKey' \in Nat
    BY <2>1 DEF InitInv
  <2>4. TokensAccountedFor'
    <3>1. \A g \in TokenFiles : present'[g] # "no" => present[g] # "no"
      BY <2>1, <2>2, NamesOfFiles DEF InitInv
    <3>2. CASE f = "signing.pem"
      <4>1. present["signing.pem"] = "cut"
        BY <2>1, <3>2 DEF InitInv
      <4> QED
        BY <3>1, <4>1 DEF InitInv, TokensAccountedFor
    <3>3. CASE f # "signing.pem"
      <4>1. present'["signing.pem"] = present["signing.pem"] /\ hostKey' = hostKey
        BY <1>0, <2>1, <2>2, <3>3, NamesOfFiles
      <4> QED
        BY <2>1, <3>1, <4>1 DEF InitInv, TokensAccountedFor
    <3> QED
      BY <3>2, <3>3
  <2> QED
    BY <1>0, <2>1, <2>2, <2>3, <2>4, NamesOfFiles DEF InitInv
<1>8. ASSUME NEW a \in TokenApps, SkipToken(a) PROVE InitInv'
  <2>1. writing = NoWrite /\ UNCHANGED <<present, hostKey, signedFor, issuance, writing, initExit>>
    BY <1>8 DEF SkipToken, NextApp
  <2> QED
    BY <1>1, <2>1 DEF InitInv
<1>9. ASSUME NEW a \in TokenApps, IssueToken(a) PROVE InitInv'
  <2> DEFINE f == a.id
  <2>0. f \in TokenFiles /\ f \in InstanceFiles /\ f \notin SetupFiles /\ a # SetupFile("tokens")
    BY NamesOfFiles
  <2>1. /\ CommandRuns /\ todoFiles # <<>> /\ Head(todoFiles) = a /\ present["signing.pem"] = "whole"
        /\ issuance' = Append(issuance, a)
        /\ present' = [present EXCEPT ![f] = "cut"] /\ writing' = f
        /\ signedFor' = [signedFor EXCEPT ![f] = [app |-> a, key |-> hostKey]]
        /\ UNCHANGED <<hostKey, todoFiles, initExit>>
    BY <1>9 DEF IssueToken, NextApp
  <2> HIDE DEF f
  <2>2. /\ present' \in [InstanceFiles -> {"no", "cut", "whole"}] /\ present'[f] = "cut"
        /\ \A g \in InstanceFiles : g # f => present'[g] = present[g]
    BY <2>0, <2>1 DEF InitInv
  <2>3. /\ signedFor' \in [TokenFiles -> [app : TokenApps \cup {NoApp.app}, key : Nat]]
        /\ signedFor'[f].app = a /\ signedFor'[f].key = hostKey
        /\ \A g \in TokenFiles : g # f => signedFor'[g] = signedFor[g]
    BY <2>0, <2>1 DEF InitInv
  <2>4. /\ issuance' \in Seq(TokenApps) /\ Len(issuance') = Len(issuance) + 1 /\ Len(issuance) \in Nat
        /\ \A i \in 1 .. Len(issuance) : issuance'[i] = issuance[i]
        /\ issuance'[Len(issuance) + 1] = a
    BY <2>1, AppendFacts DEF InitInv
  <2>5. present'["signing.pem"] = "whole"
    BY <1>0, <2>0, <2>1, <2>2, NamesOfFiles
  <2>6. ASSUME NEW g \in TokenFiles, present'[g] # "no"
        PROVE  (\E i \in 1 .. Len(issuance') : issuance'[i] = signedFor'[g].app) /\ signedFor'[g].key = hostKey'
    <3>1. CASE g = f
      <4>1. Len(issuance) + 1 \in 1 .. Len(issuance')
        BY <2>4
      <4> QED
        BY <2>1, <2>3, <2>4, <3>1, <4>1
    <3>2. CASE g # f
      <4>1. /\ \E i \in 1 .. Len(issuance) : issuance[i] = signedFor[g].app
            /\ signedFor[g].key = hostKey
        BY <2>2, <2>6, <3>2, NamesOfFiles DEF InitInv, TokensAccountedFor
      <4>2. \A i \in 1 .. Len(issuance) : i \in 1 .. Len(issuance')
        BY <2>4
      <4> QED
        BY <2>1, <2>3, <2>4, <3>2, <4>1, <4>2
    <3> QED
      BY <3>1, <3>2
  <2>7. TokensAccountedFor'
    BY <2>5, <2>6 DEF TokensAccountedFor
  <2>8. \A g \in TokenFiles : signedFor'[g] = NoApp \/ signedFor'[g].app \in TokenApps
    BY <2>3 DEF InitInv
  <2> QED
    BY <1>0, <2>0, <2>1, <2>2, <2>3, <2>4, <2>7, <2>8, NamesOfFiles DEF InitInv, CommandRuns
<1>10. ASSUME NEW a \in TokenApps, TokenFails(a) \/ TokenCutShort(a) PROVE InitInv'
  <2>1. /\ UNCHANGED <<present, hostKey, signedFor>> /\ writing' = NoWrite
        /\ issuance' = issuance \/ issuance' = Append(issuance, a)
        /\ UNCHANGED initExit \/ initExit' = "error"
    BY <1>10 DEF TokenFails, TokenCutShort, NextApp, AfterError
  <2>2. CASE issuance' = issuance
    BY <1>1, <2>1, <2>2 DEF InitInv
  <2>3. CASE issuance' = Append(issuance, a)
    <3>1. /\ issuance' \in Seq(TokenApps) /\ Len(issuance') = Len(issuance) + 1 /\ Len(issuance) \in Nat
          /\ \A i \in 1 .. Len(issuance) : issuance'[i] = issuance[i]
      BY <2>3, AppendFacts DEF InitInv
    <3>2. \A i \in 1 .. Len(issuance) : i \in 1 .. Len(issuance')
      BY <3>1
    <3>3. TokensAccountedFor'
      BY <2>1, <3>1, <3>2 DEF InitInv, TokensAccountedFor
    <3> QED
      BY <1>0, <2>1, <3>1, <3>3, NamesOfFiles DEF InitInv
  <2> QED
    BY <2>1, <2>2, <2>3
<1>11. ASSUME NEW f \in TokenFiles, RemoveToken(f) PROVE InitInv'
  <2>0. f \in InstanceFiles /\ f # "signing.pem"
    BY <1>0, NamesOfFiles
  <2>1. /\ ~CommandRuns /\ present' = [present EXCEPT ![f] = "no"] /\ signedFor' = [signedFor EXCEPT ![f] = NoApp]
        /\ UNCHANGED <<hostKey, issuance, todoFiles, writing, initExit>>
    BY <1>11 DEF RemoveToken
  <2>2. /\ present' \in [InstanceFiles -> {"no", "cut", "whole"}] /\ present'[f] = "no"
        /\ \A g \in InstanceFiles : g # f => present'[g] = present[g]
    BY <2>0, <2>1 DEF InitInv
  <2>3. /\ signedFor' \in [TokenFiles -> [app : TokenApps \cup {NoApp.app}, key : Nat]] /\ signedFor'[f] = NoApp
        /\ \A g \in TokenFiles : g # f => signedFor'[g] = signedFor[g]
    <3>1. NoApp \in [app : TokenApps \cup {NoApp.app}, key : Nat]
      BY DEF NoApp
    <3> QED
      BY <2>1, <3>1 DEF InitInv
  <2>4. writing' = NoWrite
    BY <2>1 DEF InitInv
  <2>5. present'["signing.pem"] = present["signing.pem"]
    BY <1>0, <2>0, <2>2, NamesOfFiles
  <2>6. TokensAccountedFor'
    BY <2>1, <2>2, <2>3, <2>5, NamesOfFiles DEF InitInv, TokensAccountedFor
  <2>7. \A g \in TokenFiles : signedFor'[g] = NoApp \/ signedFor'[g].app \in TokenApps
    BY <2>3 DEF InitInv
  <2> QED
    BY <1>0, <2>1, <2>2, <2>3, <2>4, <2>6, <2>7, NamesOfFiles DEF InitInv
<1>12. CASE UNCHANGED initVars
  <2>1. UNCHANGED <<present, hostKey, signedFor, issuance, writing, initExit, todoFiles>>
    BY <1>12 DEF initVars
  <2> QED
    BY <1>1, <2>1 DEF InitInv, CommandRuns
<1> QED
  BY <1>2, <1>3, <1>4, <1>5, <1>6, <1>7, <1>8, <1>9, <1>10, <1>11, <1>12
  DEF HostInitNext, InitCommand, IssueAll

(* Every token on disk is in the log and signed with the key on disk: for any *)
(* applications and commands, however they ended.                             *)
THEOREM TokensStayAccountedFor == HostInitSpec => [](HostInitTypeOK /\ TokensAccountedFor)
<1>1. InitInv => HostInitTypeOK /\ TokensAccountedFor
  BY DEF InitInv, HostInitTypeOK
<1> QED
  BY InitInitInv, InitStep, <1>1, PTL DEF HostInitSpec

-----------------------------------------------------------------------------
(* The instances of a machine.                                                *)

HostSteps == {"write", "apply", "stopOld", "deleteOld", "stop", "delete", "leftovers", "uninstall", "removeUnits", "install"}
Commanded == [verb : Verbs \cup {"none"}, dir : Dirs \cup {NoDir}, steps : Seq(HostSteps), failed : BOOLEAN,
              old : Dirs \cup {NoDir}]
InstancesFlags == hcmd \in Commanded

(* A unit is installed by a command that has nothing else to do, and either   *)
(* found no unit of another instance or removes them first.                   *)
OneSeen == units \ unitsMissed = {} \/ \E d \in Dirs : units \ unitsMissed = {d}
NoInstall(s) == \A i \in 1 .. Len(s) : s[i] # "install"
InstancesInv ==
  /\ instanceToml \in [Dirs -> SUBSET (HostApps \cup {Agent})] /\ \A d \in Dirs : Agent \in instanceToml[d]
  /\ instanceOxfile \in [Dirs -> SUBSET (HostApps \cup {Agent})]
  /\ listed \in [Dirs -> SUBSET (HostApps \cup {Agent})] /\ up \in [Dirs -> SUBSET (HostApps \cup {Agent})]
  /\ \A d \in Dirs : up[d] \subseteq listed[d]
  /\ units \subseteq Dirs /\ unitsMissed \subseteq Dirs /\ OneSeen
  /\ hcmd.dir \in Dirs \/ hcmd.steps = <<>>
  /\ \/ NoInstall(hcmd.steps)
     \/ hcmd.steps = <<"install">> /\ units \ unitsMissed \subseteq {hcmd.dir}
     \/ hcmd.steps = <<"removeUnits", "install">>

LEMMA TwoSteps ==
  /\ <<"removeUnits", "install">> \in Seq(HostSteps) /\ <<"install">> \in Seq(HostSteps)
  /\ Tail(<<"removeUnits", "install">>) = <<"install">> /\ Head(<<"removeUnits", "install">>) = "removeUnits"
  /\ Tail(<<"install">>) = <<>> /\ Head(<<"install">>) = "install" /\ <<>> \in Seq(HostSteps)
  /\ <<"install">> # <<>> /\ <<"removeUnits", "install">> # <<>>
<1>1. /\ <<"removeUnits", "install">> \in Seq(HostSteps) /\ <<"install">> \in Seq(HostSteps)
      /\ <<>> \in Seq(HostSteps)
  BY DEF HostSteps
<1>2. Tail(<<"removeUnits", "install">>) = <<"install">> /\ Head(<<"removeUnits", "install">>) = "removeUnits"
  OBVIOUS
<1>3. Tail(<<"install">>) = <<>> /\ Head(<<"install">>) = "install"
  OBVIOUS
<1>4. <<"install">> # <<>> /\ <<"removeUnits", "install">> # <<>>
  OBVIOUS
<1> QED
  BY <1>1, <1>2, <1>3, <1>4

LEMMA PlansWithoutInstall ==
  ASSUME NEW s \in {<<"write", "apply">>, <<"stopOld", "deleteOld">> \o <<"write", "apply">>,
                    <<>> \o <<"write", "apply">>, <<"stop", "write", "apply">>, <<>> \o <<"leftovers">>,
                    <<"stop", "delete">> \o <<"leftovers">>, <<"uninstall">>, <<>>}
  PROVE  s \in Seq(HostSteps) /\ NoInstall(s)
<1>1. \A t, u \in Seq(HostSteps) : NoInstall(t) /\ NoInstall(u) => t \o u \in Seq(HostSteps) /\ NoInstall(t \o u)
  <2> SUFFICES ASSUME NEW t \in Seq(HostSteps), NEW u \in Seq(HostSteps), NoInstall(t), NoInstall(u)
               PROVE  t \o u \in Seq(HostSteps) /\ NoInstall(t \o u)
    OBVIOUS
  <2>1. /\ t \o u \in Seq(HostSteps) /\ Len(t \o u) = Len(t) + Len(u) /\ Len(t) \in Nat /\ Len(u) \in Nat
        /\ \A i \in 1 .. Len(t) + Len(u) : (t \o u)[i] = IF i <= Len(t) THEN t[i] ELSE u[i - Len(t)]
    BY ConcatProperties
  <2>2. ASSUME NEW i \in 1 .. Len(t \o u) PROVE (t \o u)[i] # "install"
    <3>1. CASE i <= Len(t)
      BY <2>1, <3>1 DEF NoInstall
    <3>2. CASE ~(i <= Len(t))
      <4>1. i - Len(t) \in 1 .. Len(u)
        BY <2>1, <3>2
      <4> QED
        BY <2>1, <3>2, <4>1 DEF NoInstall
    <3> QED
      BY <3>1, <3>2
  <2> QED
    BY <2>1, <2>2 DEF NoInstall
<1>2. /\ <<"write", "apply">> \in Seq(HostSteps) /\ <<"stopOld", "deleteOld">> \in Seq(HostSteps)
      /\ <<"stop", "write", "apply">> \in Seq(HostSteps) /\ <<"leftovers">> \in Seq(HostSteps)
      /\ <<"stop", "delete">> \in Seq(HostSteps) /\ <<"uninstall">> \in Seq(HostSteps) /\ <<>> \in Seq(HostSteps)
  BY DEF HostSteps
<1>3. NoInstall(<<"write", "apply">>)
  BY DEF NoInstall
<1>4. NoInstall(<<"stopOld", "deleteOld">>)
  BY DEF NoInstall
<1>5. NoInstall(<<"stop", "write", "apply">>)
  BY DEF NoInstall
<1>6. NoInstall(<<"leftovers">>) /\ NoInstall(<<"uninstall">>) /\ NoInstall(<<>>)
  BY DEF NoInstall
<1>7. NoInstall(<<"stop", "delete">>)
  BY DEF NoInstall
<1> QED
  BY <1>1, <1>2, <1>3, <1>4, <1>5, <1>6, <1>7

LEMMA NoInstallLeft ==
  ASSUME NEW s \in Seq(HostSteps), NoInstall(s), s # <<>>
  PROVE  Tail(s) \in Seq(HostSteps) /\ NoInstall(Tail(s)) /\ Head(s) # "install"
<1>1. /\ Tail(s) \in Seq(HostSteps) /\ Len(s) \in Nat \ {0} /\ Len(Tail(s)) = Len(s) - 1 /\ Head(s) = s[1]
      /\ \A i \in 1 .. Len(s) - 1 : Tail(s)[i] = s[i + 1]
  BY TailFacts
<1>2. \A i \in 1 .. Len(s) - 1 : i + 1 \in 1 .. Len(s)
  BY <1>1
<1>3. 1 \in 1 .. Len(s)
  BY <1>1
<1> QED
  BY <1>1, <1>2, <1>3 DEF NoInstall

LEMMA InstancesFlagsKept ==
  /\ InstancesInit => InstancesFlags
  /\ InstancesFlags /\ [HostNext]_hostVars => InstancesFlags'
<1>1. InstancesInit => InstancesFlags
  BY EmptyQueue DEF InstancesInit, InstancesFlags, NoCommand, Commanded
<1>2. ASSUME InstancesFlags, [HostNext]_hostVars PROVE InstancesFlags'
  <2>1. ASSUME NEW v \in Verbs, NEW d \in Dirs, NEW steps \in Seq(HostSteps), NEW old \in Dirs \cup {NoDir}, Run(v, d, steps, old)
        PROVE  InstancesFlags'
    BY <2>1 DEF Run, InstancesFlags, Commanded
  <2>2. ASSUME NEW failed \in BOOLEAN, Stepped(failed), hcmd.steps # <<>> PROVE InstancesFlags'
    <3>1. Tail(hcmd.steps) \in Seq(HostSteps)
      BY <1>2, <2>2, TailFacts DEF InstancesFlags, Commanded
    <3>2. (hcmd.failed \/ failed) \in BOOLEAN
      BY <1>2 DEF InstancesFlags, Commanded
    <3> QED
      BY <1>2, <2>2, <3>1, <3>2 DEF Stepped, InstancesFlags, Commanded
  <2>3. CASE Aborted
    BY <1>2, <2>3, EmptyQueue DEF Aborted, InstancesFlags, Commanded
  <2>4. CASE hcmd' = NoCommand
    BY <2>4, EmptyQueue DEF NoCommand, InstancesFlags, Commanded
  <2>5. CASE UNCHANGED hcmd
    BY <1>2, <2>5 DEF InstancesFlags
  <2>6. ASSUME NEW d \in Dirs, Start(d) PROVE InstancesFlags'
    BY <2>1, <2>5, <2>6, PlansWithoutInstall DEF Start, FoundDirs, Verbs
  <2>7. ASSUME NEW d \in Dirs, Apply(d) \/ RestartAll(d) \/ StopAllApps(d) \/ StartupOff(d) PROVE InstancesFlags'
    BY <2>1, <2>5, <2>7, PlansWithoutInstall DEF Apply, RestartAll, StopAllApps, StartupOff, Verbs
  <2>8. ASSUME NEW d \in Dirs, StartupOn(d) PROVE InstancesFlags'
    BY <2>1, <2>5, <2>8, TwoSteps DEF StartupOn, Verbs
  <2>9. CASE \E failed \in BOOLEAN : Stepped(failed) /\ hcmd.steps # <<>>
    BY <2>2, <2>9
  <2>10. CASE OxmgrCallFails
    BY <2>2, <2>3, <2>10 DEF OxmgrCallFails, NextStep
  <2> QED
    BY <1>2, <2>3, <2>4, <2>5, <2>6, <2>7, <2>8, <2>9, <2>10
    DEF HostNext, hostVars, EditToml, StopOxfile, DeleteOxfile, StopOld, DeleteOld, WriteApps, ApplyApps, Leftovers,
        RemoveUnits, InstallUnit, UninstallUnit, CommandDone, CommandKilled, NextStep
<1> QED
  BY <1>1, <1>2

LEMMA InstancesStep == InstancesFlags /\ InstancesInv /\ [HostNext]_hostVars => InstancesInv'
<1> SUFFICES ASSUME InstancesFlags, InstancesInv, [HostNext]_hostVars PROVE InstancesInv'
  OBVIOUS
<1> DEFINE Kept == UNCHANGED <<instanceToml, instanceOxfile, listed, up>>
<1>0. hcmd \in Commanded /\ hcmd.steps \in Seq(HostSteps)
  BY DEF InstancesFlags, Commanded
<1>1. ASSUME NEW v, NEW d \in Dirs, NEW steps, NEW old, Run(v, d, steps, old), Kept, UNCHANGED bootUnits,
             NoInstall(steps) \/ (steps = <<"install">> /\ units \ unitsMissed \subseteq {d})
                \/ steps = <<"removeUnits", "install">>
      PROVE  InstancesInv'
  <2>1. hcmd'.dir = d /\ hcmd'.steps = steps
    BY <1>1 DEF Run
  <2> QED
    BY <1>1, <2>1 DEF InstancesInv, OneSeen, bootUnits
<1>2. ASSUME Kept, UNCHANGED <<hcmd, bootUnits>> PROVE InstancesInv'
  BY <1>2 DEF InstancesInv, OneSeen, bootUnits
(* A step done: what is left of the plan installs as before.                  *)
<1>3. ASSUME NEW failed, Stepped(failed), hcmd.steps # <<>>
      PROVE  /\ hcmd'.dir = hcmd.dir /\ hcmd'.steps = Tail(hcmd.steps) /\ hcmd.dir \in Dirs
             /\ \/ NoInstall(hcmd.steps) /\ NoInstall(hcmd'.steps)
                \/ Head(hcmd.steps) = "removeUnits" /\ hcmd'.steps = <<"install">>
                \/ Head(hcmd.steps) = "install" /\ NoInstall(hcmd'.steps)
  <2>1. hcmd'.dir = hcmd.dir /\ hcmd'.steps = Tail(hcmd.steps)
    BY <1>0, <1>3 DEF Stepped, Commanded
  <2>2. CASE NoInstall(hcmd.steps)
    BY <1>0, <1>3, <2>1, <2>2, NoInstallLeft DEF InstancesInv
  <2>3. CASE hcmd.steps = <<"install">>
    <3>1. NoInstall(<<>>)
      BY EmptyQueue DEF NoInstall
    <3> QED
      BY <1>3, <2>1, <2>3, <3>1, TwoSteps DEF InstancesInv
  <2>4. CASE hcmd.steps = <<"removeUnits", "install">>
    BY <1>3, <2>1, <2>4, TwoSteps DEF InstancesInv
  <2> QED
    BY <2>2, <2>3, <2>4 DEF InstancesInv
<1>4. ASSUME NEW s, NextStep(s), s # "removeUnits", s # "install", NEW failed, Stepped(failed), UNCHANGED bootUnits
      PROVE  /\ hcmd'.dir \in Dirs \/ hcmd'.steps = <<>>
             /\ NoInstall(hcmd'.steps) /\ units' \subseteq Dirs /\ unitsMissed' \subseteq Dirs /\ OneSeen'
  BY <1>3, <1>4 DEF NextStep, InstancesInv, OneSeen, bootUnits
<1>5. ASSUME NEW d \in Dirs, NEW apps \in SUBSET HostApps, EditToml(d, apps) PROVE InstancesInv'
  BY <1>5 DEF EditToml, InstancesInv, OneSeen, bootUnits
<1>6. ASSUME NEW d \in Dirs, Start(d) PROVE InstancesInv'
  BY <1>1, <1>2, <1>6, PlansWithoutInstall DEF Start, Others, Apps, Refuse
<1>7. ASSUME NEW d \in Dirs, Apply(d) \/ RestartAll(d) \/ StopAllApps(d) \/ StartupOff(d) PROVE InstancesInv'
  BY <1>1, <1>2, <1>7, PlansWithoutInstall DEF Apply, RestartAll, StopAllApps, StartupOff, Others, Apps, Refuse
<1>8. ASSUME NEW d \in Dirs, StartupOn(d) PROVE InstancesInv'
  <2>1. CASE UNCHANGED bootUnits
    <3>1. CASE units \subseteq {d} \/ ~Run("on", d, <<"install">>, NoDir)
      BY <1>1, <1>2, <1>8, <2>1, <3>1 DEF StartupOn, Others, Apps, Refuse
    <3>2. CASE ~(units \subseteq {d}) /\ Run("on", d, <<"install">>, NoDir)
      <4>1. unitsMissed' = unitsMissed \cup (units \ {d}) \/ hcmd' = hcmd \/ hcmd'.steps # <<"install">>
        BY <1>8, <3>2, TwoSteps DEF StartupOn, Run, Refuse
      <4>2. hcmd'.steps = <<"install">> /\ hcmd # hcmd'
        BY <3>2, TwoSteps DEF Run, HostIdle, NoCommand
      <4>3. units \ unitsMissed \subseteq {d}
        BY <2>1, <4>1, <4>2 DEF bootUnits
      <4>4. Kept
        BY <1>8 DEF StartupOn, Others, Apps
      <4> QED
        BY <1>1, <2>1, <3>2, <4>3, <4>4
    <3> QED
      BY <3>1, <3>2
  <2>2. CASE ~UNCHANGED bootUnits
    <3>1. /\ Run("on", d, <<"install">>, NoDir) /\ unitsMissed' = unitsMissed \cup (units \ {d})
          /\ UNCHANGED units /\ Kept
      BY <1>8, <2>2 DEF StartupOn, Others, Apps
    <3>2. hcmd'.dir = d /\ hcmd'.steps = <<"install">>
      BY <3>1 DEF Run
    <3>3. units' \ unitsMissed' \subseteq {d} /\ unitsMissed' \subseteq Dirs
      BY <3>1 DEF InstancesInv
    <3> QED
      BY <3>1, <3>2, <3>3 DEF InstancesInv, OneSeen
  <2> QED
    BY <2>1, <2>2
(* What a manager runs it lists.                                              *)
<1>9. ASSUME NEW failed, Stepped(failed), NEW s, NextStep(s), s # "removeUnits", s # "install", UNCHANGED bootUnits,
             UNCHANGED instanceToml, instanceOxfile' \in [Dirs -> SUBSET (HostApps \cup {Agent})],
             listed' \in [Dirs -> SUBSET (HostApps \cup {Agent})], up' \in [Dirs -> SUBSET (HostApps \cup {Agent})],
             \A d \in Dirs : up'[d] \subseteq listed'[d]
      PROVE  InstancesInv'
  BY <1>4, <1>9 DEF InstancesInv
<1>10. CASE StopOxfile
  BY <1>9, <1>10 DEF StopOxfile, StateKept, InstancesInv
<1>11. CASE DeleteOxfile
  BY <1>9, <1>11 DEF DeleteOxfile, StateKept, InstancesInv
<1>12. CASE StopOld
  BY <1>9, <1>12 DEF StopOld, StateKept, InstancesInv
<1>13. CASE DeleteOld
  BY <1>9, <1>13 DEF DeleteOld, StateKept, InstancesInv
<1>14. CASE OxmgrCallFails
  <2>1. CASE Aborted
    <3>1. hcmd'.steps = <<>> /\ UNCHANGED bootUnits /\ Kept /\ NoInstall(<<>>)
      BY <1>0, <1>14, <2>1, EmptyQueue DEF OxmgrCallFails, Aborted, StateKept, Commanded, NoInstall
    <3> QED
      BY <3>1 DEF InstancesInv, OneSeen, bootUnits
  <2>2. CASE \E s, failed : NextStep(s) /\ s # "removeUnits" /\ s # "install" /\ Stepped(failed)
    BY <1>9, <1>14, <2>2 DEF OxmgrCallFails, StateKept, InstancesInv
  <2> QED
    <3>1. CASE (\E s \in {"stop", "delete", "leftovers", "write", "apply"} : NextStep(s)) /\ (Stepped(TRUE) \/ Aborted)
      BY <2>1, <2>2, <3>1
    <3>2. CASE (NextStep("stopOld") \/ NextStep("deleteOld")) /\ Stepped(FALSE)
      BY <2>2, <3>2
    <3> QED
      BY <1>14, <3>1, <3>2 DEF OxmgrCallFails
<1>15. CASE WriteApps
  BY <1>9, <1>15 DEF WriteApps, StateKept, InstancesInv
<1>16. CASE ApplyApps
  BY <1>9, <1>16 DEF ApplyApps, StateKept, InstancesInv
<1>17. CASE Leftovers
  BY <1>9, <1>17 DEF Leftovers, StateKept, InstancesInv
<1>18. CASE RemoveUnits
  <2>1. Head(hcmd.steps) = "removeUnits" /\ hcmd.steps # <<>> /\ Stepped(FALSE) /\ Kept
    BY <1>18 DEF RemoveUnits, NextStep, Apps
  <2>2. PICK left \in SUBSET (units \ {hcmd.dir}) : units' = (units \cap {hcmd.dir}) \cup left /\ unitsMissed' = left
    BY <1>18 DEF RemoveUnits
  <2>3. hcmd'.dir = hcmd.dir /\ (NoInstall(hcmd'.steps) \/ hcmd'.steps = <<"install">>) /\ hcmd.dir \in Dirs
    BY <1>3, <2>1
  <2>4. units' \ unitsMissed' \subseteq {hcmd.dir} /\ units' \subseteq units /\ unitsMissed' \subseteq units
    BY <2>2
  <2> QED
    BY <2>1, <2>3, <2>4 DEF InstancesInv, OneSeen
<1>19. CASE InstallUnit
  <2>1. /\ Head(hcmd.steps) = "install" /\ hcmd.steps # <<>> /\ (\E failed : Stepped(failed)) /\ Kept
        /\ \/ units' = units \cup {hcmd.dir} /\ unitsMissed' = unitsMissed \ {hcmd.dir}
           \/ UNCHANGED bootUnits
    BY <1>19 DEF InstallUnit, NextStep, Apps
  <2>2. ~NoInstall(hcmd.steps)
    BY <1>0, <2>1, NoInstallLeft
  <2>3. units \ unitsMissed \subseteq {hcmd.dir}
    BY <2>1, <2>2, TwoSteps DEF InstancesInv
  <2>4. hcmd'.dir = hcmd.dir /\ NoInstall(hcmd'.steps) /\ hcmd.dir \in Dirs
    BY <1>3, <2>1, <2>2
  <2>5. units' \ unitsMissed' \subseteq {hcmd.dir}
    BY <2>1, <2>3 DEF bootUnits
  <2>6. units' \subseteq Dirs /\ unitsMissed' \subseteq Dirs
    BY <2>1, <2>4 DEF InstancesInv, bootUnits
  <2> QED
    BY <2>1, <2>4, <2>5, <2>6 DEF InstancesInv, OneSeen
<1>20. CASE UninstallUnit
  <2>1. /\ Head(hcmd.steps) = "uninstall" /\ hcmd.steps # <<>> /\ Stepped(FALSE) /\ Kept
        /\ \/ units' = units \ {hcmd.dir} /\ unitsMissed' = unitsMissed \ {hcmd.dir}
           \/ UNCHANGED bootUnits
    BY <1>20 DEF UninstallUnit, NextStep, Apps
  <2>2. hcmd'.dir = hcmd.dir /\ NoInstall(hcmd'.steps) /\ hcmd.dir \in Dirs
    BY <1>3, <2>1
  <2>3. units' \subseteq units /\ unitsMissed' \subseteq unitsMissed /\ units' \ unitsMissed' \subseteq units \ unitsMissed
    BY <2>1 DEF bootUnits
  <2> QED
    BY <2>1, <2>2, <2>3 DEF InstancesInv, OneSeen
<1>21. CASE CommandDone \/ CommandKilled
  <2>1. hcmd'.steps = <<>> /\ UNCHANGED bootUnits /\ Kept
    <3>1. hcmd' = NoCommand /\ UNCHANGED Others
      BY <1>21 DEF CommandDone, CommandKilled
    <3> QED
      BY <3>1 DEF NoCommand, Others, Apps
  <2>2. NoInstall(<<>>)
    BY EmptyQueue DEF NoInstall
  <2> QED
    BY <2>1, <2>2 DEF InstancesInv, OneSeen, bootUnits
<1>22. CASE UNCHANGED hostVars
  BY <1>2, <1>22 DEF hostVars
<1> QED
  BY <1>5, <1>6, <1>7, <1>8, <1>10, <1>11, <1>12, <1>13, <1>14, <1>15, <1>16, <1>17, <1>18, <1>19, <1>20,
     <1>21, <1>22 DEF HostNext

(* One instance at most starts at boot, besides those whose unit a take-over  *)
(* did not see or could not remove: for any directories, apps and commands,   *)
(* those that were interrupted and those that failed included.                *)
THEOREM OneUnitAtBoot == HostSpec => [](HostTypeOK /\ OneStartupUnit)
<1>1. InstancesInit => InstancesInv
  <2>1. InstancesInit => hcmd.steps = <<>> /\ NoInstall(<<>>)
    BY EmptyQueue DEF InstancesInit, NoCommand, NoInstall
  <2>2. ASSUME InstancesInit
        PROVE  /\ instanceToml \in [Dirs -> SUBSET (HostApps \cup {Agent})]
               /\ \A d \in Dirs : Agent \in instanceToml[d]
    <3>1. /\ instanceToml \in [Dirs -> {a \cup {Agent} : a \in SUBSET HostApps}]
      BY <2>2 DEF InstancesInit
    <3>2. \A x \in {a \cup {Agent} : a \in SUBSET HostApps} : x \in SUBSET (HostApps \cup {Agent}) /\ Agent \in x
      OBVIOUS
    <3> QED
      BY <3>1, <3>2
  <2>3. ASSUME InstancesInit
        PROVE  /\ instanceOxfile \in [Dirs -> SUBSET (HostApps \cup {Agent})]
               /\ listed \in [Dirs -> SUBSET (HostApps \cup {Agent})] /\ up \in [Dirs -> SUBSET (HostApps \cup {Agent})]
               /\ \A d \in Dirs : up[d] \subseteq listed[d]
    BY <2>3 DEF InstancesInit
  <2> QED
    BY <2>1, <2>2, <2>3 DEF InstancesInit, InstancesInv, OneSeen
<1>2. InstancesFlags /\ InstancesInv => HostTypeOK
  BY DEF InstancesFlags, Commanded, InstancesInv, HostTypeOK
<1>3. InstancesInv => OneStartupUnit
  <2>1. CASE units \ unitsMissed = {}
    <3>1. Cardinality(units \ unitsMissed) = 0
      BY <2>1, FS_EmptySet
    <3> QED
      BY <3>1 DEF OneStartupUnit
  <2>2. ASSUME NEW d \in Dirs, units \ unitsMissed = {d} PROVE OneStartupUnit
    <3>1. Cardinality(units \ unitsMissed) = 1
      BY <2>2, FS_Singleton
    <3> QED
      BY <3>1 DEF OneStartupUnit
  <2> QED
    BY <2>1, <2>2 DEF InstancesInv, OneSeen
<1> QED
  BY InstancesStep, InstancesFlagsKept, <1>1, <1>2, <1>3, PTL DEF HostSpec

-----------------------------------------------------------------------------
(* The reports of the flow monitor.                                           *)

(* The monitor keeps what came and when as it happened, in however many       *)
(* windows; a report of this very moment agrees with it.                      *)
MonitorTyped ==
  /\ monitor \in {"attach", "topology", "flow"} /\ monTime \in 1 .. MaxMonTime
  /\ liveTopics \subseteq MonCameras /\ upProcesses \subseteq MonProcesses
  /\ listens \subseteq MonCameras /\ listensStats \subseteq MonStreams
  /\ windowFrames \in [MonCameras -> Nat] /\ framesReceived \in [MonCameras -> Nat]
  /\ reported \in [MonCameras -> Nat] /\ frameAt \in [MonCameras -> Nat] /\ statsAt \in [MonStreams -> Nat]
  /\ lastArrival = frameAt /\ lastStats = statsAt
  /\ topology.missing \subseteq MonProcesses /\ flow.stalled \subseteq MonCameras
  /\ flow.connected \subseteq MonStreams /\ flow.at \in Nat

MonitorCounts ==
  \A c \in MonCameras : /\ framesReceived[c] = reported[c] + windowFrames[c]
                        /\ framesReceived[c] <= MaxMonFrames /\ frameAt[c] <= monTime

MonitorReports ==
  /\ flow.at <= monTime /\ (monitor = "attach" => flow.at = 0)
  /\ flow.at = monTime =>
       /\ \A c \in listens : c \in flow.stalled => frameAt[c] = 0 \/ monTime - frameAt[c] > StallAfter
                                                    \/ windowFrames[c] > 0
       /\ \A c \in listens \ flow.stalled : frameAt[c] # 0 /\ monTime - frameAt[c] <= StallAfter
       /\ \A s \in flow.connected : monTime - statsAt[s] < Freshness

MonitorInv == MonitorTyped /\ MonitorCounts /\ MonitorReports

LEMMA MonitorInitInv == MonitorInit => MonitorInv
<1> SUFFICES ASSUME MonitorInit PROVE MonitorInv
  OBVIOUS
<1>1. MonitorTyped
  BY HostMonitorAssumption DEF MonitorInit, MonitorTyped, NoTopology, NoFlow
<1>2. MonitorCounts
  <2>1. \A c \in MonCameras : framesReceived[c] = 0 /\ reported[c] = 0 /\ windowFrames[c] = 0 /\ frameAt[c] = 0
    BY DEF MonitorInit
  <2>2. monTime = 1
    BY DEF MonitorInit
  <2>3. MaxMonFrames \in Nat /\ 0 <= MaxMonFrames /\ 0 <= 1 /\ 0 = 0 + 0
    BY HostMonitorAssumption
  <2> QED
    BY <2>1, <2>2, <2>3, Zenon DEF MonitorCounts
<1>3. MonitorReports
  BY DEF MonitorInit, MonitorReports, NoFlow
<1> QED
  BY <1>1, <1>2, <1>3 DEF MonitorInv

LEMMA MonitorStep == MonitorInv /\ [MonitorNext]_monitorVars => MonitorInv'
<1> SUFFICES ASSUME MonitorInv, [MonitorNext]_monitorVars PROVE MonitorInv'
  OBVIOUS
<1>0. MonitorTyped /\ MonitorCounts /\ MonitorReports
  BY DEF MonitorInv
<1> USE HostMonitorAssumption DEF MonitorInv
<1>1. CASE MonitorTick
  <2>1. MonitorTyped'
    BY <1>0, <1>1 DEF MonitorTick, MonitorTyped, plantState, windowState
  <2>2. MonitorCounts'
    BY <1>0, <1>1 DEF MonitorTick, MonitorTyped, MonitorCounts, plantState, windowState
  <2>3. MonitorReports'
    BY <1>0, <1>1 DEF MonitorTick, MonitorTyped, MonitorReports, plantState, windowState
  <2> QED
    BY <2>1, <2>2, <2>3
<1>2. CASE AttachFlow
  <2>1. MonitorTyped'
    BY <1>0, <1>2 DEF AttachFlow, MonitorTyped, plantState, windowState
  <2>2. MonitorCounts'
    BY <1>0, <1>2 DEF AttachFlow, MonitorCounts, plantState, windowState
  <2>3. MonitorReports'
    <3>1. flow.at = 0 /\ flow' = flow /\ monTime' = monTime /\ monTime \in 1 .. MaxMonTime /\ monitor' = "topology"
      BY <1>0, <1>2 DEF AttachFlow, MonitorTyped, MonitorReports
    <3>2. flow'.at # monTime' /\ flow'.at <= monTime'
      BY <3>1
    <3> QED
      BY <3>1, <3>2 DEF MonitorReports
  <2> QED
    BY <2>1, <2>2, <2>3
<1>3. ASSUME NEW c \in MonCameras, FrameArrives(c) PROVE MonitorInv'
  <2>1. /\ framesReceived' = [framesReceived EXCEPT ![c] = @ + 1] /\ frameAt' = [frameAt EXCEPT ![c] = monTime]
        /\ windowFrames' = [windowFrames EXCEPT ![c] = @ + 1] /\ lastArrival' = [lastArrival EXCEPT ![c] = monTime]
        /\ framesReceived[c] < MaxMonFrames
        /\ UNCHANGED <<monTime, monitor, liveTopics, upProcesses, listens, listensStats, lastStats, statsAt, topology, flow, reported>>
    BY <1>3 DEF FrameArrives, plantState
  <2>2. MonitorTyped'
    BY <1>0, <2>1 DEF MonitorTyped
  <2>3. MonitorCounts'
    BY <1>0, <2>1 DEF MonitorTyped, MonitorCounts
  <2>4. MonitorReports'
    <3>1. /\ \A d \in MonCameras : d # c => frameAt'[d] = frameAt[d] /\ windowFrames'[d] = windowFrames[d]
          /\ frameAt'[c] = monTime /\ windowFrames'[c] > 0 /\ listens \subseteq MonCameras /\ monTime \in Nat \ {0}
      BY <1>0, <2>1 DEF MonitorTyped
    <3>2. monTime # 0 /\ monTime - monTime <= StallAfter
      BY <3>1
    <3> QED
      BY <1>0, <2>1, <3>1, <3>2 DEF MonitorReports
  <2> QED
    BY <2>2, <2>3, <2>4
<1>4. ASSUME NEW s \in MonStreams, StatsArrive(s) PROVE MonitorInv'
  <2>1. /\ lastStats' = [lastStats EXCEPT ![s] = monTime] /\ statsAt' = [statsAt EXCEPT ![s] = monTime]
        /\ UNCHANGED <<monTime, monitor, liveTopics, upProcesses, listens, listensStats, windowFrames, lastArrival,
                       frameAt, framesReceived, topology, flow, reported>>
    BY <1>4 DEF StatsArrive, plantState
  <2>2. MonitorTyped'
    BY <1>0, <2>1 DEF MonitorTyped
  <2>3. MonitorCounts'
    BY <1>0, <2>1 DEF MonitorCounts
  <2>4. MonitorReports'
    <3>1. /\ \A t \in MonStreams : t # s => statsAt'[t] = statsAt[t]
          /\ statsAt'[s] = monTime /\ flow.connected \subseteq MonStreams /\ monTime \in Nat
      BY <1>0, <2>1 DEF MonitorTyped
    <3>2. monTime - monTime < Freshness
      BY <3>1
    <3> QED
      BY <1>0, <2>1, <3>1, <3>2 DEF MonitorReports
  <2> QED
    BY <2>2, <2>3, <2>4
<1>5. CASE CollectTopology
  <2>1. MonitorTyped'
    <3>1. topology'.missing \subseteq MonProcesses
      BY <1>5 DEF CollectTopology
    <3> QED
      BY <1>0, <1>5, <3>1 DEF CollectTopology, MonitorTyped, plantState, windowState
  <2>2. MonitorCounts'
    BY <1>0, <1>5 DEF CollectTopology, MonitorCounts, plantState, windowState
  <2>3. MonitorReports'
    BY <1>0, <1>5 DEF CollectTopology, MonitorReports, plantState, windowState
  <2> QED
    BY <2>1, <2>2, <2>3
<1>6. CASE CollectFlow
  <2>1. /\ flow'.at = monTime
        /\ flow'.stalled = {c \in listens : Overdue(lastArrival[c], StallAfter)}
        /\ flow'.connected = {s \in listensStats : lastStats[s] # 0 /\ monTime - lastStats[s] < Freshness}
    BY <1>6 DEF CollectFlow
  <2>2. /\ reported' = [c \in MonCameras |-> reported[c] + windowFrames[c]]
        /\ windowFrames' = [c \in MonCameras |-> 0] /\ monitor' = "topology"
        /\ UNCHANGED <<monTime, liveTopics, upProcesses, listens, listensStats, lastStats, lastArrival, topology, frameAt,
                       statsAt, framesReceived>>
    BY <1>6 DEF CollectFlow, ResetWindow, plantState
  <2>3. MonitorTyped'
    BY <1>0, <2>1, <2>2 DEF MonitorTyped
  <2>4. MonitorCounts'
    <3>1. \A c \in MonCameras : reported'[c] = reported[c] + windowFrames[c] /\ windowFrames'[c] = 0
      BY <2>2
    <3>2. \A c \in MonCameras : reported[c] \in Nat /\ windowFrames[c] \in Nat
      BY <1>0 DEF MonitorTyped
    <3> QED
      BY <1>0, <2>2, <3>1, <3>2 DEF MonitorCounts
  <2>5. MonitorReports'
    <3>1. lastArrival = frameAt /\ lastStats = statsAt /\ monTime \in Nat
      BY <1>0 DEF MonitorTyped
    <3>2. \A c \in listens : c \in flow'.stalled => frameAt[c] = 0 \/ monTime - frameAt[c] > StallAfter
      BY <2>1, <3>1 DEF Overdue
    <3>3. \A c \in listens \ flow'.stalled : frameAt[c] # 0 /\ monTime - frameAt[c] <= StallAfter
      <4>1. \A c \in listens : frameAt[c] \in Nat
        BY <1>0 DEF MonitorTyped
      <4> QED
        BY <2>1, <3>1, <4>1 DEF Overdue
    <3>4. \A s \in flow'.connected : monTime - statsAt[s] < Freshness
      BY <2>1, <3>1
    <3> QED
      BY <2>1, <2>2, <3>1, <3>2, <3>3, <3>4 DEF MonitorReports
  <2> QED
    BY <2>3, <2>4, <2>5
<1>7. ASSUME UNCHANGED <<monTime, monitor, listens, listensStats, windowFrames, lastArrival, lastStats, topology, flow,
                         frameAt, statsAt, framesReceived, reported>>,
             liveTopics' \subseteq MonCameras, upProcesses' \subseteq MonProcesses
      PROVE  MonitorInv'
  <2>1. MonitorTyped'
    BY <1>0, <1>7 DEF MonitorTyped
  <2>2. MonitorCounts'
    BY <1>0, <1>7 DEF MonitorCounts
  <2>3. MonitorReports'
    BY <1>0, <1>7 DEF MonitorReports
  <2> QED
    BY <2>1, <2>2, <2>3
<1>8. ASSUME NEW c \in MonCameras, PublisherComes(c) PROVE MonitorInv'
  <2>1. liveTopics' \subseteq MonCameras /\ upProcesses' \subseteq MonProcesses
    BY <1>0, <1>8 DEF PublisherComes, MonitorTyped
  <2> QED
    BY <1>7, <1>8, <2>1 DEF PublisherComes, windowState
<1>9. ASSUME NEW p \in MonProcesses, ProcessChanges(p) PROVE MonitorInv'
  <2>1. liveTopics' \subseteq MonCameras /\ upProcesses' \subseteq MonProcesses
    BY <1>0, <1>9 DEF ProcessChanges, MonitorTyped
  <2> QED
    BY <1>7, <1>9, <2>1 DEF ProcessChanges, windowState
<1>10. CASE UNCHANGED monitorVars
  <2>1. liveTopics' \subseteq MonCameras /\ upProcesses' \subseteq MonProcesses
    BY <1>0, <1>10 DEF monitorVars, MonitorTyped
  <2> QED
    BY <1>7, <1>10, <2>1 DEF monitorVars
<1> QED
  BY <1>1, <1>2, <1>3, <1>4, <1>5, <1>6, <1>8, <1>9, <1>10 DEF MonitorNext

(* Every frame is in one report, and a report tells the truth of its moment:  *)
(* for any cameras, streams, thresholds and times.                            *)
THEOREM FlowIsReported == MonitorSpec => [](MonitorTypeOK /\ FlowTruth)
<1>1. MonitorInv => MonitorTypeOK
  <2> SUFFICES ASSUME MonitorInv PROVE MonitorTypeOK
    OBVIOUS
  <2>1. MonitorTyped /\ MonitorCounts
    BY DEF MonitorInv
  <2>2. \A c \in MonCameras : windowFrames[c] \in Nat /\ reported[c] \in Nat
    BY <2>1 DEF MonitorTyped
  <2>3. \A c \in MonCameras : reported[c] + windowFrames[c] <= MaxMonFrames
    BY <2>1 DEF MonitorCounts
  <2>4. \A c \in MonCameras : windowFrames[c] \in 0 .. MaxMonFrames
    <3>1. MaxMonFrames \in Nat
      BY HostMonitorAssumption
    <3>2. \A a, b, m \in Nat : a + b <= m => b \in 0 .. m
      OBVIOUS
    <3> QED
      BY <2>2, <2>3, <3>1, <3>2
  <2>5. \A c \in MonCameras : lastArrival[c] <= monTime
    BY <2>1 DEF MonitorTyped, MonitorCounts
  <2> QED
    BY <2>1, <2>4, <2>5 DEF MonitorTyped, MonitorTypeOK
<1>2. MonitorInv => FlowTruth
  BY DEF MonitorInv, MonitorCounts, MonitorReports, FlowTruth
<1> QED
  BY MonitorInitInv, MonitorStep, <1>1, <1>2, PTL DEF MonitorSpec

-----------------------------------------------------------------------------
(* The vision connection of host-streamer.                                    *)

StreamerFlags == (frameReady \in BOOLEAN) /\ (channelOpen \in BOOLEAN)

StreamerTimes ==
  /\ streamer \in {"attach", "connect", "first", "select", "handle", "exit0", "exit1"}
  /\ frameWait \in 0 .. FrameTimeout /\ vision \in {"none", "offered", "answered", "off"}
  /\ visionWait \in 0 .. (VisionTimeout + AnsweredFor)

(* The candidates in a queue of events, whatever comes between them.          *)
VisionEvents == [kind : {"cand", "answer", "lost", "news"}, n : Nat]
CandsIn(q) == {q[i].n : i \in {j \in DOMAIN q : q[j].kind = "cand"}}
CandsIncrease(q) ==
  \A i, j \in DOMAIN q : i < j /\ q[i].kind = "cand" /\ q[j].kind = "cand" => q[i].n < q[j].n

Increases(s) == \A i, j \in DOMAIN s : i < j => s[i] < s[j]
Below(A, B) == \A a \in A, b \in B : a < b

(* What the cockpit sent is added, held back, in the queue or missed, in this *)
(* order.                                                                     *)
VisionKeeps ==
  /\ Increases(visionIce) /\ CandsIncrease(visionEvents)
  /\ Below(Range(addedIce), Range(visionIce) \cup CandsIn(visionEvents))
  /\ Below(Range(visionIce), CandsIn(visionEvents))
  /\ Range(visionIce) \cup CandsIn(visionEvents) \subseteq 1 .. visionSent
  /\ 1 .. visionSent \subseteq Range(addedIce) \cup Range(visionIce) \cup CandsIn(visionEvents) \cup visionMissed

NoneLeftOut == \A i \in DOMAIN addedIce : 1 .. addedIce[i] \subseteq Range(addedIce) \cup visionMissed

VisionTypes ==
  /\ addedIce \in Seq(Nat) /\ visionIce \in Seq(Nat) /\ visionEvents \in Seq(VisionEvents) /\ visionSent \in Nat
  /\ Len(visionEvents) <= VisionKept /\ Range(addedIce) \subseteq 1 .. visionSent

VisionInv ==
  /\ VisionTypes /\ Increases(addedIce) /\ NoneLeftOut
  /\ streamer \in {"attach", "connect"} => /\ vision = "none" /\ addedIce = <<>> /\ visionIce = <<>>
                                           /\ visionEvents = <<>> /\ visionSent = 0 /\ ~forwarded /\ ~channelOpen
  /\ VisionOn => VisionKeeps
  /\ vision = "offered" => addedIce = <<>> /\ ~forwarded /\ ~channelOpen
  /\ vision = "answered" => visionIce = <<>>

-----------------------------------------------------------------------------
LEMMA StreamerFlagsKept ==
  /\ StreamerInit => StreamerFlags
  /\ StreamerFlags /\ [StreamerNext]_streamerVars => StreamerFlags'
<1>1. StreamerInit => StreamerFlags
  BY DEF StreamerInit, StreamerFlags
<1>2. ASSUME StreamerFlags, [StreamerNext]_streamerVars PROVE StreamerFlags'
  <2>1. /\ UNCHANGED frameReady \/ frameReady' = TRUE \/ frameReady' = FALSE
        /\ UNCHANGED channelOpen \/ channelOpen' = TRUE \/ channelOpen' = FALSE
    <3>1. CASE StreamerStep
      BY <3>1 DEF StreamerStep, SubscribeCamera, ConnectPush, FirstFrame, FrameTimesOut, NextTurn, WriteFrame,
         PushEvent, VisionLags, VisionSignal, VisionFrame, VisionDeadline, VisionOff, visionState
    <3>2. CASE ~StreamerStep
      BY <1>2, <3>2 DEF StreamerNext, streamerVars, StreamerTick, StreamerTerminated, CapturerStarts, CapturerStops,
         CapturerPublishes, ChannelOpens, VisionSignalled, visionState
    <3> QED
      BY <3>1, <3>2
  <2> QED
    BY <1>2, <2>1 DEF StreamerFlags
<1> QED
  BY <1>1, <1>2

LEMMA StreamerTimesKept ==
  /\ StreamerInit => StreamerTimes
  /\ StreamerTimes /\ [StreamerNext]_streamerVars => StreamerTimes'
<1> USE HostStreamerAssumption
<1>1. StreamerInit => StreamerTimes
  BY DEF StreamerInit, StreamerTimes
<1>2. ASSUME StreamerTimes, [StreamerNext]_streamerVars PROVE StreamerTimes'
  <2> USE DEF StreamerTimes
  <2>1. CASE StreamerTick
    <3>1. frameWait' \in 0 .. FrameTimeout
      BY <1>2, <2>1 DEF StreamerTick
    <3>2. visionWait' \in 0 .. (VisionTimeout + AnsweredFor)
      BY <1>2, <2>1 DEF StreamerTick
    <3> QED
      BY <1>2, <2>1, <3>1, <3>2 DEF StreamerTick
  <2>2. VisionTimeout \in 0 .. (VisionTimeout + AnsweredFor) /\ AnsweredFor \in 0 .. (VisionTimeout + AnsweredFor)
        /\ FrameTimeout \in 0 .. FrameTimeout
    OBVIOUS
  <2>3. CASE ConnectPush \/ FirstFrame \/ NextTurn
    BY <1>2, <2>2, <2>3 DEF ConnectPush, FirstFrame, NextTurn, visionState
  <2>4. CASE VisionSignal
    BY <1>2, <2>2, <2>4 DEF VisionSignal, VisionOff
  <2>5. CASE SubscribeCamera \/ FrameTimesOut \/ WriteFrame \/ PushEvent \/ VisionLags \/ VisionFrame \/ VisionDeadline
    BY <1>2, <2>5 DEF SubscribeCamera, FrameTimesOut, WriteFrame, PushEvent, VisionLags, VisionFrame, VisionDeadline, VisionOff,
       visionState
  <2>7. CASE \/ StreamerTerminated \/ CapturerStarts \/ CapturerStops \/ CapturerPublishes \/ ChannelOpens
             \/ \E e : VisionSignalled(e)
             \/ UNCHANGED streamerVars
    BY <1>2, <2>7 DEF StreamerTerminated, CapturerStarts, CapturerStops, CapturerPublishes, ChannelOpens,
       VisionSignalled, streamerVars, visionState
  <2> QED
    BY <1>2, <2>1, <2>3, <2>4, <2>5, <2>7 DEF StreamerNext, StreamerStep
<1> QED
  BY <1>1, <1>2

-----------------------------------------------------------------------------
LEMMA IncreasesMore ==
  ASSUME NEW s \in Seq(Nat), NEW n \in Nat, Increases(s), Below(Range(s), {n})
  PROVE  Append(s, n) \in Seq(Nat) /\ Increases(Append(s, n)) /\ Range(Append(s, n)) = Range(s) \cup {n}
<1> DEFINE t == Append(s, n)
<1>1. /\ t \in Seq(Nat) /\ DOMAIN t = 1 .. Len(s) + 1 /\ DOMAIN s = 1 .. Len(s) /\ Len(s) \in Nat
      /\ \A i \in 1 .. Len(s) : t[i] = s[i] /\ s[i] \in Range(s)
      /\ t[Len(s) + 1] = n /\ Range(t) = Range(s) \cup {n}
  BY AppendFacts, AppendRange DEF Range
<1> HIDE DEF t
<1>2. ASSUME NEW i \in 1 .. Len(s) + 1, NEW j \in 1 .. Len(s) + 1, i < j PROVE t[i] < t[j]
  <2>1. i \in 1 .. Len(s) /\ (j \in 1 .. Len(s) \/ j = Len(s) + 1)
    BY <1>1, <1>2
  <2> QED
    BY <1>1, <1>2, <2>1 DEF Increases, Below
<1> QED
  BY <1>1, <1>2 DEF Increases, t

LEMMA IncreasesJoined ==
  ASSUME NEW s \in Seq(Nat), NEW t \in Seq(Nat), Increases(s), Increases(t), Below(Range(s), Range(t))
  PROVE  s \o t \in Seq(Nat) /\ Increases(s \o t) /\ Range(s \o t) = Range(s) \cup Range(t)
<1> DEFINE u == s \o t
<1>1. /\ u \in Seq(Nat) /\ Len(u) = Len(s) + Len(t) /\ Len(s) \in Nat /\ Len(t) \in Nat
      /\ \A i \in 1 .. Len(s) + Len(t) : u[i] = IF i <= Len(s) THEN s[i] ELSE t[i - Len(s)]
      /\ Range(u) = Range(s) \cup Range(t)
  BY ConcatProperties, ConcatInjective
<1>2. DOMAIN u = 1 .. Len(s) + Len(t) /\ DOMAIN s = 1 .. Len(s) /\ DOMAIN t = 1 .. Len(t)
  BY <1>1, QueueDomain
<1> HIDE DEF u
<1>3. ASSUME NEW i \in 1 .. Len(s) + Len(t), NEW j \in 1 .. Len(s) + Len(t), i < j PROVE u[i] < u[j]
  <2>1. CASE j <= Len(s)
    <3>1. i \in DOMAIN s /\ j \in DOMAIN s /\ i <= Len(s)
      BY <1>1, <1>2, <1>3, <2>1
    <3> QED
      BY <1>1, <1>3, <2>1, <3>1 DEF Increases
  <2>2. CASE ~(i <= Len(s))
    <3>1. i - Len(s) \in 1 .. Len(t) /\ j - Len(s) \in 1 .. Len(t) /\ i - Len(s) < j - Len(s) /\ ~(j <= Len(s))
      BY <1>1, <1>3, <2>2
    <3>2. u[i] = t[i - Len(s)] /\ u[j] = t[j - Len(s)]
      BY <1>1, <2>2, <3>1
    <3> QED
      BY <1>2, <3>1, <3>2 DEF Increases
  <2>3. CASE i <= Len(s) /\ ~(j <= Len(s))
    <3>1. i \in DOMAIN s /\ j - Len(s) \in DOMAIN t
      BY <1>1, <1>2, <1>3, <2>3
    <3>2. u[i] \in Range(s) /\ u[j] \in Range(t)
      BY <1>1, <1>3, <2>3, <3>1 DEF Range
    <3> QED
      BY <3>2 DEF Below
  <2> QED
    BY <1>1, <1>3, <2>1, <2>2, <2>3
<1> QED
  BY <1>1, <1>2, <1>3 DEF Increases, u

LEMMA CandsAppended ==
  ASSUME NEW q \in Seq(VisionEvents), NEW e \in VisionEvents
  PROVE  /\ Append(q, e) \in Seq(VisionEvents) /\ CandsIn(Append(q, e)) = CandsIn(q) \cup CandsIn(<<e>>)
         /\ CandsIn(<<e>>) = IF e.kind = "cand" THEN {e.n} ELSE {}
         /\ CandsIncrease(q) /\ Below(CandsIn(q), CandsIn(<<e>>)) => CandsIncrease(Append(q, e))
<1> DEFINE t == Append(q, e)
<1>1. /\ t \in Seq(VisionEvents) /\ DOMAIN t = 1 .. Len(q) + 1 /\ DOMAIN q = 1 .. Len(q) /\ Len(q) \in Nat
      /\ \A i \in 1 .. Len(q) : t[i] = q[i]
      /\ t[Len(q) + 1] = e
  BY AppendFacts
<1>2. \A i \in 1 .. Len(q) + 1 : i \in 1 .. Len(q) \/ i = Len(q) + 1
  BY <1>1
<1>3. CandsIn(<<e>>) = IF e.kind = "cand" THEN {e.n} ELSE {}
  <2>1. DOMAIN <<e>> = {1} /\ <<e>>[1] = e
    OBVIOUS
  <2> QED
    BY <2>1 DEF CandsIn
<1> HIDE DEF t
<1>4. CandsIn(t) = CandsIn(q) \cup CandsIn(<<e>>)
  <2>1. ASSUME NEW n \in CandsIn(t) PROVE n \in CandsIn(q) \cup CandsIn(<<e>>)
    <3>1. PICK i \in 1 .. Len(q) + 1 : t[i].kind = "cand" /\ n = t[i].n
      BY <1>1 DEF CandsIn
    <3>2. CASE i \in 1 .. Len(q)
      BY <1>1, <3>1, <3>2 DEF CandsIn
    <3>3. CASE i = Len(q) + 1
      BY <1>1, <1>3, <3>1, <3>3
    <3> QED
      BY <1>2, <3>2, <3>3
  <2>2. ASSUME NEW n \in CandsIn(q) PROVE n \in CandsIn(t)
    <3>1. PICK i \in 1 .. Len(q) : q[i].kind = "cand" /\ n = q[i].n
      BY <1>1 DEF CandsIn
    <3>2. i \in 1 .. Len(q) + 1 /\ t[i] = q[i]
      BY <1>1
    <3> QED
      BY <1>1, <3>1, <3>2 DEF CandsIn
  <2>3. ASSUME NEW n \in CandsIn(<<e>>) PROVE n \in CandsIn(t)
    <3>1. e.kind = "cand" /\ n = e.n /\ Len(q) + 1 \in 1 .. Len(q) + 1
      BY <1>1, <1>3, <2>3
    <3> QED
      BY <1>1, <3>1 DEF CandsIn
  <2> QED
    BY <2>1, <2>2, <2>3
<1>5. ASSUME CandsIncrease(q), Below(CandsIn(q), CandsIn(<<e>>)) PROVE CandsIncrease(t)
  <2> SUFFICES ASSUME NEW i \in 1 .. Len(q) + 1, NEW j \in 1 .. Len(q) + 1, i < j, t[i].kind = "cand", t[j].kind = "cand"
               PROVE  t[i].n < t[j].n
    BY <1>1 DEF CandsIncrease
  <2>1. i \in 1 .. Len(q) /\ t[i] = q[i]
    BY <1>1
  <2>2. CASE j \in 1 .. Len(q)
    BY <1>1, <1>5, <2>1, <2>2 DEF CandsIncrease
  <2>3. CASE j = Len(q) + 1
    <3>1. t[i].n \in CandsIn(q) /\ t[j].n \in CandsIn(<<e>>)
      BY <1>1, <1>3, <2>1, <2>3 DEF CandsIn
    <3> QED
      BY <1>5, <3>1 DEF Below
  <2> QED
    BY <1>2, <2>2, <2>3
<1> QED
  BY <1>1, <1>3, <1>4, <1>5 DEF t

LEMMA CandsWithoutHead ==
  ASSUME NEW q \in Seq(VisionEvents), q # <<>>
  PROVE  /\ Tail(q) \in Seq(VisionEvents) /\ Head(q) \in VisionEvents /\ Len(Tail(q)) = Len(q) - 1
         /\ CandsIn(q) = CandsIn(Tail(q)) \cup (IF Head(q).kind = "cand" THEN {Head(q).n} ELSE {})
         /\ CandsIncrease(q) => /\ CandsIncrease(Tail(q))
                                /\ Head(q).kind = "cand" => Below({Head(q).n}, CandsIn(Tail(q)))
<1> DEFINE t == Tail(q)
           h == Head(q)
<1>1. /\ t \in Seq(VisionEvents) /\ Len(q) \in Nat \ {0} /\ Len(t) = Len(q) - 1
      /\ h \in VisionEvents /\ h = q[1]
      /\ \A i \in 1 .. Len(q) - 1 : t[i] = q[i + 1]
      /\ DOMAIN q = 1 .. Len(q) /\ DOMAIN t = 1 .. Len(q) - 1
  BY TailFacts
<1> HIDE DEF t, h
<1>2. \A i \in 1 .. Len(q) : i = 1 \/ (i - 1 \in 1 .. Len(q) - 1 /\ t[i - 1] = q[i])
  BY <1>1
<1>3. \A i \in 1 .. Len(q) - 1 : i + 1 \in 1 .. Len(q) /\ 1 < i + 1 /\ 1 \in 1 .. Len(q)
  BY <1>1
<1>4. CandsIn(q) = CandsIn(t) \cup (IF h.kind = "cand" THEN {h.n} ELSE {})
  <2>1. ASSUME NEW n \in CandsIn(q) PROVE n \in CandsIn(t) \cup (IF h.kind = "cand" THEN {h.n} ELSE {})
    <3>1. PICK i \in 1 .. Len(q) : q[i].kind = "cand" /\ n = q[i].n
      BY <1>1 DEF CandsIn
    <3>2. CASE i = 1
      BY <1>1, <3>1, <3>2
    <3>3. CASE i # 1
      BY <1>1, <1>2, <3>1, <3>3 DEF CandsIn
    <3> QED
      BY <3>2, <3>3
  <2>2. ASSUME NEW n \in CandsIn(t) PROVE n \in CandsIn(q)
    <3>1. PICK i \in 1 .. Len(q) - 1 : t[i].kind = "cand" /\ n = t[i].n
      BY <1>1 DEF CandsIn
    <3>2. i + 1 \in 1 .. Len(q) /\ q[i + 1] = t[i]
      BY <1>1, <1>3
    <3> QED
      BY <1>1, <3>1, <3>2 DEF CandsIn
  <2>3. h.kind = "cand" => h.n \in CandsIn(q)
    <3>1. 1 \in 1 .. Len(q)
      BY <1>1
    <3> QED
      BY <1>1, <3>1 DEF CandsIn
  <2> QED
    BY <2>1, <2>2, <2>3
<1>5. ASSUME CandsIncrease(q) PROVE CandsIncrease(t)
  <2> SUFFICES ASSUME NEW i \in 1 .. Len(q) - 1, NEW j \in 1 .. Len(q) - 1, i < j, t[i].kind = "cand", t[j].kind = "cand"
               PROVE  t[i].n < t[j].n
    BY <1>1 DEF CandsIncrease
  <2>1. t[i] = q[i + 1] /\ t[j] = q[j + 1] /\ i + 1 < j + 1 /\ i + 1 \in 1 .. Len(q) /\ j + 1 \in 1 .. Len(q)
    BY <1>1, <1>3
  <2> QED
    BY <1>1, <1>5, <2>1 DEF CandsIncrease
<1>6. ASSUME CandsIncrease(q), h.kind = "cand", NEW n \in CandsIn(t) PROVE h.n < n
  <2>1. PICK i \in 1 .. Len(q) - 1 : t[i].kind = "cand" /\ n = t[i].n
    BY <1>1 DEF CandsIn
  <2>2. i + 1 \in 1 .. Len(q) /\ 1 \in 1 .. Len(q) /\ 1 < i + 1 /\ q[i + 1] = t[i]
    BY <1>1, <1>3
  <2> QED
    BY <1>1, <1>6, <2>1, <2>2 DEF CandsIncrease
<1> QED
  BY <1>1, <1>4, <1>5, <1>6 DEF Below, t, h

(* Nothing is left out before what is added, since what waits comes after it. *)
LEMMA AddedInTurn == VisionTypes' /\ VisionKeeps' => NoneLeftOut'
<1> SUFFICES ASSUME VisionTypes', VisionKeeps', NEW i \in DOMAIN addedIce', NEW n \in 1 .. addedIce'[i]
             PROVE  n \in Range(addedIce') \cup visionMissed'
  BY DEF NoneLeftOut
<1>1. addedIce'[i] \in Range(addedIce') /\ addedIce'[i] \in 1 .. visionSent' /\ visionSent' \in Nat
  BY DEF VisionTypes, Range
<1>2. n \in 1 .. visionSent' /\ n <= addedIce'[i] /\ n \in Nat
  BY <1>1
<1>3. n \notin Range(visionIce') \cup CandsIn(visionEvents')
  BY <1>1, <1>2 DEF VisionKeeps, Below
<1> QED
  BY <1>2, <1>3 DEF VisionKeeps

LEMMA NothingQueued ==
  /\ <<>> \in Seq(Nat) /\ <<>> \in Seq(VisionEvents) /\ Len(<<>>) = 0 /\ Range(<<>>) = {} /\ CandsIn(<<>>) = {}
  /\ Increases(<<>>) /\ CandsIncrease(<<>>) /\ DOMAIN <<>> = {}
<1>1. DOMAIN <<>> = {} /\ Len(<<>>) = 0
  OBVIOUS
<1> QED
  BY <1>1, EmptyQueue DEF Range, CandsIn, Increases, CandsIncrease

LEMMA VisionInitInv == StreamerInit => VisionInv
BY NothingQueued, HostStreamerAssumption DEF StreamerInit, VisionInv, VisionTypes, NoneLeftOut, VisionOn

LEMMA VisionStep == VisionInv /\ [StreamerNext]_streamerVars => VisionInv'
<1> SUFFICES ASSUME VisionInv, [StreamerNext]_streamerVars PROVE VisionInv'
  OBVIOUS
<1>0. /\ addedIce \in Seq(Nat) /\ visionIce \in Seq(Nat) /\ visionEvents \in Seq(VisionEvents) /\ visionSent \in Nat
      /\ Len(visionEvents) \in Nat /\ Len(visionEvents) <= VisionKept /\ VisionKept \in Nat \ {0}
      /\ Range(addedIce) \subseteq 1 .. visionSent /\ Increases(addedIce) /\ NoneLeftOut
  BY QueueDomain, HostStreamerAssumption DEF VisionInv, VisionTypes
<1> DEFINE Ice == <<visionSent, visionMissed, visionEvents, visionIce, addedIce>>
           A == Range(addedIce)
           I == Range(visionIce)
           C == CandsIn(visionEvents)
<1>1. CASE /\ UNCHANGED <<Ice, vision, channelOpen, forwarded>>
           /\ streamer' = streamer \/ streamer' \notin {"attach", "connect"} \/ (streamer = "attach" /\ streamer' = "connect")
  BY <1>1 DEF VisionInv, VisionTypes, NoneLeftOut, VisionKeeps, VisionOn
<1>2. CASE ConnectPush
  <2>1. /\ vision = "none" /\ addedIce = <<>> /\ visionIce = <<>> /\ visionEvents = <<>> /\ visionSent = 0
        /\ ~forwarded /\ ~channelOpen /\ UNCHANGED <<Ice, channelOpen, forwarded>>
        /\ streamer' \in {"exit1", "first"} /\ vision' \in {"none", "offered"}
    BY <1>2 DEF ConnectPush, VisionInv, visionIceState
  <2> QED
    BY <1>0, <2>1, NothingQueued DEF VisionInv, VisionTypes, NoneLeftOut, VisionKeeps, Below
(* A new event, for which the oldest may have to go.                          *)
<1>3. ASSUME NEW e, VisionSignalled(e), e = Cand(visionSent + 1) \/ \E k \in {"answer", "lost", "news"} : e = Other(k)
      PROVE  VisionInv'
  <2> DEFINE q == IF Len(visionEvents) < VisionKept THEN visionEvents ELSE Tail(visionEvents)
             N == CandsIn(<<e>>)
  <2>1. /\ streamer \notin {"attach", "connect"} /\ VisionOn /\ visionEvents' = Append(q, e)
        /\ visionSent' = (IF e.kind = "cand" THEN visionSent + 1 ELSE visionSent)
        /\ e.kind = "cand" => e.n = visionSent + 1
        /\ UNCHANGED <<streamer, vision, visionIce, addedIce, channelOpen, forwarded>>
    BY <1>3 DEF VisionSignalled, StreamerRunning
  <2>2. e \in VisionEvents
    BY <1>0, <1>3 DEF VisionEvents, Cand, Other
  <2>3. VisionKeeps
    BY <2>1 DEF VisionInv
  <2>4. /\ q \in Seq(VisionEvents) /\ Len(q) \in Nat /\ Len(q) < VisionKept /\ CandsIncrease(q)
        /\ CandsIn(q) \subseteq C /\ C \subseteq CandsIn(q) \cup visionMissed' /\ visionMissed \subseteq visionMissed'
    <3>1. CASE Len(visionEvents) < VisionKept
      BY <1>0, <1>3, <2>3, <3>1 DEF VisionSignalled, VisionKeeps
    <3>2. CASE ~(Len(visionEvents) < VisionKept)
      <4>1. visionEvents # <<>>
        BY <1>0, <3>2, NothingQueued
      <4>2. visionMissed' = IF Head(visionEvents).kind = "cand"
                              THEN visionMissed \cup {Head(visionEvents).n} ELSE visionMissed
        BY <1>3, <3>2 DEF VisionSignalled
      <4>3. /\ Tail(visionEvents) \in Seq(VisionEvents) /\ Len(Tail(visionEvents)) = Len(visionEvents) - 1
            /\ C = CandsIn(Tail(visionEvents))
                     \cup (IF Head(visionEvents).kind = "cand" THEN {Head(visionEvents).n} ELSE {})
            /\ CandsIncrease(Tail(visionEvents))
        BY <1>0, <2>3, <4>1, CandsWithoutHead DEF VisionKeeps
      <4> QED
        BY <1>0, <3>2, <4>2, <4>3
    <3> QED
      BY <3>1, <3>2
  <2> HIDE DEF q
  <2>5. /\ visionEvents' \in Seq(VisionEvents) /\ Len(visionEvents') = Len(q) + 1
        /\ CandsIn(visionEvents') = CandsIn(q) \cup N /\ N = (IF e.kind = "cand" THEN {e.n} ELSE {})
        /\ Below(CandsIn(q), N) => CandsIncrease(visionEvents')
    <3>1. Len(Append(q, e)) = Len(q) + 1
      BY <2>2, <2>4, AppendFacts
    <3> QED
      BY <2>1, <2>2, <2>4, <3>1, CandsAppended
  <2>6. /\ visionSent' \in Nat /\ visionSent <= visionSent' /\ 1 .. visionSent' = 1 .. visionSent \cup N
        /\ \A m \in 1 .. visionSent, n \in N : m < n
    <3>1. CASE e.kind = "cand"
      <4>1. visionSent' = visionSent + 1 /\ N = {visionSent + 1}
        BY <2>1, <2>5, <3>1
      <4> HIDE DEF N
      <4> QED
        BY <1>0, <4>1
    <3>2. CASE e.kind # "cand"
      <4>1. visionSent' = visionSent /\ N = {}
        BY <2>1, <2>5, <3>2
      <4> HIDE DEF N
      <4> QED
        BY <1>0, <4>1
    <3> QED
      BY <3>1, <3>2
  <2> HIDE DEF N
  <2>7. VisionTypes'
    BY <1>0, <2>1, <2>4, <2>5, <2>6 DEF VisionTypes
  <2>8. A \subseteq 1 .. visionSent /\ I \subseteq 1 .. visionSent /\ CandsIn(q) \subseteq 1 .. visionSent
    BY <1>0, <2>3, <2>4 DEF VisionKeeps
  <2>9. Below(A, N) /\ Below(I, N) /\ Below(CandsIn(q), N)
    BY <2>6, <2>8 DEF Below
  <2>10. VisionKeeps'
    <3>1. Below(A, I \cup CandsIn(q)) /\ Below(I, CandsIn(q))
      BY <2>3, <2>4 DEF VisionKeeps, Below
    <3>2. Below(A, I \cup CandsIn(q) \cup N) /\ Below(I, CandsIn(q) \cup N)
      BY <2>9, <3>1 DEF Below
    <3>3. I \cup CandsIn(q) \cup N \subseteq 1 .. visionSent'
      BY <2>6, <2>8
    <3>4. 1 .. visionSent' \subseteq A \cup I \cup CandsIn(q) \cup N \cup visionMissed'
      BY <2>3, <2>4, <2>6 DEF VisionKeeps
    <3> QED
      BY <2>1, <2>3, <2>5, <2>9, <3>2, <3>3, <3>4 DEF VisionKeeps
  <2>11. NoneLeftOut'
    BY <2>7, <2>10, AddedInTurn
  <2> QED
    BY <1>0, <2>1, <2>7, <2>10, <2>11 DEF VisionInv, VisionOn
(* The vision is switched off: the rest of the candidates is dropped.         *)
<1>4. CASE VisionOff /\ UNCHANGED <<visionSent, visionMissed>> /\ streamer' = "handle"
  BY <1>0, <1>4, NothingQueued DEF VisionOff, VisionInv, VisionTypes, NoneLeftOut, VisionOn
<1>5. CASE VisionSignal
  <2> DEFINE e == Head(visionEvents)
             t == Tail(visionEvents)
  <2>1. /\ VisionOn /\ visionEvents # <<>> /\ streamer' = "handle" /\ UNCHANGED <<visionSent, visionMissed, forwarded>>
        /\ \/ /\ vision' = "answered" /\ e.kind = "answer" /\ UNCHANGED channelOpen
              /\ addedIce' = addedIce \o visionIce /\ visionIce' = <<>> /\ visionEvents' = t
           \/ VisionOff
           \/ /\ e.kind = "cand" /\ AddIce(e.n) /\ visionEvents' = t /\ UNCHANGED <<vision, channelOpen>>
           \/ /\ e.kind = "news" /\ visionEvents' = t /\ UNCHANGED <<vision, channelOpen, visionIce, addedIce>>
    BY <1>5 DEF VisionSignal
  <2>2. VisionKeeps
    BY <2>1 DEF VisionInv
  <2>3. /\ t \in Seq(VisionEvents) /\ e \in VisionEvents /\ Len(t) = Len(visionEvents) - 1 /\ CandsIncrease(t)
        /\ C = CandsIn(t) \cup (IF e.kind = "cand" THEN {e.n} ELSE {})
        /\ e.kind = "cand" => Below({e.n}, CandsIn(t)) /\ e.n \in Nat
    BY <1>0, <2>1, <2>2, CandsWithoutHead DEF VisionKeeps, VisionEvents
  <2> HIDE DEF e, t
  <2>4. Len(t) <= VisionKept
    BY <1>0, <2>3
  <2>5. CASE /\ vision' = "answered" /\ e.kind = "answer" /\ UNCHANGED channelOpen
             /\ addedIce' = addedIce \o visionIce /\ visionIce' = <<>> /\ visionEvents' = t
    <3>1. Below(A, I) /\ Below(A, C) /\ Below(I, C) /\ C = CandsIn(t)
      BY <2>2, <2>3, <2>5 DEF VisionKeeps, Below
    <3>2. addedIce' \in Seq(Nat) /\ Increases(addedIce') /\ Range(addedIce') = A \cup I
      BY <1>0, <2>2, <2>5, <3>1, IncreasesJoined DEF VisionKeeps
    <3>3. VisionTypes'
      BY <1>0, <2>1, <2>2, <2>3, <2>4, <2>5, <3>2, NothingQueued DEF VisionTypes, VisionKeeps
    <3>4. VisionKeeps'
      <4>1. Below(A \cup I, C)
        BY <3>1 DEF Below
      <4> QED
        BY <2>1, <2>2, <2>3, <2>5, <3>1, <3>2, <4>1, NothingQueued DEF VisionKeeps, Below
    <3> QED
      BY <2>1, <2>5, <3>2, <3>3, <3>4, AddedInTurn DEF VisionInv, VisionOn
  <2>6. CASE VisionOff
    BY <1>4, <2>1, <2>6
  <2>7. CASE /\ e.kind = "cand" /\ vision = "answered" /\ AddIce(e.n) /\ visionEvents' = t
             /\ UNCHANGED <<vision, channelOpen>>
    <3>1. addedIce' = Append(addedIce, e.n) /\ UNCHANGED visionIce /\ I = {}
      BY <2>7, NothingQueued DEF AddIce, VisionInv
    <3>2. e.n \in C /\ e.n \in 1 .. visionSent /\ Below(A, C) /\ CandsIn(t) \subseteq C
      BY <2>2, <2>3, <2>7, <3>1 DEF VisionKeeps
    <3>3. Below(A, {e.n})
      BY <3>2 DEF Below
    <3>4. addedIce' \in Seq(Nat) /\ Increases(addedIce') /\ Range(addedIce') = A \cup {e.n}
      BY <1>0, <2>3, <2>7, <3>1, <3>3, IncreasesMore
    <3>5. VisionTypes'
      BY <1>0, <2>1, <2>3, <2>4, <2>7, <3>1, <3>2, <3>4 DEF VisionTypes
    <3>6. VisionKeeps'
      <4>1. Below(A \cup {e.n}, CandsIn(t)) /\ CandsIn(t) \subseteq 1 .. visionSent
        BY <2>2, <2>3, <2>7, <3>2 DEF VisionKeeps, Below
      <4>2. 1 .. visionSent \subseteq (A \cup {e.n}) \cup I \cup CandsIn(t) \cup visionMissed
        BY <2>2, <2>3, <2>7 DEF VisionKeeps
      <4> QED
        BY <2>1, <2>2, <2>3, <2>7, <3>1, <3>4, <4>1, <4>2 DEF VisionKeeps, Below
    <3> QED
      BY <2>1, <2>7, <3>1, <3>4, <3>5, <3>6, AddedInTurn DEF VisionInv, VisionOn
  <2>8. CASE /\ e.kind = "cand" /\ vision = "offered" /\ AddIce(e.n) /\ visionEvents' = t
             /\ UNCHANGED <<vision, channelOpen>>
    <3>1. visionIce' = Append(visionIce, e.n) /\ UNCHANGED addedIce /\ A = {}
      BY <2>8, NothingQueued DEF AddIce, VisionInv
    <3>2. e.n \in C /\ e.n \in 1 .. visionSent /\ Below(I, C) /\ CandsIn(t) \subseteq C
      BY <2>2, <2>3, <2>8 DEF VisionKeeps
    <3>3. Below(I, {e.n})
      BY <3>2 DEF Below
    <3>4. visionIce' \in Seq(Nat) /\ Increases(visionIce') /\ Range(visionIce') = I \cup {e.n}
      BY <1>0, <2>2, <2>3, <2>8, <3>1, <3>3, IncreasesMore DEF VisionKeeps
    <3>5. VisionTypes'
      BY <1>0, <2>1, <2>3, <2>4, <2>8, <3>1, <3>4 DEF VisionTypes
    <3>6. VisionKeeps'
      <4>1. Below(I \cup {e.n}, CandsIn(t)) /\ I \cup {e.n} \cup CandsIn(t) \subseteq 1 .. visionSent
        BY <2>2, <2>3, <2>8, <3>2 DEF VisionKeeps, Below
      <4>2. 1 .. visionSent \subseteq A \cup (I \cup {e.n}) \cup CandsIn(t) \cup visionMissed
        BY <2>2, <2>3, <2>8 DEF VisionKeeps
      <4> QED
        BY <2>1, <2>3, <2>8, <3>1, <3>4, <4>1, <4>2 DEF VisionKeeps, Below
    <3> QED
      BY <1>0, <2>1, <2>8, <3>1, <3>5, <3>6, AddedInTurn DEF VisionInv, VisionOn
  <2>9. CASE e.kind = "news" /\ visionEvents' = t /\ UNCHANGED <<vision, channelOpen, visionIce, addedIce>>
    <3>1. C = CandsIn(t)
      BY <2>3, <2>9
    <3>2. VisionTypes' /\ VisionKeeps'
      BY <1>0, <2>1, <2>2, <2>3, <2>4, <2>9, <3>1 DEF VisionTypes, VisionKeeps
    <3> QED
      BY <1>0, <2>1, <2>9, <3>2, AddedInTurn DEF VisionInv, VisionOn
  <2> QED
    BY <2>1, <2>5, <2>6, <2>7, <2>8, <2>9 DEF VisionOn
<1>6. CASE VisionFrame
  <2>1. /\ UNCHANGED <<Ice, vision, channelOpen>> /\ streamer' = "handle" /\ (~forwarded /\ ~channelOpen => ~forwarded')
    BY <1>6 DEF VisionFrame, visionIceState
  <2> QED
    BY <2>1 DEF VisionInv, VisionTypes, NoneLeftOut, VisionKeeps, VisionOn
<1>7. CASE VisionDeadline
  BY <1>4, <1>7 DEF VisionDeadline
<1>8. CASE ChannelOpens
  <2>1. UNCHANGED <<Ice, vision, forwarded, streamer>> /\ vision = "answered"
    BY <1>8 DEF ChannelOpens, visionIceState
  <2> QED
    BY <2>1 DEF VisionInv, VisionTypes, NoneLeftOut, VisionKeeps, VisionOn
<1>9. CASE SubscribeCamera \/ FirstFrame \/ FrameTimesOut \/ NextTurn \/ WriteFrame \/ PushEvent \/ VisionLags
  BY <1>1, <1>9 DEF SubscribeCamera, FirstFrame, FrameTimesOut, NextTurn, WriteFrame, PushEvent, VisionLags, visionState
<1>10. CASE StreamerTick \/ StreamerTerminated \/ CapturerStarts \/ CapturerStops \/ CapturerPublishes
            \/ UNCHANGED streamerVars
  BY <1>1, <1>10 DEF StreamerTick, StreamerTerminated, CapturerStarts, CapturerStops, CapturerPublishes,
     visionState, visionIceState, streamerVars
<1> QED
  BY <1>2, <1>3, <1>5, <1>6, <1>7, <1>8, <1>9, <1>10 DEF StreamerNext, StreamerStep

(* The candidates of the cockpit are added after the answer, once, in order,  *)
(* and without any left out but those the event channel lost                  *)
(* (host-streamer.rs): for any time-outs, capacity and events.                *)
THEOREM VisionIceInOrder == StreamerSpec => [](StreamerTypeOK /\ VisionInOrder)
<1>1. StreamerFlags /\ StreamerTimes /\ VisionInv => StreamerTypeOK
  BY DEF StreamerFlags, StreamerTimes, VisionInv, VisionTypes, StreamerTypeOK
<1>2. VisionInv => VisionInOrder
  BY DEF VisionInv, NoneLeftOut, Increases, VisionInOrder
<1> QED
  BY StreamerFlagsKept, StreamerTimesKept, VisionInitInv, VisionStep, <1>1, <1>2, PTL DEF StreamerSpec

-----------------------------------------------------------------------------
(* The subscriptions of host-audio.                                           *)

AudioStates == {"none", "create", "listen", "created", "consume", "answer", "connect", "done", "failed"}
AudioEvents == [kind : {"created", "consumed", "produced", "error", "new", "lost"},
                task : AudioTasks \cup {AudioNobody}]

AudioLogged ==
  /\ audioHeard \in Seq(AudioEvents) /\ audioAsked \in Seq(AudioEvents)
  /\ \A i \in 1 .. Len(audioHeard) : audioHeard[i].kind = "new" => audioHeard[i].task \in Remotes
  /\ \A i \in 1 .. Len(audioAsked) : audioAsked[i].kind # "new"
  /\ mainAt \in Nat /\ mainAt <= Len(audioHeard) /\ audioAt \in [AudioTasks -> Nat]
  /\ \A x \in AudioTasks : audioAt[x] <= Len(audioHeard)

(* A producer that main has not taken has no task, and a task that has not    *)
(* come to its Consume has sent none.                                         *)
AudioStarted ==
  /\ audioMain \in {"publish", "run", "closing", "ok", "shared", "failed"}
  /\ audioTask \in [AudioTasks -> AudioStates] /\ consumes \in [Remotes -> {0, 1}]
  /\ subscribedTo \subseteq Remotes
  /\ \A p \in Remotes : p \notin subscribedTo => audioTask[p] = "none"
  /\ \A p \in Remotes : audioTask[p] \in {"none", "create", "listen", "created", "consume"} => consumes[p] = 0
  /\ audioMain = "ok" => InFlight = {}

LEMMA AudioInitInv == AudioInit => AudioLogged /\ AudioStarted
<1> SUFFICES ASSUME AudioInit PROVE AudioLogged /\ AudioStarted
  OBVIOUS
<1>1. \A p \in Remotes : NewProducerEvent(p) \in AudioEvents /\ NewProducerEvent(p).kind = "new"
                         /\ NewProducerEvent(p).task = p
  BY DEF NewProducerEvent, AudioEvents, AudioTasks
<1>2. AudioLogged
  <2>1. audioAsked = <<>> /\ mainAt = 0 /\ audioAt = [x \in AudioTasks |-> 0]
    BY DEF AudioInit
  <2>2. audioAt \in [AudioTasks -> Nat] /\ \A x \in AudioTasks : audioAt[x] = 0
    BY <2>1
  <2>3. CASE audioHeard = <<>>
    BY <2>1, <2>2, <2>3, EmptyQueue DEF AudioLogged
  <2>4. ASSUME NEW p \in Remotes, audioHeard = <<NewProducerEvent(p)>> PROVE AudioLogged
    <3>1. audioHeard \in Seq(AudioEvents) /\ Len(audioHeard) = 1 /\ audioHeard[1] = NewProducerEvent(p)
      BY <1>1, <2>4
    <3> QED
      BY <1>1, <2>1, <2>2, <3>1, EmptyQueue DEF AudioLogged
  <2> QED
    BY <2>3, <2>4 DEF AudioInit
<1>3. AudioStarted
  <2>1. audioTask \in [AudioTasks -> AudioStates] /\ \A p \in Remotes : audioTask[p] = "none"
    BY HostAudioAssumption DEF AudioInit, AudioTasks, AudioStates
  <2> QED
    BY <2>1 DEF AudioInit, AudioStarted, InFlight
<1> QED
  BY <1>2, <1>3

LEMMA AudioLoggedStep == AudioLogged /\ AudioStarted /\ [AudioNext]_audioVars => AudioLogged'
<1> SUFFICES ASSUME AudioLogged, AudioStarted, [AudioNext]_audioVars PROVE AudioLogged'
  OBVIOUS
<1>0. /\ audioHeard \in Seq(AudioEvents) /\ audioAsked \in Seq(AudioEvents) /\ Len(audioHeard) \in Nat
      /\ audioAt \in [AudioTasks -> Nat] /\ mainAt \in Nat /\ mainAt <= Len(audioHeard)
  BY QueueDomain DEF AudioLogged
(* An event more.                                                             *)
<1>1. ASSUME NEW e \in AudioEvents, e.kind = "new" => e.task \in Remotes, audioHeard' = Append(audioHeard, e),
             UNCHANGED <<mainAt, audioAt>>,
             audioAsked' \in Seq(AudioEvents), \A i \in 1 .. Len(audioAsked') : audioAsked'[i].kind # "new"
      PROVE  AudioLogged'
  <2>1. /\ audioHeard' \in Seq(AudioEvents) /\ Len(audioHeard') = Len(audioHeard) + 1
        /\ \A i \in 1 .. Len(audioHeard) : audioHeard'[i] = audioHeard[i]
        /\ audioHeard'[Len(audioHeard) + 1] = e
    BY <1>0, <1>1, AppendFacts
  <2>2. \A i \in 1 .. Len(audioHeard') : i \in 1 .. Len(audioHeard) \/ i = Len(audioHeard) + 1
    BY <1>0, <2>1
  <2>3. \A i \in 1 .. Len(audioHeard') : audioHeard'[i].kind = "new" => audioHeard'[i].task \in Remotes
    BY <1>1, <2>1, <2>2 DEF AudioLogged
  <2>4. mainAt <= Len(audioHeard') /\ \A x \in AudioTasks : audioAt[x] <= Len(audioHeard')
    BY <1>0, <2>1 DEF AudioLogged
  <2> QED
    BY <1>0, <1>1, <2>1, <2>3, <2>4 DEF AudioLogged
(* A request more.                                                            *)
<1>2. ASSUME NEW x \in AudioTasks, NEW kind \in {"created", "consumed", "produced"}, Ask(x, kind),
             UNCHANGED <<audioHeard, mainAt, audioAt>>
      PROVE  AudioLogged'
  <2> DEFINE r == [kind |-> kind, task |-> x]
  <2>1. r \in AudioEvents /\ r.kind # "new"
    BY DEF AudioEvents
  <2>2. audioAsked' = Append(audioAsked, r)
    BY <1>2 DEF Ask
  <2> HIDE DEF r
  <2>3. /\ audioAsked' \in Seq(AudioEvents) /\ Len(audioAsked') = Len(audioAsked) + 1 /\ Len(audioAsked) \in Nat
        /\ \A i \in 1 .. Len(audioAsked) : audioAsked'[i] = audioAsked[i]
        /\ audioAsked'[Len(audioAsked) + 1] = r
    BY <1>0, <2>1, <2>2, AppendFacts
  <2>4. \A i \in 1 .. Len(audioAsked') : i \in 1 .. Len(audioAsked) \/ i = Len(audioAsked) + 1
    BY <2>3
  <2>5. \A i \in 1 .. Len(audioAsked') : audioAsked'[i].kind # "new"
    BY <2>1, <2>3, <2>4 DEF AudioLogged
  <2> QED
    BY <1>2, <2>3, <2>5 DEF AudioLogged
<1>3. CASE UNCHANGED <<audioHeard, audioAsked, mainAt, audioAt>>
  BY <1>3 DEF AudioLogged
<1>4. ASSUME NEW x \in AudioTasks, NEW n \in Nat, n <= Len(audioHeard), audioAt' = [audioAt EXCEPT ![x] = n],
             UNCHANGED <<audioHeard, audioAsked, mainAt>>
      PROVE  AudioLogged'
  BY <1>0, <1>4 DEF AudioLogged
<1>5. CASE AudioAnswered
  <2>1. /\ audioAsked # <<>> /\ audioAsked' = Tail(audioAsked) /\ UNCHANGED <<mainAt, audioAt>>
        /\ \/ audioHeard' = Append(audioHeard, Head(audioAsked))
           \/ audioHeard' = Append(audioHeard, [kind |-> "error", task |-> Head(audioAsked).task])
    BY <1>5 DEF AudioAnswered, AudioServer
  <2>2. /\ audioAsked' \in Seq(AudioEvents) /\ Len(audioAsked) \in Nat \ {0} /\ Len(audioAsked') = Len(audioAsked) - 1
        /\ Head(audioAsked) \in AudioEvents /\ Head(audioAsked) = audioAsked[1]
        /\ \A i \in 1 .. Len(audioAsked) - 1 : audioAsked'[i] = audioAsked[i + 1]
    BY <1>0, <2>1, TailFacts
  <2>3. \A i \in 1 .. Len(audioAsked) - 1 : i + 1 \in 1 .. Len(audioAsked)
    BY <2>2
  <2>4. \A i \in 1 .. Len(audioAsked') : audioAsked'[i].kind # "new"
    BY <2>2, <2>3 DEF AudioLogged
  <2>5. 1 \in 1 .. Len(audioAsked)
    BY <2>2
  <2>6. Head(audioAsked).kind # "new"
    BY <2>2, <2>5 DEF AudioLogged
  <2>7. [kind |-> "error", task |-> Head(audioAsked).task] \in AudioEvents
    BY <2>2 DEF AudioEvents
  <2> QED
    BY <1>1, <2>1, <2>2, <2>4, <2>6, <2>7
<1>6. ASSUME NEW p \in Remotes, AudioAnnounced(p) PROVE AudioLogged'
  <2>1. NewProducerEvent(p) \in AudioEvents /\ NewProducerEvent(p).task = p
    BY DEF NewProducerEvent, AudioEvents, AudioTasks
  <2>2. audioHeard' = Append(audioHeard, NewProducerEvent(p)) /\ UNCHANGED <<mainAt, audioAt, audioAsked>>
    BY <1>6 DEF AudioAnnounced, AudioServer
  <2>3. \A i \in 1 .. Len(audioAsked') : audioAsked'[i].kind # "new"
    BY <2>2 DEF AudioLogged
  <2> QED
    BY <1>0, <1>1, <2>1, <2>2, <2>3
<1>7. CASE AudioLoses
  <2>1. LossEvent \in AudioEvents /\ LossEvent.kind # "new"
    BY DEF LossEvent, AudioEvents
  <2>2. audioHeard' = Append(audioHeard, LossEvent) /\ audioAsked' = <<>> /\ UNCHANGED <<mainAt, audioAt>>
    BY <1>7 DEF AudioLoses, AudioServer
  <2> QED
    BY <1>1, <2>1, <2>2, EmptyQueue
<1>8. ASSUME NEW x \in AudioTasks, SendCreate(x) PROVE AudioLogged'
  BY <1>2, <1>3, <1>8 DEF SendCreate, AudioRest
<1>9. ASSUME NEW x \in AudioTasks, ListenForAnswer(x) PROVE AudioLogged'
  <2>1. /\ audioAt' = [audioAt EXCEPT ![x] = Len(audioHeard)] /\ UNCHANGED <<audioHeard, audioAsked, mainAt>>
    BY <1>9 DEF ListenForAnswer, AudioRest
  <2>2. Len(audioHeard) <= Len(audioHeard)
    BY <1>0
  <2> QED
    BY <1>0, <1>4, <2>1, <2>2
<1>10. ASSUME NEW x \in AudioTasks, NEW from, NEW kind, NEW taken, AwaitEvent(x, from, kind, taken) PROVE AudioLogged'
  <2>1. /\ audioAt[x] < Len(audioHeard) /\ audioAt' = [audioAt EXCEPT ![x] = audioAt[x] + 1]
        /\ UNCHANGED <<audioHeard, audioAsked, mainAt>>
    BY <1>10 DEF AwaitEvent, AudioRest
  <2>2. audioAt[x] + 1 \in Nat /\ audioAt[x] + 1 <= Len(audioHeard)
    BY <1>0, <2>1
  <2> QED
    BY <1>4, <2>1, <2>2
<1>11. ASSUME NEW x \in AudioTasks, AwaitCreated(x) \/ AwaitConsumed(x) PROVE AudioLogged'
  BY <1>10, <1>11 DEF AwaitCreated, AwaitConsumed
<1>12. CASE AwaitProduced
  BY <1>10, <1>12 DEF AwaitProduced, AudioTasks
<1>13. ASSUME NEW x \in AudioTasks, SendConsume(x) PROVE AudioLogged'
  BY <1>2, <1>3, <1>13 DEF SendConsume, AudioRest
<1>14. ASSUME NEW x \in AudioTasks, AudioConnect(x) PROVE AudioLogged'
  BY <1>2, <1>3, <1>14 DEF AudioConnect, AudioRest
<1>15. ASSUME UNCHANGED <<audioHeard, audioAsked, audioAt>>, mainAt' \in Nat, mainAt' <= Len(audioHeard) PROVE AudioLogged'
  BY <1>15 DEF AudioLogged
<1>16. CASE Published
  <2>1. UNCHANGED <<audioHeard, audioAsked, audioAt>> /\ (mainAt' = Len(audioHeard) \/ mainAt' = mainAt)
    BY <1>16 DEF Published
  <2>2. mainAt' \in Nat /\ mainAt' <= Len(audioHeard)
    BY <1>0, <2>1
  <2> QED
    BY <1>15, <2>1, <2>2
<1>17. CASE MainReceives
  <2>1. UNCHANGED <<audioHeard, audioAsked, audioAt>> /\ mainAt < Len(audioHeard) /\ mainAt' = mainAt + 1
    BY <1>17 DEF MainReceives
  <2>2. mainAt' \in Nat /\ mainAt' <= Len(audioHeard)
    BY <1>0, <2>1
  <2> QED
    BY <1>15, <2>1, <2>2
<1>18. CASE AudioTerminated \/ AudioCloses \/ UNCHANGED audioVars
  BY <1>3, <1>18 DEF AudioTerminated, AudioCloses, audioVars
<1> QED
  BY <1>5, <1>6, <1>7, <1>8, <1>9, <1>11, <1>12, <1>13, <1>14, <1>16, <1>17, <1>18 DEF AudioNext

LEMMA AudioStartedStep == AudioLogged /\ AudioStarted /\ [AudioNext]_audioVars => AudioStarted'
<1> SUFFICES ASSUME AudioLogged, AudioStarted, [AudioNext]_audioVars PROVE AudioStarted'
  OBVIOUS
<1>1. CASE UNCHANGED <<audioMain, audioTask, consumes, subscribedTo>>
  BY <1>1 DEF AudioStarted, InFlight
(* A task that steps while main is up.                                        *)
<1>2. ASSUME NEW x \in AudioTasks, NEW from, NEW to \in AudioStates \ {"none"}, TaskSteps(x, from), from # "none", To(x, to),
             to \in {"create", "listen", "created", "consume"} => from \in {"create", "listen", "created", "consume"},
             UNCHANGED <<audioMain, subscribedTo>>,
             UNCHANGED consumes
               \/ (to = "answer" /\ from = "consume" /\ x \in Remotes /\ consumes' = [consumes EXCEPT ![x] = @ + 1])
      PROVE  AudioStarted'
  <2>1. /\ audioTask' \in [AudioTasks -> AudioStates] /\ audioTask'[x] = to
        /\ \A y \in AudioTasks : y # x => audioTask'[y] = audioTask[y]
    BY <1>2 DEF To, AudioStarted
  <2>2. audioMain' # "ok" /\ audioTask[x] = from
    BY <1>2 DEF TaskSteps, AudioUp
  <2>3. \A p \in Remotes : p \in AudioTasks
    BY DEF AudioTasks
  <2>4. /\ consumes' \in [Remotes -> {0, 1}]
        /\ \A p \in Remotes : audioTask'[p] \in {"none", "create", "listen", "created", "consume"} => consumes'[p] = 0
    <3>1. CASE UNCHANGED consumes
      BY <1>2, <2>1, <2>2, <2>3, <3>1 DEF AudioStarted
    <3>2. CASE to = "answer" /\ from = "consume" /\ x \in Remotes /\ consumes' = [consumes EXCEPT ![x] = @ + 1]
      <4>1. consumes[x] = 0
        BY <2>2, <3>2 DEF AudioStarted
      <4>2. consumes' = [consumes EXCEPT ![x] = 1]
        BY <3>2, <4>1
      <4> QED
        BY <2>1, <2>3, <3>2, <4>2 DEF AudioStarted
    <3> QED
      BY <1>2, <3>1, <3>2
  <2>5. \A p \in Remotes : p \notin subscribedTo => audioTask'[p] = "none"
    BY <1>2, <2>1, <2>2, <2>3 DEF AudioStarted
  <2> QED
    BY <1>2, <2>1, <2>2, <2>4, <2>5 DEF AudioStarted
<1>3. CASE AudioAnswered \/ AudioLoses \/ (\E p \in Remotes : AudioAnnounced(p)) \/ UNCHANGED audioVars
  BY <1>1, <1>3 DEF AudioAnswered, AudioLoses, AudioAnnounced, AudioServer, audioVars
<1>4. ASSUME NEW x \in AudioTasks, SendCreate(x) PROVE AudioStarted'
  BY <1>2, <1>4 DEF SendCreate, AudioRest, AudioStates
<1>5. ASSUME NEW x \in AudioTasks, ListenForAnswer(x) PROVE AudioStarted'
  BY <1>2, <1>5 DEF ListenForAnswer, AudioRest, AudioStates
<1>6. ASSUME NEW x \in AudioTasks, AwaitCreated(x) PROVE AudioStarted'
  <2>1. /\ UNCHANGED <<audioMain, subscribedTo, consumes>> /\ TaskSteps(x, "created")
        /\ UNCHANGED audioTask \/ To(x, "failed") \/ To(x, "connect") \/ To(x, "consume")
    BY <1>6 DEF AwaitCreated, AwaitEvent, AudioRest
  <2> QED
    BY <1>1, <1>2, <2>1 DEF AudioStates
<1>7. ASSUME NEW x \in AudioTasks, SendConsume(x) PROVE AudioStarted'
  BY <1>2, <1>7 DEF SendConsume, AudioRest, AudioStates
<1>8. ASSUME NEW x \in AudioTasks, AwaitConsumed(x) PROVE AudioStarted'
  <2>1. /\ UNCHANGED <<audioMain, subscribedTo, consumes>> /\ TaskSteps(x, "answer")
        /\ UNCHANGED audioTask \/ To(x, "failed") \/ To(x, "connect")
    BY <1>8 DEF AwaitConsumed, AwaitEvent, AudioRest
  <2> QED
    BY <1>1, <1>2, <2>1 DEF AudioStates
<1>9. ASSUME NEW x \in AudioTasks, AudioConnect(x) PROVE AudioStarted'
  <2>1. /\ UNCHANGED <<audioMain, subscribedTo, consumes>> /\ TaskSteps(x, "connect")
        /\ To(x, "failed") \/ To(x, "done") \/ To(x, "answer")
    BY <1>9 DEF AudioConnect, AudioRest
  <2> QED
    BY <1>2, <2>1 DEF AudioStates
<1>10. CASE AwaitProduced
  <2>1. /\ UNCHANGED <<audioMain, subscribedTo, consumes>> /\ TaskSteps(OwnProducer, "answer") /\ OwnProducer \in AudioTasks
        /\ UNCHANGED audioTask \/ To(OwnProducer, "failed") \/ To(OwnProducer, "done")
    BY <1>10 DEF AwaitProduced, AwaitEvent, AudioRest, AudioTasks
  <2> QED
    BY <1>1, <1>2, <2>1 DEF AudioStates
<1>11. CASE Published
  <2>1. UNCHANGED <<audioTask, consumes, subscribedTo>> /\ audioMain' \in {"run", "failed"}
    BY <1>11 DEF Published
  <2> QED
    BY <2>1 DEF AudioStarted, InFlight
<1>12. CASE MainReceives
  <2> DEFINE e == audioHeard[mainAt + 1]
  <2>1. /\ audioMain = "run" /\ mainAt < Len(audioHeard) /\ UNCHANGED consumes
        /\ \/ e.kind = "new" /\ e.task \notin subscribedTo /\ To(e.task, "create")
              /\ subscribedTo' = subscribedTo \cup {e.task} /\ UNCHANGED audioMain
           \/ audioMain' = "closing" /\ UNCHANGED <<audioTask, subscribedTo>>
           \/ UNCHANGED <<audioMain, audioTask, subscribedTo>>
    BY <1>12 DEF MainReceives
  <2>2. mainAt + 1 \in 1 .. Len(audioHeard)
    BY <2>1, QueueDomain DEF AudioLogged
  <2>3. e.kind = "new" => e.task \in Remotes
    BY <2>2 DEF AudioLogged
  <2> HIDE DEF e
  <2>4. ASSUME NEW p \in Remotes, p \notin subscribedTo, To(p, "create"), subscribedTo' = subscribedTo \cup {p},
               UNCHANGED audioMain
        PROVE  AudioStarted'
    <3>1. /\ audioTask' \in [AudioTasks -> AudioStates] /\ audioTask'[p] = "create" /\ audioTask[p] = "none"
          /\ \A y \in AudioTasks : y # p => audioTask'[y] = audioTask[y]
      BY <2>4 DEF To, AudioStarted, AudioStates, AudioTasks
    <3>2. \A q \in Remotes : q \in AudioTasks
      BY DEF AudioTasks
    <3> QED
      BY <2>1, <2>4, <3>1, <3>2 DEF AudioStarted
  <2>5. CASE audioMain' = "closing" /\ UNCHANGED <<audioTask, subscribedTo>>
    BY <2>1, <2>5 DEF AudioStarted
  <2> QED
    BY <1>1, <2>1, <2>3, <2>4, <2>5
<1>13. CASE AudioTerminated
  BY <1>13 DEF AudioTerminated, AudioStarted
<1>14. CASE AudioCloses
  BY <1>14 DEF AudioCloses, AudioStarted, InFlight
<1> QED
  BY <1>3, <1>4, <1>5, <1>6, <1>7, <1>8, <1>9, <1>10, <1>11, <1>12, <1>13, <1>14 DEF AudioNext

(* A producer is consumed once, and an exit that reports success leaves       *)
(* nothing half made: for any producers, refusals and repeats.                *)
THEOREM SubscriptionsSettle == AudioSpec => [](AudioTypeOK /\ AudioSettles)
<1>1. AudioLogged /\ AudioStarted => AudioTypeOK
  BY DEF AudioLogged, AudioStarted, AudioStates, AudioTypeOK
<1>2. AudioStarted => AudioSettles
  BY DEF AudioStarted, AudioSettles
<1> QED
  BY AudioInitInv, AudioLoggedStep, AudioStartedStep, <1>1, <1>2, PTL DEF AudioSpec

-----------------------------------------------------------------------------
(* The emergency stop.                                                        *)

Entries == [life : Nat, source : Tasks, seq : Commands \cup {0}, n : Nat, latched : BOOLEAN]
Triggers == [at : {"counted", "latched"}, seq : Commands \cup {0}, n : Nat, first : BOOLEAN]

StopTyped ==
  /\ lives \in Nat /\ count \in Nat /\ commands \in Seq(Commands)
  /\ audit \in Seq(Entries) /\ trigger \in [Tasks -> Triggers \cup {NoTrigger}]

(* In this life no two triggers, under way or recorded, have one count, and   *)
(* one of them at most found the latch open; from then on it is set.          *)
Busy(t) == trigger[t] # NoTrigger
NowIn(i) == i \in DOMAIN audit /\ audit[i].life = lives

CountsDiffer ==
  /\ \A i \in DOMAIN audit : audit[i].life <= lives /\ (NowIn(i) => audit[i].n <= count)
  /\ \A t \in Tasks : Busy(t) => trigger[t].n <= count
  /\ \A t, u \in Tasks : Busy(t) /\ Busy(u) /\ t # u => trigger[t].n # trigger[u].n
  /\ \A t \in Tasks, i \in DOMAIN audit : Busy(t) /\ NowIn(i) => audit[i].n # trigger[t].n

OneFinder ==
  /\ \A t \in Tasks : Busy(t) /\ trigger[t].first => latch /\ trigger[t].at = "latched"
  /\ \A i \in DOMAIN audit : NowIn(i) /\ audit[i].latched => latch
  /\ \A t, u \in Tasks :
       Busy(t) /\ Busy(u) /\ t # u => ~(trigger[t].first /\ trigger[u].first)
  /\ \A t \in Tasks, i \in DOMAIN audit :
       Busy(t) /\ NowIn(i) => ~(trigger[t].first /\ audit[i].latched)

StopInv == StopTyped /\ CountsDiffer /\ OneFinder /\ LatchedOnce

USE DEF StopInv, StopTyped, Busy, NowIn, Tasks

LEMMA StopInitInv == StopInit => StopInv
BY DEF StopInit, PeerInit, CountsDiffer, OneFinder, LatchedOnce

LEMMA BeginTriggerInv ==
  ASSUME StopInv, NEW t \in Tasks, NEW seq \in Commands \cup {0}, BeginTrigger(t, seq),
         UNCHANGED lives, commands' \in Seq(Commands)
  PROVE  StopInv'
<1> DEFINE new == [at |-> "counted", seq |-> seq, n |-> count', first |-> FALSE]
<1>1. /\ count' = count + 1 /\ trigger' = [trigger EXCEPT ![t] = new]
      /\ UNCHANGED <<latch, audit>> /\ new \in Triggers
  BY DEF BeginTrigger, Triggers
<1>2. trigger'[t] = new /\ \A u \in Tasks : u # t => trigger'[u] = trigger[u]
  BY <1>1
<1>3. StopTyped'
  BY <1>1
<1>4. CountsDiffer'
  <2>1. \A i \in DOMAIN audit : NowIn(i) => audit[i].n \in Nat /\ audit[i].n <= count
    <3>1. \A i \in DOMAIN audit : audit[i] \in Entries
      OBVIOUS
    <3> QED
      BY <3>1 DEF CountsDiffer, Entries
  <2>2. \A u \in Tasks : Busy(u) => trigger[u].n \in Nat /\ trigger[u].n <= count
    BY DEF CountsDiffer, Triggers
  <2>3. count' > count /\ new.n = count'
    BY <1>1
  <2>4. \A i \in DOMAIN audit : audit[i].life <= lives
    BY DEF CountsDiffer
  <2>5. \A i \in DOMAIN audit' : audit'[i].life <= lives' /\ (NowIn(i)' => audit'[i].n <= count')
    BY <1>1, <2>1, <2>3, <2>4
  <2>6. \A u \in Tasks : Busy(u)' => trigger'[u].n <= count'
    BY <1>1, <1>2, <2>2, <2>3
  <2>7. \A u, v \in Tasks : Busy(u)' /\ Busy(v)' /\ u # v => trigger'[u].n # trigger'[v].n
    BY <1>1, <1>2, <2>2, <2>3 DEF CountsDiffer
  <2>8. \A u \in Tasks, i \in DOMAIN audit' : Busy(u)' /\ NowIn(i)' => audit'[i].n # trigger'[u].n
    BY <1>1, <1>2, <2>1, <2>3 DEF CountsDiffer
  <2> QED
    BY <2>5, <2>6, <2>7, <2>8 DEF CountsDiffer
<1>5. OneFinder'
  BY <1>1, <1>2 DEF OneFinder
<1>6. LatchedOnce'
  BY <1>1 DEF LatchedOnce
<1> QED
  BY <1>3, <1>4, <1>5, <1>6

LEMMA SwapLatchInv ==
  ASSUME StopInv, NEW t \in Tasks, SwapLatch(t)
  PROVE  StopInv'
<1>1. /\ Busy(t) /\ trigger[t].at = "counted" /\ latch' = TRUE
      /\ trigger' = [trigger EXCEPT ![t].at = "latched", ![t].first = ~latch]
      /\ UNCHANGED <<lives, count, commands, audit>>
  BY DEF SwapLatch, Idle, peerVars
<1>2. trigger[t] \in Triggers
  BY <1>1
<1>3. /\ trigger'[t] = [trigger[t] EXCEPT !.at = "latched", !.first = ~latch]
      /\ trigger'[t] \in Triggers
      /\ \A u \in Tasks : u # t => trigger'[u] = trigger[u]
  BY <1>1, <1>2 DEF Triggers
<1>4. trigger'[t].n = trigger[t].n /\ trigger'[t].at = "latched" /\ trigger'[t].first = ~latch
  BY <1>2, <1>3 DEF Triggers
<1>5. StopTyped'
  BY <1>1, <1>3
<1>6. CountsDiffer'
  BY <1>1, <1>3, <1>4 DEF CountsDiffer
<1>7. OneFinder'
  BY <1>1, <1>3, <1>4 DEF OneFinder
<1>8. LatchedOnce'
  BY <1>1 DEF LatchedOnce
<1> QED
  BY <1>5, <1>6, <1>7, <1>8

LEMMA AppendAuditInv ==
  ASSUME StopInv, NEW t \in Tasks, AppendAudit(t)
  PROVE  StopInv'
<1> DEFINE line == AuditLine(t)
<1>1. /\ Busy(t) /\ audit' = Append(audit, line)
      /\ trigger' = [trigger EXCEPT ![t] = NoTrigger]
      /\ UNCHANGED <<lives, count, commands, latch>>
  BY DEF AppendAudit, Idle
<1>2. trigger[t] \in Triggers
  BY <1>1
<1>3. line \in Entries /\ line.life = lives /\ line.n = trigger[t].n
      /\ line.latched = trigger[t].first
  BY <1>2 DEF AuditLine, Entries, Triggers
<1>4. /\ audit' \in Seq(Entries) /\ Len(audit') = Len(audit) + 1
      /\ \A i \in DOMAIN audit : audit'[i] = audit[i]
      /\ audit'[Len(audit) + 1] = line
      /\ DOMAIN audit' = DOMAIN audit \cup {Len(audit) + 1}
      /\ Len(audit) + 1 \notin DOMAIN audit
  BY <1>1, <1>3
<1>5. trigger'[t] = NoTrigger /\ \A u \in Tasks : u # t => trigger'[u] = trigger[u]
  BY <1>1
<1>6. StopTyped'
  BY <1>1, <1>4
<1>7. CountsDiffer'
  BY <1>1, <1>3, <1>4, <1>5 DEF CountsDiffer
<1>8. OneFinder'
  BY <1>1, <1>3, <1>4, <1>5 DEF OneFinder
<1>9. LatchedOnce'
  BY <1>1, <1>3, <1>4 DEF LatchedOnce, CountsDiffer, OneFinder
<1> QED
  BY <1>6, <1>7, <1>8, <1>9

LEMMA AppendFailsInv ==
  ASSUME StopInv, NEW t \in Tasks, AppendFails(t)
  PROVE  StopInv'
<1>1. /\ Busy(t) /\ trigger' = [trigger EXCEPT ![t] = NoTrigger]
      /\ UNCHANGED <<lives, count, commands, latch, audit>>
  BY DEF AppendFails, Idle
<1>2. trigger'[t] = NoTrigger /\ \A u \in Tasks : u # t => trigger'[u] = trigger[u]
  BY <1>1
<1>3. StopTyped'
  BY <1>1
<1>4. CountsDiffer' /\ OneFinder'
  BY <1>1, <1>2 DEF CountsDiffer, OneFinder
<1>5. LatchedOnce'
  BY <1>1 DEF LatchedOnce
<1> QED
  BY <1>3, <1>4, <1>5

LEMMA StopStep == StopInv /\ [EmergencyNext]_emergencyVars => StopInv'
<1> SUFFICES ASSUME StopInv, [EmergencyNext]_emergencyVars PROVE StopInv'
  OBVIOUS
<1> DEFINE Same == UNCHANGED <<lives, latch, count, trigger, audit>>
<1>1. ASSUME Same, commands' \in Seq(Commands) PROVE StopInv'
  BY <1>1 DEF CountsDiffer, OneFinder, LatchedOnce
<1>2. CASE RegisterHandler \/ Sigusr1 \/ UNCHANGED emergencyVars
  BY <1>1, <1>2 DEF RegisterHandler, Sigusr1, Exit, channelVars, emergencyVars, stopVars, peerVars
<1>3. CASE ProcessStep
  <2>1. Same /\ (UNCHANGED commands \/ \E c \in Commands : commands' = Append(commands, c))
    BY <1>3 DEF ProcessStep, Starting, LoopArms, Join, SendOffer, SubscribeEvents, StartFails, Loop,
         HandleAnswer, HandleCandidate, HandleOffer, HandleLoss, FailedWaited, IceFailed, Terminate,
         Exit, CockpitSends, LinkLost, WriteFails, CommandArrives, stopVars, channelVars
  <2> QED
    BY <1>1, <2>1
<1>4. CASE NewLife
  <2>1. /\ lives' = lives + 1 /\ count' = 0 /\ commands' = <<>> /\ UNCHANGED audit
        /\ trigger' = [t \in Tasks |-> NoTrigger]
    BY <1>4 DEF NewLife, StartAgain
  <2>2. \A i \in DOMAIN audit : audit[i].life \in Nat /\ audit[i].life <= lives
    <3>1. \A i \in DOMAIN audit : audit[i] \in Entries
      OBVIOUS
    <3> QED
      BY <3>1 DEF CountsDiffer, Entries
  <2>3. \A i \in DOMAIN audit' : audit'[i].life <= lives' /\ ~NowIn(i)'
    BY <2>1, <2>2
  <2>4. \A t \in Tasks : ~Busy(t)'
    BY <2>1
  <2>5. StopTyped'
    BY <2>1
  <2>6. CountsDiffer' /\ OneFinder'
    BY <2>3, <2>4 DEF CountsDiffer, OneFinder
  <2>7. LatchedOnce'
    BY <2>1 DEF LatchedOnce
  <2> QED
    BY <2>5, <2>6, <2>7
<1>5. CASE RemoteStop
  <2>1. commands # <<>> /\ commands' = Tail(commands) /\ UNCHANGED lives
        /\ BeginTrigger("dc", Head(commands))
    BY <1>5 DEF RemoteStop
  <2>2. Head(commands) \in Commands /\ commands' \in Seq(Commands)
    BY <2>1, HeadTailProperties
  <2> QED
    BY <2>1, <2>2, BeginTriggerInv
<1>6. CASE LocalStop
  BY <1>6, BeginTriggerInv DEF LocalStop, peerVars
<1>7. CASE Triggering
  BY <1>7, SwapLatchInv, AppendAuditInv, AppendFailsInv DEF Triggering
<1> QED
  BY <1>2, <1>3, <1>4, <1>5, <1>6, <1>7 DEF EmergencyNext

(* In each life one trigger at most is recorded as the one that latched, and  *)
(* no two with the same count (emergency.rs: fetch_add, swap, append): for    *)
(* any commands, any number of signals, and kills at any step.                *)
THEOREM OneTriggerLatches == EmergencySpec => []LatchedOnce
<1>1. StopInv => LatchedOnce
  OBVIOUS
<1> QED
  BY StopInitInv, StopStep, <1>1, PTL DEF EmergencySpec

LEMMA AuditStep ==
  StopInv /\ AckedIsAudited /\ [EmergencyNext]_emergencyVars => AckedIsAudited'
<1> SUFFICES ASSUME StopInv, AckedIsAudited, [EmergencyNext]_emergencyVars
             PROVE  AckedIsAudited'
  OBVIOUS
<1>1. CASE UNCHANGED <<acks, warned, audit>>
  BY <1>1 DEF AckedIsAudited
<1>2. ASSUME NEW t \in Tasks, AppendAudit(t) PROVE AckedIsAudited'
  <2>1. /\ audit' = Append(audit, AuditLine(t)) /\ UNCHANGED warned
        /\ acks' = IF t = "dc" THEN acks \cup {trigger[t].seq} ELSE acks
    BY <1>2 DEF AppendAudit
  <2>2. /\ \A i \in DOMAIN audit : i \in DOMAIN audit' /\ audit'[i] = audit[i]
        /\ Len(audit) + 1 \in DOMAIN audit' /\ audit'[Len(audit) + 1] = AuditLine(t)
    BY <2>1
  <2>3. AuditLine(t).source = t /\ AuditLine(t).seq = trigger[t].seq
    BY DEF AuditLine
  <2> QED
    BY <2>1, <2>2, <2>3 DEF AckedIsAudited
<1>3. CASE Triggering
  <2>1. ASSUME NEW t \in Tasks, AppendFails(t) PROVE AckedIsAudited'
    BY <2>1 DEF AppendFails, AckedIsAudited
  <2> QED
    BY <1>1, <1>2, <1>3, <2>1 DEF Triggering, SwapLatch, peerVars
<1>4. CASE ProcessStep
  BY <1>1, <1>4 DEF ProcessStep, Starting, LoopArms, Join, SendOffer, SubscribeEvents, StartFails, Loop,
       HandleAnswer, HandleCandidate, HandleOffer, HandleLoss, FailedWaited, IceFailed, Terminate,
       Exit, CockpitSends, LinkLost, WriteFails, CommandArrives, stopVars, channelVars
<1>5. CASE RegisterHandler \/ NewLife \/ Sigusr1 \/ RemoteStop \/ LocalStop
  BY <1>1, <1>5 DEF RegisterHandler, NewLife, StartAgain, Sigusr1, Exit, RemoteStop, LocalStop,
       BeginTrigger, peerVars, channelVars
<1>6. CASE UNCHANGED emergencyVars
  BY <1>1, <1>6 DEF emergencyVars, peerVars, stopVars
<1> QED
  BY <1>3, <1>4, <1>5, <1>6 DEF EmergencyNext

(* A stop acknowledged without an audit error is in the audit file            *)
(* (emergency.rs: append, then ack), also after the process was killed.       *)
THEOREM AcknowledgedIsAudited == EmergencySpec => []AckedIsAudited
<1>1. StopInit => AckedIsAudited
  BY DEF StopInit, PeerInit, AckedIsAudited
<1> QED
  BY StopInitInv, StopStep, <1>1, AuditStep, PTL DEF EmergencySpec

HIDE DEF StopInv, StopTyped, Busy, NowIn, Tasks

(* What the emergency process does to the process it is built on is a step    *)
(* the controller may take, its end, or a change of its channel alone.        *)
ChannelOnly == UNCHANGED <<stage, link, inbox, iceVars, lives, answers>>
LEMMA EmergencyIsPeer ==
  ASSUME [EmergencyNext]_emergencyVars
  PROVE  [PeerNext]_peerVars \/ Exit \/ ChannelOnly
BY DEF EmergencyNext, RegisterHandler, ProcessStep, Starting, LoopArms, NewLife, Sigusr1, RemoteStop,
   LocalStop, Triggering, SwapLatch, AppendAudit, AppendFails, PeerNext, PeerEnv, emergencyVars, peerVars, ChannelOnly,
   iceVars

LEMMA EmergencyKeepsOrder ==
  IceTyped /\ CandidatesInOrder /\ [EmergencyNext]_emergencyVars => (IceTyped /\ CandidatesInOrder)'
<1> SUFFICES ASSUME IceTyped, CandidatesInOrder, [EmergencyNext]_emergencyVars
             PROVE  (IceTyped /\ CandidatesInOrder)'
  OBVIOUS
<1>1. CASE [PeerNext]_peerVars
  BY <1>1, PeerStep
<1>2. CASE Exit \/ ChannelOnly
  BY <1>2 DEF Exit, ChannelOnly, iceVars, IceTyped, CandidatesInOrder
<1> QED
  BY <1>1, <1>2, EmergencyIsPeer

(* A remote trigger carries a command, a recorded life is one the process has *)
(* had, and who is warned is acknowledged.                                    *)
StopRest ==
  /\ trigger["dc"] # NoTrigger => trigger["dc"].seq \in Commands
  /\ \A i \in DOMAIN audit : audit[i].life # 0
  /\ warned \subseteq acks
  /\ locals \in 0 .. MaxLocal
StopFlags == handler \in BOOLEAN /\ usr1 \in BOOLEAN /\ latch \in BOOLEAN

LEMMA StopRestInit == StopInit => PeerTypeOK /\ StopRest /\ StopFlags
<1>1. StopInit => StopRest
  BY StopAssumption DEF StopInit, StopRest, Tasks
<1>2. StopInit => StopFlags
  BY DEF StopInit, StopFlags
<1> QED
  BY <1>1, <1>2, PeerTypesInit DEF StopInit

LEMMA StopFlagsStep == StopFlags /\ [EmergencyNext]_emergencyVars => StopFlags'
BY DEF StopFlags, EmergencyNext, RegisterHandler, ProcessStep, NewLife, Sigusr1, RemoteStop, LocalStop, BeginTrigger,
   Triggering, SwapLatch, AppendAudit, AppendFails, emergencyVars, stopVars

LEMMA StopRestStep ==
  StopInv /\ PeerTypeOK /\ StopRest /\ [EmergencyNext]_emergencyVars => PeerTypeOK' /\ StopRest'
<1> SUFFICES ASSUME StopInv, PeerTypeOK, StopRest, [EmergencyNext]_emergencyVars
             PROVE  PeerTypeOK' /\ StopRest'
  OBVIOUS
<1>0. /\ trigger \in [Tasks -> Triggers \cup {NoTrigger}] /\ "dc" \in Tasks /\ "local" \in Tasks /\ audit \in Seq(Entries)
      /\ commands \in Seq(Commands) /\ acks \subseteq Commands /\ lives \in 1 .. MaxLives
  BY DEF StopInv, StopTyped, Tasks, PeerTypeOK
<1>1. ASSUME [PeerNext]_peerVars \/ Exit PROVE PeerTypeOK'
  <2>1. CASE Exit
    BY <2>1 DEF Exit, PeerTypeOK, iceVars, channelVars
  <2> QED
    BY <1>1, <2>1, PeerTypesStep
<1>2. ASSUME ChannelOnly, commands' \in Seq(Commands), acks' \subseteq Commands PROVE PeerTypeOK'
  BY <1>2 DEF ChannelOnly, PeerTypeOK, iceVars
<1>3. CASE RegisterHandler \/ UNCHANGED emergencyVars
  BY <1>1, <1>3 DEF RegisterHandler, emergencyVars, stopVars, StopRest, peerVars
<1>4. CASE ProcessStep
  <2>1. PeerNext /\ UNCHANGED stopVars
    BY <1>4 DEF ProcessStep, Starting, LoopArms, PeerNext, PeerEnv
  <2>2. UNCHANGED acks
    BY <1>4 DEF ProcessStep, Starting, LoopArms, Join, SendOffer, SubscribeEvents, StartFails, Loop,
         HandleAnswer, HandleCandidate, HandleOffer, HandleLoss, FailedWaited, IceFailed, Terminate,
         Exit, CockpitSends, LinkLost, WriteFails, CommandArrives, channelVars
  <2> QED
    BY <1>1, <2>1, <2>2 DEF StopRest, stopVars
<1>5. CASE NewLife
  <2>1. StartAgain /\ trigger' = [t \in Tasks |-> NoTrigger] /\ UNCHANGED <<acks, audit, warned, locals>>
    BY <1>5 DEF NewLife, StartAgain
  <2> QED
    BY <1>0, <1>1, <2>1 DEF StopRest, PeerNext
<1>6. CASE Sigusr1
  <2>1. /\ UNCHANGED <<acks, trigger, audit, warned>> /\ locals < MaxLocal /\ locals' = locals + 1
        /\ Exit \/ UNCHANGED peerVars
    BY <1>6 DEF Sigusr1, Exit, channelVars, peerVars
  <2>2. locals' \in 0 .. MaxLocal
    BY <2>1, StopAssumption DEF StopRest
  <2> QED
    BY <1>1, <2>1, <2>2 DEF StopRest
<1>7. CASE RemoteStop
  <2>1. /\ commands # <<>> /\ commands' = Tail(commands) /\ BeginTrigger("dc", Head(commands)) /\ ChannelOnly
        /\ UNCHANGED acks
    BY <1>7 DEF RemoteStop, ChannelOnly
  <2>2. Head(commands) \in Commands /\ Tail(commands) \in Seq(Commands)
    BY <1>0, <2>1, HeadTailProperties
  <2>3. trigger'["dc"].seq = Head(commands) /\ UNCHANGED <<audit, warned, locals>>
    BY <1>0, <2>1 DEF BeginTrigger
  <2>4. StopRest'
    BY <2>1, <2>2, <2>3 DEF StopRest
  <2> QED
    BY <1>0, <1>2, <2>1, <2>2, <2>4
<1>8. CASE LocalStop
  <2>1. BeginTrigger("local", 0) /\ UNCHANGED peerVars
    BY <1>8 DEF LocalStop
  <2>2. trigger'["dc"] = trigger["dc"] /\ UNCHANGED <<audit, warned, locals>>
    BY <1>0, <2>1 DEF BeginTrigger
  <2>3. StopRest'
    BY <2>1, <2>2 DEF StopRest, peerVars
  <2> QED
    BY <1>1, <2>1, <2>3
<1>9. ASSUME NEW t \in Tasks, SwapLatch(t) PROVE PeerTypeOK' /\ StopRest'
  <2>1. /\ trigger' = [trigger EXCEPT ![t].at = "latched", ![t].first = ~latch] /\ trigger[t] # NoTrigger
        /\ UNCHANGED <<peerVars, audit, warned, locals>>
    BY <1>9 DEF SwapLatch, Idle
  <2>2. trigger'["dc"] # NoTrigger => trigger'["dc"].seq = trigger["dc"].seq /\ trigger["dc"] # NoTrigger
    <3>1. trigger[t] \in Triggers
      BY <1>0, <2>1
    <3>2. trigger'[t] = [trigger[t] EXCEPT !.at = "latched", !.first = ~latch]
      BY <1>0, <2>1, <3>1 DEF Triggers
    <3>3. trigger'[t].seq = trigger[t].seq
      BY <3>1, <3>2 DEF Triggers
    <3>4. t # "dc" => trigger'["dc"] = trigger["dc"]
      BY <1>0, <2>1
    <3> QED
      BY <2>1, <3>3, <3>4
  <2>3. StopRest'
    BY <2>1, <2>2 DEF StopRest, peerVars
  <2> QED
    BY <1>1, <2>1, <2>3
<1>10. ASSUME NEW t \in Tasks, AppendAudit(t) PROVE PeerTypeOK' /\ StopRest'
  <2>1. /\ audit' = Append(audit, AuditLine(t)) /\ trigger' = [trigger EXCEPT ![t] = NoTrigger] /\ trigger[t] # NoTrigger
        /\ acks' = IF t = "dc" THEN acks \cup {trigger[t].seq} ELSE acks
        /\ ChannelOnly /\ UNCHANGED <<commands, warned, locals>>
    BY <1>10 DEF AppendAudit, Idle, ChannelOnly
  <2>2. acks' \subseteq Commands /\ acks \subseteq acks'
    BY <1>0, <2>1 DEF StopRest
  <2>3. AuditLine(t).life = lives /\ lives # 0
    BY <1>0 DEF AuditLine
  <2>4. \A i \in DOMAIN audit' : audit'[i] = AuditLine(t) \/ (i \in DOMAIN audit /\ audit'[i] = audit[i])
    BY <1>0, <2>1
  <2>5. trigger'["dc"] # NoTrigger => trigger'["dc"] = trigger["dc"]
    BY <1>0, <2>1
  <2>6. StopRest'
    BY <2>1, <2>2, <2>3, <2>4, <2>5 DEF StopRest
  <2> QED
    BY <1>0, <1>2, <2>1, <2>2, <2>6
<1>11. ASSUME NEW t \in Tasks, AppendFails(t) PROVE PeerTypeOK' /\ StopRest'
  <2>1. /\ trigger' = [trigger EXCEPT ![t] = NoTrigger] /\ trigger[t] # NoTrigger
        /\ IF t = "dc" THEN acks' = acks \cup {trigger[t].seq} /\ warned' = warned \cup {trigger[t].seq}
                       ELSE UNCHANGED <<acks, warned>>
        /\ ChannelOnly /\ UNCHANGED <<commands, audit, locals>>
    BY <1>11 DEF AppendFails, Idle, ChannelOnly
  <2>2. acks' \subseteq Commands /\ warned' \subseteq acks'
    BY <1>0, <2>1 DEF StopRest
  <2>5. trigger'["dc"] # NoTrigger => trigger'["dc"] = trigger["dc"]
    BY <1>0, <2>1
  <2>6. StopRest'
    BY <2>1, <2>2, <2>5 DEF StopRest
  <2> QED
    BY <1>0, <1>2, <2>1, <2>2, <2>6
<1> QED
  BY <1>3, <1>4, <1>5, <1>6, <1>7, <1>8, <1>9, <1>10, <1>11 DEF EmergencyNext, Triggering

LEMMA StopTypesFollow == StopInv /\ PeerTypeOK /\ StopRest /\ StopFlags => StopTypeOK
<1> SUFFICES ASSUME StopInv, PeerTypeOK, StopRest, StopFlags PROVE StopTypeOK
  OBVIOUS
<1>1. \A t \in Tasks : trigger[t] # NoTrigger => trigger[t].at \in {"counted", "latched"}
  BY DEF StopInv, StopTyped, Triggers
<1>2. \A i \in DOMAIN audit : audit[i].life \in 1 .. lives /\ audit[i].source \in Tasks
  <2>1. \A i \in DOMAIN audit : audit[i] \in Entries
    BY DEF StopInv, StopTyped
  <2>2. lives \in Nat
    BY DEF StopInv, StopTyped
  <2>3. \A i \in DOMAIN audit : audit[i].life \in Nat /\ audit[i].source \in Tasks
    BY <2>1 DEF Entries
  <2>4. \A i \in DOMAIN audit : audit[i].life <= lives /\ audit[i].life # 0
    BY DEF StopInv, CountsDiffer, StopRest
  <2> QED
    BY <2>2, <2>3, <2>4
<1> QED
  BY <1>1, <1>2 DEF StopInv, StopTyped, StopRest, StopFlags, StopTypeOK

(* The emergency process keeps its types, and with them those of the process  *)
(* it is built on: for any commands, signals and restarts.                    *)
THEOREM StopKeepsTypes == EmergencySpec => []StopTypeOK
BY StopInitInv, StopStep, StopRestInit, StopRestStep, StopFlagsStep, StopTypesFollow, PTL DEF EmergencySpec
=============================================================================
