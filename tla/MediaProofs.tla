---------------------------- MODULE MediaProofs -----------------------------
(* Theorems about what carries frames and messages: the frame bus, recordings *)
(* and playback, the handles of the C bindings, data channels and tracks, the *)
(* decode path, the media engine and its pacing.                              *)
EXTENDS TopicPublisher, FrameStream, BusHandles, Recorder, Playback, DeckHandles,
        LinkHandles, RtcPeer, DataChannel, TrackSink, VideoTrack, DecodePath,
        PipelineEngine, FramePacing, QueueLemmas, FiniteSetTheorems

-----------------------------------------------------------------------------
(* The publishing side.  A bus that is inside publish() is up, and once its   *)
(* frame is sent it has the publisher; the mark names a bus that is up, or    *)
(* one dropped without close().                                               *)
PublisherInv ==
  /\ PublisherTypeOK
  /\ \A n \in Nodes : publishing[n] # "idle" => bus[n] = "up"
  /\ \A n \in Nodes : publishing[n] = "sent" => holder = n
  /\ \A n \in Nodes : mark = n => bus[n] \in {"up", "dropped"}
  /\ MarkHolds

LEMMA PublisherInitInv == PublisherInit => PublisherInv
BY PublisherAssumption DEF PublisherInit, PublisherInv, PublisherTypeOK, MarkHolds

LEMMA PublisherStep == PublisherInv /\ [PublisherNext]_publisherVars => PublisherInv'
<1> SUFFICES ASSUME PublisherInv, [PublisherNext]_publisherVars PROVE PublisherInv'
  OBVIOUS
<1> USE PublisherAssumption DEF PublisherInv, PublisherTypeOK, MarkHolds, PublishGoes, ReleasedBy
<1>1. ASSUME NEW n \in Nodes, CheckPublisher(n) PROVE PublisherInv'
  BY <1>1 DEF CheckPublisher
<1>2. ASSUME NEW n \in Nodes, SendFrame(n) PROVE PublisherInv'
  BY <1>2 DEF SendFrame
<1>3. ASSUME NEW n \in Nodes, PublishFails(n) PROVE PublisherInv'
  BY <1>3 DEF PublishFails
<1>4. ASSUME NEW n \in Nodes, MarkPublisher(n) PROVE PublisherInv'
  BY <1>4 DEF MarkPublisher
<1>5. ASSUME NEW n \in Nodes, CloseBus(n) PROVE PublisherInv'
  BY <1>5 DEF CloseBus
<1>6. ASSUME NEW n \in Nodes, ReleasePublisher(n) PROVE PublisherInv'
  BY <1>6 DEF ReleasePublisher
<1>7. ASSUME NEW n \in Nodes, DropBus(n) PROVE PublisherInv'
  BY <1>7 DEF DropBus
<1>8. CASE OtherPublisher
  BY <1>8 DEF OtherPublisher
<1>9. CASE UNCHANGED publisherVars
  BY <1>9 DEF publisherVars
<1> QED
  BY <1>1, <1>2, <1>3, <1>4, <1>5, <1>6, <1>7, <1>8, <1>9 DEF PublisherNext, PublishStep

(* The node the registry names has the publisher as long as its bus is there  *)
(* (framebus.rs publish and close, registry/mod.rs): for any number of nodes. *)
THEOREM MarkedNodePublishes == PublisherSpec => [](PublisherTypeOK /\ MarkHolds)
<1>1. PublisherInv => PublisherTypeOK /\ MarkHolds
  BY DEF PublisherInv
<1> QED
  BY PublisherInitInv, PublisherStep, <1>1, PTL DEF PublisherSpec

-----------------------------------------------------------------------------
(* The subscribing side.  What is still on its way, in the subscriber's buffer*)
(* or in the slot, is newer than everything given out, and the buffer newer   *)
(* than the slot.                                                             *)
GivenBelow(f) == \A r \in Receivers : \A i \in DOMAIN got[r] : got[r][i] < f

StreamInv ==
  /\ sent \in Nat /\ sample \in 0 .. sent /\ latest \in 0 .. sent
  /\ got \in [Receivers -> Seq(Nat)]
  /\ \A r \in Receivers : \A i \in DOMAIN got[r] : got[r][i] <= sent
  /\ sample # NoFrame => GivenBelow(sample) /\ latest < sample
  /\ latest # NoFrame => GivenBelow(latest)
  /\ \A r \in Receivers : \A i, j \in DOMAIN got[r] : i < j => got[r][i] < got[r][j]
  /\ \A r, q \in Receivers : r # q =>
       \A i \in DOMAIN got[r], j \in DOMAIN got[q] : got[r][i] # got[q][j]

LEMMA StreamInitInv == StreamInit => StreamInv
BY StreamAssumption DEF StreamInit, StreamInv, NoFrame, GivenBelow

LEMMA StreamInvStep == StreamInv /\ [StreamNext]_streamVars => StreamInv'
<1> SUFFICES ASSUME StreamInv, [StreamNext]_streamVars PROVE StreamInv'
  OBVIOUS
<1> USE DEF StreamInv, NoFrame, GivenBelow, threadVars
<1>1. CASE UNCHANGED <<sent, sample, latest, got>>
  BY <1>1
<1>2. CASE FramePublished
  BY <1>2 DEF FramePublished
<1>3. CASE ConnectionLost
  BY <1>3 DEF ConnectionLost
<1>4. CASE DeliverLatest
  BY <1>4 DEF DeliverLatest
<1>5. CASE Rebuild \/ RebuildFails \/ Shutdown
  BY <1>1, <1>5 DEF Rebuild, RebuildFails, Shutdown
<1>6. ASSUME NEW r \in Receivers, Enable(r) \/ LookShutdown(r) PROVE StreamInv'
  BY <1>1, <1>6 DEF Enable, LookShutdown
<1>7. ASSUME NEW r \in Receivers, TakeFrame(r) PROVE StreamInv'
  <2>1. CASE latest = NoFrame
    BY <1>1, <1>7, <2>1 DEF TakeFrame
  <2>2. CASE latest # NoFrame
    <3>1. latest' = NoFrame /\ got' = [got EXCEPT ![r] = Append(got[r], latest)]
          /\ UNCHANGED <<sent, sample>>
      BY <1>7, <2>2 DEF TakeFrame
    <3>2. got[r] \in Seq(Nat) /\ latest \in Nat
      OBVIOUS
    <3>3. /\ got'[r] = Append(got[r], latest) /\ got'[r] \in Seq(Nat)
          /\ \A q \in Receivers : q # r => got'[q] = got[q]
      BY <3>1, <3>2
    <3>4. /\ DOMAIN got'[r] = DOMAIN got[r] \cup {Len(got[r]) + 1}
          /\ got'[r][Len(got[r]) + 1] = latest
          /\ \A i \in DOMAIN got[r] : i < Len(got[r]) + 1 /\ got'[r][i] = got[r][i]
      BY <3>2, <3>3
    <3>5. got' \in [Receivers -> Seq(Nat)]
      BY <3>1, <3>2
    <3>6. \A q \in Receivers : \A i \in DOMAIN got'[q] : got'[q][i] <= sent'
      BY <3>1, <3>3, <3>4
    <3>7. sample' # NoFrame => \A q \in Receivers : \A i \in DOMAIN got'[q] : got'[q][i] < sample'
      BY <3>1, <3>3, <3>4
    <3>8. \A q \in Receivers : \A i, j \in DOMAIN got'[q] : i < j => got'[q][i] < got'[q][j]
      <4> SUFFICES ASSUME NEW q \in Receivers, NEW i \in DOMAIN got'[q], NEW j \in DOMAIN got'[q], i < j
                   PROVE  got'[q][i] < got'[q][j]
        OBVIOUS
      <4>1. CASE q # r
        BY <3>3, <4>1
      <4>2. CASE q = r /\ j \in DOMAIN got[r]
        <5>1. i \in DOMAIN got[r]
          BY <3>2, <3>4, <4>2
        <5> QED
          BY <3>4, <4>2, <5>1
      <4>3. CASE q = r /\ j = Len(got[r]) + 1
        <5>1. i \in DOMAIN got[r]
          BY <3>2, <3>4, <4>3
        <5>2. got[r][i] < latest
          BY <2>2, <5>1
        <5> QED
          BY <3>4, <4>3, <5>1, <5>2
      <4> QED
        BY <3>4, <4>1, <4>2, <4>3
    <3>9. \A p, q \in Receivers : p # q =>
            \A i \in DOMAIN got'[p], j \in DOMAIN got'[q] : got'[p][i] # got'[q][j]
      <4>1. \A q \in Receivers : \A i \in DOMAIN got[q] : got[q][i] # latest
        <5> SUFFICES ASSUME NEW q \in Receivers, NEW i \in DOMAIN got[q]
                     PROVE  got[q][i] # latest
          OBVIOUS
        <5>1. got[q][i] \in Nat /\ got[q][i] < latest
          BY <2>2
        <5> QED
          BY <5>1, <3>2
      <4> SUFFICES ASSUME NEW p \in Receivers, NEW q \in Receivers, p # q,
                          NEW i \in DOMAIN got'[p], NEW j \in DOMAIN got'[q]
                   PROVE  got'[p][i] # got'[q][j]
        OBVIOUS
      <4>2. CASE p # r /\ q # r
        BY <3>3, <4>2
      <4>3. CASE p = r
        <5>1. q # r /\ got'[q] = got[q] /\ j \in DOMAIN got[q]
          BY <3>3, <4>3
        <5>2. i = Len(got[r]) + 1 => got'[p][i] = latest
          BY <3>4, <4>3
        <5>3. i \in DOMAIN got[r] => got'[p][i] = got[r][i] /\ got[r][i] # got[q][j]
          BY <3>4, <4>3, <5>1
        <5>4. i \in DOMAIN got[r] \/ i = Len(got[r]) + 1
          BY <3>4, <4>3
        <5> QED
          BY <4>1, <5>1, <5>2, <5>3, <5>4
      <4>4. CASE q = r
        <5>1. p # r /\ got'[p] = got[p] /\ i \in DOMAIN got[p]
          BY <3>3, <4>4
        <5>2. j = Len(got[r]) + 1 => got'[q][j] = latest
          BY <3>4, <4>4
        <5>3. j \in DOMAIN got[r] => got'[q][j] = got[r][j] /\ got[p][i] # got[r][j]
          BY <3>4, <4>4, <5>1
        <5>4. j \in DOMAIN got[r] \/ j = Len(got[r]) + 1
          BY <3>4, <4>4
        <5> QED
          BY <4>1, <5>1, <5>2, <5>3, <5>4
      <4> QED
        BY <4>2, <4>3, <4>4
    <3> QED
      BY <3>1, <3>5, <3>6, <3>7, <3>8, <3>9, SMTT(30)
  <2> QED
    BY <2>1, <2>2
<1>8. CASE UNCHANGED streamVars
  BY <1>1, <1>8 DEF streamVars
<1> QED
  BY <1>2, <1>3, <1>4, <1>5, <1>6, <1>7, <1>8 DEF StreamNext, StreamStep, RecvStep

(* Frames are skipped but never repeated or turned back, by one task or       *)
(* between two (frame.rs: recv takes the slot): for any number of tasks,      *)
(* frames, lost connections and rebuilds.                                     *)
THEOREM FramesOnlyGetNewer == StreamSpec => []NewestFirst
<1>1. StreamInv => NewestFirst
  BY DEF StreamInv, NewestFirst, Given, GivenBelow, NoFrame
<1> QED
  BY StreamInitInv, StreamInvStep, <1>1, PTL DEF StreamSpec

-----------------------------------------------------------------------------
(* Types of the bus handles and of a subscriber's stream.                     *)

BusTypes ==
  /\ busHandle \in {"none", "open", "closed", "taken", "freed"}
  /\ subscribing \subseteq Readers /\ busStreams \subseteq Readers
  /\ stHandle \in [Readers -> {"none", "open", "freed"}] /\ stFrame \subseteq Readers
  /\ reader \in [Readers -> {"in", "out"}]
  /\ \A r \in Readers : reader[r] = "in" => stHandle[r] # "none"

(* A stream that was handed out is in the list; a subscription is under way   *)
(* only while the bus is in its handle; and when the handle is freed all of   *)
(* the list has been shut down.                                               *)
BusListed ==
  /\ stDown \subseteq busStreams
  /\ \A r \in Readers : stHandle[r] # "none" => r \in busStreams
  /\ subscribing # {} => busHandle \in {"open", "closed"}
  /\ busHandle = "freed" => busStreams \subseteq stDown

LEMMA BusTypesStep == BusTypes /\ [BusNext]_busVars => BusTypes'
<1> SUFFICES ASSUME BusTypes, [BusNext]_busVars PROVE BusTypes'
  OBVIOUS
<1> USE DEF BusTypes
<1>1. CASE BusAttach \/ BusClose \/ BusTaken \/ BusFreed \/ UNCHANGED busVars
  BY <1>1 DEF BusAttach, BusClose, BusTaken, BusFreed, busVars
<1>2. ASSUME NEW r \in Readers, BusPublish(r) \/ BusSubscribe(r) \/ BusSubscribed(r) \/ StreamDown(r)
      PROVE  BusTypes'
  BY <1>2 DEF BusPublish, BusSubscribe, BusSubscribed, StreamDown
<1>3. ASSUME NEW r \in Readers, RecvEnter(r) \/ RecvReturns(r) \/ RecvOnFreed(r) \/ StreamClose(r)
      PROVE  BusTypes'
  BY <1>3 DEF RecvEnter, RecvReturns, RecvOnFreed, StreamClose
<1> QED
  BY <1>1, <1>2, <1>3 DEF BusNext, BusCloses

LEMMA BusListedStep == BusTypes /\ BusListed /\ [BusNext]_busVars => BusListed'
<1> SUFFICES ASSUME BusTypes, BusListed, [BusNext]_busVars PROVE BusListed'
  OBVIOUS
<1> USE DEF BusTypes, BusListed
<1>1. CASE BusAttach \/ BusClose \/ UNCHANGED busVars
  BY <1>1 DEF BusAttach, BusClose, busVars
<1>2. CASE BusTaken \/ BusFreed
  BY <1>2 DEF BusTaken, BusFreed
<1>3. ASSUME NEW r \in Readers, StreamDown(r) PROVE BusListed'
  BY <1>3 DEF StreamDown
<1>4. ASSUME NEW r \in Readers, BusSubscribe(r) PROVE BusListed'
  BY <1>4 DEF BusSubscribe
<1>5. ASSUME NEW r \in Readers, BusSubscribed(r) PROVE BusListed'
  BY <1>5 DEF BusSubscribed
<1>6. ASSUME NEW r \in Readers, BusPublish(r) \/ RecvEnter(r) \/ RecvReturns(r) \/ RecvOnFreed(r) PROVE BusListed'
  BY <1>6 DEF BusPublish, RecvEnter, RecvReturns, RecvOnFreed
<1>7. ASSUME NEW r \in Readers, StreamClose(r) PROVE BusListed'
  BY <1>7 DEF StreamClose
<1> QED
  BY <1>1, <1>2, <1>3, <1>4, <1>5, <1>6, <1>7 DEF BusNext, BusCloses

LEMMA BusStarts == BusInit => BusTypes /\ BusListed
BY DEF BusInit, BusTypes, BusListed

(* Handles of a bus and its streams keep their types, and no reader is inside *)
(* recv of a stream it was never given (mediaservo-link-c/src/lib.rs).        *)
THEOREM BusKeepsTypes == BusInit /\ [][BusNext]_busVars => []BusTypeOK
<1>1. BusTypes /\ BusListed => BusTypeOK
  BY DEF BusTypes, BusListed, BusTypeOK
<1> QED
  BY BusStarts, BusTypesStep, BusListedStep, <1>1, PTL

(* When bus_close has returned, a thread inside recv of a stream of the bus   *)
(* has been told, also where the subscription was under way as the close      *)
(* began (mediaservo-link-c/src/lib.rs, bus/framebus.rs).                     *)
THEOREM ClosedBusLetsReadersGo == BusInit /\ [][BusNext]_busVars => []ReadersReleased
<1>1. BusTypes /\ BusListed => ReadersReleased
  BY DEF BusTypes, BusListed, ReadersReleased
<1> QED
  BY BusStarts, BusTypesStep, BusListedStep, <1>1, PTL

StreamFrames ==
  /\ sent \in 0 .. MaxSent /\ sample \in 0 .. sent /\ latest \in 0 .. sent
  /\ broken \in 0 .. MaxBroken /\ got \in [Receivers -> Seq(1 .. MaxSent)]
StreamRecvs ==
  /\ connection \in {"ok", "stale", "broken"}
  /\ recv \in [Receivers -> {"idle", "enabled", "empty", "waiting", "none"}]
StreamFlags == (thread \in BOOLEAN) /\ (shutdown \in BOOLEAN) /\ (woken \in [Receivers -> BOOLEAN])

LEMMA StreamFramesStep == StreamFrames /\ [StreamNext]_streamVars => StreamFrames'
<1> SUFFICES ASSUME StreamFrames, [StreamNext]_streamVars PROVE StreamFrames'
  OBVIOUS
<1> USE DEF StreamFrames, threadVars, NoFrame
<1>0. MaxSent \in Nat /\ MaxBroken \in Nat /\ sent \in Nat
  BY StreamAssumption
<1>1. CASE UNCHANGED <<sent, sample, latest, broken, got>>
  BY <1>1
<1>2. CASE FramePublished
  <2>1. /\ sent < MaxSent /\ sent' = sent + 1 /\ (sample' = sent' \/ sample' = sample)
        /\ UNCHANGED <<latest, broken, got>>
    BY <1>2 DEF FramePublished
  <2> QED
    BY <1>0, <2>1
<1>3. CASE ConnectionLost
  <2>1. broken < MaxBroken /\ broken' = broken + 1 /\ sample' = 0 /\ UNCHANGED <<sent, latest, got>>
    BY <1>3 DEF ConnectionLost
  <2> QED
    BY <1>0, <2>1
<1>4. CASE DeliverLatest
  <2>1. latest' = sample /\ sample' = 0 /\ UNCHANGED <<sent, broken, got>>
    BY <1>4 DEF DeliverLatest
  <2> QED
    BY <1>0, <2>1
<1>5. CASE Rebuild \/ RebuildFails \/ Shutdown \/ UNCHANGED streamVars
  BY <1>1, <1>5 DEF Rebuild, RebuildFails, Shutdown, streamVars
<1>6. ASSUME NEW r \in Receivers, Enable(r) \/ LookShutdown(r) PROVE StreamFrames'
  BY <1>1, <1>6 DEF Enable, LookShutdown
<1>7. ASSUME NEW r \in Receivers, TakeFrame(r) PROVE StreamFrames'
  <2>1. CASE latest = 0
    BY <1>1, <1>7, <2>1 DEF TakeFrame
  <2>2. CASE latest # 0
    <3>1. latest' = 0 /\ got' = [got EXCEPT ![r] = Append(got[r], latest)] /\ UNCHANGED <<sent, sample, broken>>
      BY <1>7, <2>2 DEF TakeFrame
    <3>2. latest \in 1 .. MaxSent
      BY <1>0, <2>2
    <3>3. Append(got[r], latest) \in Seq(1 .. MaxSent)
      BY <3>2
    <3> QED
      BY <1>0, <3>1, <3>3
  <2> QED
    BY <2>1, <2>2
<1> QED
  BY <1>2, <1>3, <1>4, <1>5, <1>6, <1>7 DEF StreamNext, StreamStep, RecvStep

LEMMA StreamRecvsStep ==
  /\ StreamRecvs /\ [StreamNext]_streamVars => StreamRecvs'
  /\ StreamFlags /\ [StreamNext]_streamVars => StreamFlags'
<1>1. ASSUME StreamRecvs, [StreamNext]_streamVars PROVE StreamRecvs'
  <2>1. ASSUME NEW r \in Receivers, RecvStep(r) PROVE StreamRecvs'
    BY <1>1, <2>1 DEF StreamRecvs, RecvStep, Enable, TakeFrame, LookShutdown, RecvGoes, threadVars
  <2>2. CASE StreamStep \/ FramePublished \/ ConnectionLost \/ UNCHANGED streamVars
    BY <1>1, <2>2 DEF StreamRecvs, StreamStep, FramePublished, ConnectionLost, DeliverLatest, Rebuild, RebuildFails,
       Shutdown, threadVars, streamVars
  <2> QED
    BY <1>1, <2>1, <2>2 DEF StreamNext
<1>2. ASSUME StreamFlags, [StreamNext]_streamVars PROVE StreamFlags'
  <2>1. /\ UNCHANGED thread \/ thread' = FALSE
        /\ UNCHANGED shutdown \/ shutdown' = TRUE
        /\ UNCHANGED woken \/ WakeAll \/ \E r \in Receivers : woken' = [woken EXCEPT ![r] = FALSE]
    BY <1>2 DEF StreamNext, RecvStep, Enable, TakeFrame, LookShutdown, StreamStep, FramePublished, ConnectionLost,
       DeliverLatest, Rebuild, RebuildFails, Shutdown, threadVars, streamVars
  <2>2. (thread' \in BOOLEAN) /\ (shutdown' \in BOOLEAN)
    BY <1>2, <2>1 DEF StreamFlags
  <2>3. woken' \in [Receivers -> BOOLEAN]
    BY <1>2, <2>1 DEF StreamFlags, WakeAll
  <2> QED
    BY <2>2, <2>3 DEF StreamFlags
<1> QED
  BY <1>1, <1>2

(* A stream of the bus keeps its types: frames are numbered as sent           *)
(* (frame.rs).                                                                *)
THEOREM StreamKeepsTypes == StreamSpec => []StreamTypeOK
<1>1. StreamInit => StreamFrames /\ StreamRecvs
  BY StreamAssumption DEF StreamInit, StreamFrames, StreamRecvs, NoFrame
<1>2. StreamInit => StreamFlags
  BY DEF StreamInit, StreamFlags
<1>3. StreamFrames /\ StreamRecvs /\ StreamFlags => StreamTypeOK
  BY DEF StreamFrames, StreamRecvs, StreamFlags, StreamTypeOK
<1> QED
  BY StreamFramesStep, StreamRecvsStep, <1>1, <1>2, <1>3, PTL DEF StreamSpec

(* A receiver that is not woken and not outside recv() was inside before the  *)
(* step too, unless the step is its own.                                      *)
LEMMA WokenAll ==
  ASSUME StreamFlags, WakeAll, NEW r \in Receivers, ~woken'[r]
  PROVE  recv[r] \notin {"enabled", "empty", "waiting"}
BY DEF WakeAll, StreamFlags

LEMMA SleepersStep ==
  StreamRecvs /\ StreamFlags /\ SleepersWoken /\ [StreamNext]_streamVars => SleepersWoken'
<1> SUFFICES ASSUME StreamRecvs, StreamFlags, SleepersWoken, [StreamNext]_streamVars,
                    NEW r \in Receivers, ~woken'[r]
             PROVE  /\ recv'[r] \in {"empty", "waiting"} => latest' = NoFrame
                    /\ recv'[r] = "waiting" => ~shutdown'
  BY DEF SleepersWoken
<1>1. CASE DeliverLatest \/ Shutdown
  <2>1. recv' = recv /\ recv[r] \notin {"enabled", "empty", "waiting"}
    BY <1>1, WokenAll DEF DeliverLatest, Shutdown
  <2> QED
    BY <2>1
<1>2. CASE Rebuild \/ RebuildFails \/ FramePublished \/ ConnectionLost \/ UNCHANGED streamVars
  BY <1>2 DEF Rebuild, RebuildFails, FramePublished, ConnectionLost, streamVars, threadVars, SleepersWoken
<1>3. ASSUME NEW q \in Receivers, Enable(q)
      PROVE  /\ recv'[r] \in {"empty", "waiting"} => latest' = NoFrame
             /\ recv'[r] = "waiting" => ~shutdown'
  <2>1. /\ recv' = [recv EXCEPT ![q] = "enabled"] /\ woken' = [woken EXCEPT ![q] = FALSE]
        /\ latest' = latest /\ shutdown' = shutdown
    BY <1>3 DEF Enable, RecvGoes
  <2>2. CASE r = q
    BY <2>1, <2>2 DEF StreamRecvs
  <2>3. CASE r # q
    <3>1. recv'[r] = recv[r] /\ ~woken[r]
      BY <2>1, <2>3 DEF StreamRecvs, StreamFlags
    <3> QED
      BY <2>1, <3>1 DEF SleepersWoken
  <2> QED
    BY <2>2, <2>3
<1>4. ASSUME NEW q \in Receivers, TakeFrame(q) \/ LookShutdown(q)
      PROVE  /\ recv'[r] \in {"empty", "waiting"} => latest' = NoFrame
             /\ recv'[r] = "waiting" => ~shutdown'
  <2>1. ~woken[r] /\ shutdown' = shutdown
    BY <1>4 DEF TakeFrame, LookShutdown
  <2>2. latest' = latest \/ latest' = NoFrame
    BY <1>4 DEF TakeFrame, LookShutdown
  <2>3. CASE r # q
    <3>1. recv'[r] = recv[r]
      BY <1>4, <2>3 DEF TakeFrame, LookShutdown, RecvGoes, StreamRecvs
    <3> QED
      BY <2>1, <2>2, <3>1 DEF SleepersWoken
  <2>4. CASE r = q
    <3>1. recv'[r] = "empty" => latest' = NoFrame
      BY <1>4, <2>4 DEF TakeFrame, LookShutdown, RecvGoes, StreamRecvs
    <3>2. recv'[r] = "waiting" => recv[r] = "empty" /\ latest' = latest /\ ~shutdown
      BY <1>4, <2>4 DEF TakeFrame, LookShutdown, RecvGoes, StreamRecvs
    <3> QED
      BY <2>1, <3>1, <3>2 DEF SleepersWoken
  <2> QED
    BY <2>3, <2>4
<1> QED
  BY <1>1, <1>2, <1>3, <1>4 DEF StreamNext, StreamStep, RecvStep

(* No wake-up is lost: a task that found the slot empty and goes to sleep, or *)
(* sleeps, has been notified of every frame and of the shutdown that came     *)
(* since (frame.rs: Notified is enabled before the slot is looked at).        *)
THEOREM NoWakeUpIsLost == StreamSpec => []SleepersWoken
<1>1. StreamInit => StreamRecvs /\ SleepersWoken
  BY DEF StreamInit, StreamRecvs, SleepersWoken
<1>2. StreamInit => StreamFlags
  BY DEF StreamInit, StreamFlags
<1> QED
  BY StreamRecvsStep, SleepersStep, <1>1, <1>2, PTL DEF StreamSpec

-----------------------------------------------------------------------------
(* The recordings of a vehicle.                                               *)

LEMMA PrefixOfConcat ==
  ASSUME NEW S, NEW s \in Seq(S), NEW u \in Seq(S) PROVE IsPrefix(s, s \o u)
<1>1. Len(s) <= Len(s \o u) /\ Len(s) \in Nat /\ s \o u \in Seq(S) /\ Len(u) \in Nat
  BY ConcatProperties
<1>2. SubSeq(s, 1, Len(s)) = s
  BY SubSeqFull
<1>3. SubSeq(s \o u, 1, Len(s)) = s
  <2>1. SubSeq(s \o u, 1, Len(s)) = SubSeq(s, 1, Len(s))
    BY <1>1, SubSeqOfConcat1
  <2> QED
    BY <2>1, <1>2
<1> QED
  BY <1>1, <1>2, <1>3 DEF IsPrefix

Numbers == 1 .. MaxFrames

(* What the thread wrote and what waits for it is what the pump took.  A      *)
(* thread that leaves its loop without stop() has nothing left to take.       *)
RecorderTyped ==
  /\ recMain \in {"create", "ready", "finish", "drop", "exited", "killed"}
  /\ recTask \in [Cameras -> {"none", "spawned", "check", "poll", "join", "done", "dropped"}]
  /\ recRunning \in [Cameras -> BOOLEAN] /\ recStopped \in [Cameras -> BOOLEAN]
  /\ recDry \in [Cameras -> BOOLEAN]
  /\ recWorker \in [Cameras -> {"none", "first", "top", "next", "flush", "closed", "failed"}]

RecorderLife == \A c \in Cameras :
  /\ recTask[c] \in {"none", "spawned"} => recWorker[c] = "none"
  /\ recTask[c] = "done" => WorkerEnded(c)
  /\ recWorker[c] # "none" /\ ~recStopped[c] /\ recTask[c] # "done" => recRunning[c]

RecorderFiles ==
  /\ recTaken \in [Cameras -> Seq(Numbers)] /\ recQueue \in [Cameras -> Seq(Numbers)]
  /\ recFile \in [Cameras -> Seq(Numbers)]
  /\ \A c \in Cameras : /\ recFile[c] \o recQueue[c] = recTaken[c]
                        /\ recWorker[c] \in {"flush", "closed"} /\ ~recStopped[c]
                             => recQueue[c] = <<>> /\ ChannelClosed(c)

LEMMA RecorderInitInv == RecorderInit => RecorderTyped /\ RecorderLife /\ RecorderFiles
<1>1. <<>> \o <<>> = <<>> /\ <<>> \in Seq(Numbers)
  BY ConcatEmptySeq
<1>2. RecorderInit => RecorderTyped
  BY DEF RecorderInit, RecorderTyped
<1>3. RecorderInit => RecorderLife
  BY DEF RecorderInit, RecorderLife
<1>4. RecorderInit => RecorderFiles
  BY <1>1 DEF RecorderInit, RecorderFiles
<1> QED
  BY <1>2, <1>3, <1>4

LEMMA RecorderTypedStep == RecorderTyped /\ [RecorderNext]_recVars => RecorderTyped'
<1> SUFFICES ASSUME RecorderTyped, [RecorderNext]_recVars PROVE RecorderTyped'
  OBVIOUS
<1> USE DEF RecorderTyped, pumpVars, workerVars, PumpAt, PumpGoes, WorkerAt, WorkerGoes, Created
<1>1. CASE RecorderMain
  BY <1>1 DEF RecorderMain, SpawnRecording, AllCreated, CreationFails, Sigterm, StopAll, SigtermEarly,
     AllFinished, FinishTimeout, RuntimeDown
<1>2. ASSUME NEW c \in Cameras, PumpStep(c) \/ SourceEnds(c) PROVE RecorderTyped'
  BY <1>2 DEF PumpStep, BeginRecord, CheckRunning, PollFrame, PollTick, JoinWorker, DropTask, SourceEnds
<1>3. ASSUME NEW c \in Cameras, WorkerStep(c) \/ MuxFails(c) PROVE RecorderTyped'
  BY <1>3 DEF WorkerStep, MuxFrame, LoopTop, NoMoreFrames, WriteTrailer, MuxFails
<1>4. CASE UNCHANGED recVars
  BY <1>4 DEF recVars
<1> QED
  BY <1>1, <1>2, <1>3, <1>4 DEF RecorderNext

LEMMA RecorderLifeStep == RecorderTyped /\ RecorderLife /\ [RecorderNext]_recVars => RecorderLife'
<1> SUFFICES ASSUME RecorderTyped, RecorderLife, [RecorderNext]_recVars PROVE RecorderLife'
  OBVIOUS
<1> USE DEF RecorderTyped, RecorderLife, pumpVars, workerVars, PumpAt, PumpGoes, WorkerAt, WorkerGoes,
        Created, WorkerEnded
<1>1. CASE RecorderMain
  <2>1. CASE SpawnRecording
    BY <2>1 DEF SpawnRecording
  <2>2. CASE CreationFails \/ Sigterm
    BY <2>2 DEF CreationFails, Sigterm, StopAll
  <2>3. CASE AllCreated \/ SigtermEarly \/ AllFinished \/ FinishTimeout \/ RuntimeDown
    BY <2>3 DEF AllCreated, SigtermEarly, AllFinished, FinishTimeout, RuntimeDown
  <2> QED
    BY <1>1, <2>1, <2>2, <2>3 DEF RecorderMain
<1>2. ASSUME NEW c \in Cameras, PumpStep(c) \/ SourceEnds(c) PROVE RecorderLife'
  BY <1>2 DEF PumpStep, BeginRecord, CheckRunning, PollFrame, PollTick, JoinWorker, DropTask, SourceEnds
<1>3. ASSUME NEW c \in Cameras, WorkerStep(c) \/ MuxFails(c) PROVE RecorderLife'
  BY <1>3 DEF WorkerStep, MuxFrame, LoopTop, NoMoreFrames, WriteTrailer, MuxFails
<1>4. CASE UNCHANGED recVars
  BY <1>4 DEF recVars
<1> QED
  BY <1>1, <1>2, <1>3, <1>4 DEF RecorderNext

LEMMA RecorderFilesStep ==
  RecorderTyped /\ RecorderLife /\ RecorderFiles /\ [RecorderNext]_recVars => RecorderFiles'
<1> SUFFICES ASSUME RecorderTyped, RecorderLife, RecorderFiles, [RecorderNext]_recVars
             PROVE  RecorderFiles'
  OBVIOUS
<1> USE DEF RecorderTyped, RecorderFiles, pumpVars, workerVars, PumpAt, PumpGoes, WorkerAt, WorkerGoes,
        Created, ChannelClosed
<1>1. CASE RecorderMain
  BY <1>1 DEF RecorderMain, SpawnRecording, AllCreated, CreationFails, Sigterm, StopAll, SigtermEarly,
     AllFinished, FinishTimeout, RuntimeDown
<1>2. ASSUME NEW c \in Cameras, PumpStep(c) \/ SourceEnds(c) PROVE RecorderFiles'
  <2>1. CASE PollFrame(c) /\ ~WorkerEnded(c)
    <3> DEFINE n == Len(recTaken[c]) + 1
    <3>1. /\ n \in Numbers
          /\ recTaken' = [recTaken EXCEPT ![c] = Append(@, n)]
          /\ recQueue' = [recQueue EXCEPT ![c] = Append(@, n)]
          /\ recTask[c] = "poll" /\ recTask' = [recTask EXCEPT ![c] = "check"]
          /\ UNCHANGED <<recMain, recRunning, recStopped, recWorker, recFile, recDry>>
      BY <2>1, RecorderAssumption DEF PollFrame, Numbers
    <3> HIDE DEF n
    <3>2. /\ Append(recTaken[c], n) \in Seq(Numbers) /\ Append(recQueue[c], n) \in Seq(Numbers)
          /\ Append(recTaken[c], n) = recFile[c] \o Append(recQueue[c], n)
      <4>1. recTaken[c] \in Seq(Numbers) /\ recQueue[c] \in Seq(Numbers) /\ recFile[c] \in Seq(Numbers)
        OBVIOUS
      <4>2. Append(recTaken[c], n) \in Seq(Numbers) /\ Append(recQueue[c], n) \in Seq(Numbers)
        BY <3>1, <4>1, AppendFacts
      <4>3. recTaken[c] = recFile[c] \o recQueue[c]
        OBVIOUS
      <4>4. Append(recTaken[c], n) = recFile[c] \o Append(recQueue[c], n)
        <5>1. n \in Numbers
          BY <3>1
        <5>2. Append(recFile[c] \o recQueue[c], n) = recFile[c] \o Append(recQueue[c], n)
          BY <4>1, <5>1, AppendAfter
        <5> QED
          BY <4>3, <5>2
      <4> QED
        BY <4>2, <4>4
    <3>3. /\ recTaken'[c] = Append(recTaken[c], n) /\ recQueue'[c] = Append(recQueue[c], n)
          /\ \A d \in Cameras \ {c} : recTaken'[d] = recTaken[d] /\ recQueue'[d] = recQueue[d]
          /\ recTaken' \in [Cameras -> Seq(Numbers)] /\ recQueue' \in [Cameras -> Seq(Numbers)]
      BY <3>1, <3>2
    <3>4. recWorker[c] \notin {"flush", "closed"} \/ recStopped[c]
      BY <3>1
    <3> QED
      BY <3>1, <3>2, <3>3, <3>4
  <2>2. CASE ~(PollFrame(c) /\ ~WorkerEnded(c))
    BY <1>2, <2>2 DEF PumpStep, BeginRecord, CheckRunning, PollFrame, PollTick, JoinWorker, DropTask,
       SourceEnds
  <2> QED
    BY <2>1, <2>2
<1>3. ASSUME NEW c \in Cameras, WorkerStep(c) \/ MuxFails(c) PROVE RecorderFiles'
  <2>1. CASE MuxFrame(c)
    <3>1. /\ recQueue[c] # <<>>
          /\ recQueue' = [recQueue EXCEPT ![c] = Tail(@)]
          /\ recFile' = [recFile EXCEPT ![c] = Append(@, Head(recQueue[c]))]
          /\ recWorker' = [recWorker EXCEPT ![c] = "top"]
          /\ UNCHANGED <<recMain, recTask, recRunning, recStopped, recTaken, recDry>>
      BY <2>1 DEF MuxFrame
    <3>2. /\ Tail(recQueue[c]) \in Seq(Numbers) /\ Append(recFile[c], Head(recQueue[c])) \in Seq(Numbers)
          /\ Append(recFile[c], Head(recQueue[c])) \o Tail(recQueue[c]) = recTaken[c]
      <4>1. recTaken[c] \in Seq(Numbers) /\ recQueue[c] \in Seq(Numbers) /\ recFile[c] \in Seq(Numbers)
        OBVIOUS
      <4> QED
        BY <3>1, <4>1, MoveHead, SMTT(30)
    <3> QED
      BY <3>1, <3>2
  <2>2. CASE LoopTop(c) \/ NoMoreFrames(c)
    <3>1. ~recStopped[c] => recRunning[c]
      BY <2>2 DEF LoopTop, NoMoreFrames, RecorderLife, WorkerEnded
    <3>2. CASE LoopTop(c)
      BY <3>1, <3>2 DEF LoopTop
    <3>3. CASE NoMoreFrames(c)
      BY <3>1, <3>3 DEF NoMoreFrames
    <3> QED
      BY <2>2, <3>2, <3>3
  <2>3. CASE WriteTrailer(c) \/ MuxFails(c)
    BY <2>3 DEF WriteTrailer, MuxFails
  <2> QED
    BY <1>3, <2>1, <2>2, <2>3 DEF WorkerStep
<1>4. CASE UNCHANGED recVars
  BY <1>4 DEF recVars
<1> QED
  BY <1>1, <1>2, <1>3, <1>4 DEF RecorderNext

(* Neither the task nor the thread of a recording comes back once they ended. *)
LEMMA ExitsWhenWrittenStep ==
  RecorderTyped /\ RecorderLife /\ ExitsWhenWritten /\ [RecorderNext]_recVars => ExitsWhenWritten'
<1> SUFFICES ASSUME RecorderTyped, RecorderLife, ExitsWhenWritten, [RecorderNext]_recVars
             PROVE  ExitsWhenWritten'
  OBVIOUS
<1> USE DEF RecorderTyped, ExitsWhenWritten, Created, TaskEnded, WorkerEnded, pumpVars, workerVars
<1>1. CASE AllFinished \/ RuntimeDown
  BY <1>1 DEF AllFinished, RuntimeDown, RecorderLife
<1>2. CASE SpawnRecording \/ AllCreated \/ CreationFails \/ Sigterm \/ SigtermEarly \/ FinishTimeout
  BY <1>2 DEF SpawnRecording, AllCreated, CreationFails, Sigterm, StopAll, SigtermEarly, FinishTimeout
<1>3. ASSUME NEW c \in Cameras, PumpStep(c) \/ SourceEnds(c) PROVE ExitsWhenWritten'
  <2>1. recMain' = recMain /\ recMain # "exited"
    BY <1>3 DEF PumpStep, BeginRecord, CheckRunning, PollFrame, PollTick, JoinWorker, DropTask, SourceEnds,
       PumpAt
  <2> QED
    BY <2>1
<1>4. ASSUME NEW c \in Cameras, WorkerStep(c) \/ MuxFails(c) PROVE ExitsWhenWritten'
  <2>1. recMain' = recMain /\ recMain # "exited"
    BY <1>4 DEF WorkerStep, MuxFrame, LoopTop, NoMoreFrames, WriteTrailer, MuxFails, WorkerAt
  <2> QED
    BY <2>1
<1>5. CASE UNCHANGED recVars
  BY <1>5 DEF recVars
<1> QED
  BY <1>1, <1>2, <1>3, <1>4, <1>5 DEF RecorderNext, RecorderMain

(* The recorder exits, in time or after its 30 s, only when the task of every *)
(* recording has ended and its thread has written the trailer or failed       *)
(* (host-recorder.rs: the runtime waits for its blocking threads): for any    *)
(* number of cameras and any moment of the signal.                            *)
THEOREM NoFileIsCutOff == RecorderSpec => []ExitsWhenWritten
<1>1. RecorderInit => ExitsWhenWritten
  BY DEF RecorderInit, ExitsWhenWritten
<1> QED
  BY RecorderInitInv, RecorderTypedStep, RecorderLifeStep, ExitsWhenWrittenStep, <1>1, PTL
     DEF RecorderSpec

(* The file of every recording holds the frames the pump took, in order, and  *)
(* all of them when the source ended it: for any cameras and any frames.      *)
THEOREM FilesKeepFrames == RecorderSpec => [](RecorderTypeOK /\ FileKeepsFrames)
<1>1. RecorderTyped /\ RecorderLife /\ RecorderFiles => RecorderTypeOK
  BY DEF RecorderTyped, RecorderLife, RecorderFiles, RecorderTypeOK, Numbers
<1>2. RecorderFiles => FileKeepsFrames
  <2> SUFFICES ASSUME RecorderFiles, NEW c \in Cameras
               PROVE  /\ IsPrefix(recFile[c], recTaken[c])
                      /\ recDry[c] /\ ~recStopped[c] /\ recTask[c] = "done" /\ recWorker[c] = "closed"
                           => recFile[c] = recTaken[c]
    BY DEF FileKeepsFrames
  <2>1. recQueue[c] \in Seq(Numbers) /\ recFile[c] \in Seq(Numbers) /\ recFile[c] \o recQueue[c] = recTaken[c]
    BY DEF RecorderFiles
  <2>2. IsPrefix(recFile[c], recTaken[c])
    BY <2>1, PrefixOfConcat
  <2>3. recQueue[c] = <<>> => recFile[c] = recTaken[c]
    BY <2>1, ConcatEmptySeq
  <2> QED
    BY <2>2, <2>3 DEF RecorderFiles
<1> QED
  BY RecorderInitInv, RecorderTypedStep, RecorderLifeStep, RecorderFilesStep, <1>1, <1>2, PTL
  DEF RecorderSpec

-----------------------------------------------------------------------------
(* Playing a recording.                                                       *)

(* Frames that can be read have been shown, are in the decoder or are still   *)
(* to be read, in this order; 0 is a packet of another stream.                *)
PacketsRise(p) == \A i, j \in 1 .. Len(p) : i < j /\ p[i] # 0 /\ p[j] # 0 => p[i] < p[j]

PlayOrder(seen, held, p, all) ==
  /\ seen \in Seq(Nat) /\ held \in Seq(Nat) /\ p \in Seq(Nat)
  /\ all = Range(seen) \cup Range(held) \cup (Range(p) \ {0}) /\ 0 \notin all
  /\ Rises(seen) /\ Rises(held) /\ PacketsRise(p)
  /\ \A f \in Range(seen), g \in Range(held) : f < g
  /\ \A f \in Range(seen) \cup Range(held), g \in Range(p) \ {0} : f < g

PlayInv ==
  /\ PlayOrder(shown, decoder, packets, frames)
  /\ answer = "none" => decoder = <<>> /\ packets = <<>>
  /\ delay \in 0 .. MaxDelay /\ Len(decoder) <= delay
  /\ answer \in {"frame", "none", "error", "calling"}
  /\ draining => packets = <<>>

(* The decoder yields its oldest.                                             *)
LEMMA YieldKeepsOrder ==
  ASSUME NEW seen, NEW held, NEW p, NEW all, PlayOrder(seen, held, p, all), held # <<>>
  PROVE  PlayOrder(Append(seen, Head(held)), Tail(held), p, all) /\ Len(Tail(held)) = Len(held) - 1
<1> DEFINE h == Head(held)
<1>1. /\ seen \in Seq(Nat) /\ held \in Seq(Nat) /\ p \in Seq(Nat) /\ Rises(seen) /\ Rises(held)
      /\ all = Range(seen) \cup Range(held) \cup (Range(p) \ {0})
  BY DEF PlayOrder
<1>2. /\ h \in Nat /\ Tail(held) \in Seq(Nat) /\ Len(Tail(held)) = Len(held) - 1
      /\ h = held[1] /\ Len(held) \in Nat \ {0} /\ \A i \in 1 .. Len(held) - 1 : Tail(held)[i] = held[i + 1]
  BY <1>1, TailFacts
<1>3. Append(seen, h) \in Seq(Nat) /\ Len(Append(seen, h)) = Len(seen) + 1 /\ Len(seen) \in Nat
      /\ (\A i \in 1 .. Len(seen) : Append(seen, h)[i] = seen[i]) /\ Append(seen, h)[Len(seen) + 1] = h
  BY <1>1, <1>2, AppendFacts
<1>4. Range(Append(seen, h)) = Range(seen) \cup {h} /\ Range(held) = {h} \cup Range(Tail(held))
  BY <1>1, <1>2, AppendRange, TailRange
<1> HIDE DEF h
<1>5. \A g \in Range(Tail(held)) : h < g
  <2>1. \A i \in 1 .. Len(held) - 1 : h < held[i + 1]
    BY <1>1, <1>2 DEF Rises
  <2>2. Range(Tail(held)) = {Tail(held)[i] : i \in 1 .. Len(Tail(held))}
    BY <1>2, RangeOfQueue
  <2> QED
    BY <1>2, <2>1, <2>2
<1>6. Rises(Tail(held))
  <2>1. \A i, j \in 1 .. Len(held) - 1 :
          i < j => i + 1 \in 1 .. Len(held) /\ j + 1 \in 1 .. Len(held) /\ i + 1 < j + 1
    BY <1>2
  <2> QED
    BY <1>1, <1>2, <2>1 DEF Rises
<1>7. Rises(Append(seen, h))
  <2>1. \A i \in 1 .. Len(seen) : seen[i] \in Range(seen) /\ seen[i] < h
    <3>1. \A i \in 1 .. Len(seen) : seen[i] \in Range(seen)
      BY <1>1, RangeOfQueue
    <3> QED
      BY <1>4, <3>1 DEF PlayOrder
  <2>2. \A i, j \in 1 .. Len(seen) + 1 : i < j => i \in 1 .. Len(seen) /\ (j \in 1 .. Len(seen) \/ j = Len(seen) + 1)
    BY <1>3
  <2> QED
    BY <1>1, <1>3, <2>1, <2>2 DEF Rises
<1>8. all = Range(Append(seen, h)) \cup Range(Tail(held)) \cup (Range(p) \ {0})
  BY <1>1, <1>4
<1>9. \A f \in Range(Append(seen, h)), g \in Range(Tail(held)) : f < g
  BY <1>4, <1>5 DEF PlayOrder
<1>10. \A f \in Range(Append(seen, h)) \cup Range(Tail(held)), g \in Range(p) \ {0} : f < g
  BY <1>4 DEF PlayOrder
<1> QED
  BY <1>1, <1>2, <1>3, <1>6, <1>7, <1>8, <1>9, <1>10 DEF PlayOrder, h

LEMMA PacketsTail ==
  ASSUME NEW p \in Seq(Nat), PacketsRise(p), p # <<>>
  PROVE  PacketsRise(Tail(p)) /\ (Head(p) # 0 => \A g \in Range(Tail(p)) \ {0} : Head(p) < g)
<1>1. /\ Tail(p) \in Seq(Nat) /\ Len(p) \in Nat \ {0} /\ Len(Tail(p)) = Len(p) - 1 /\ Head(p) = p[1]
      /\ \A i \in 1 .. Len(p) - 1 : Tail(p)[i] = p[i + 1]
  BY TailFacts
<1>2. \A i, j \in 1 .. Len(p) - 1 :
        i < j => i + 1 \in 1 .. Len(p) /\ j + 1 \in 1 .. Len(p) /\ i + 1 < j + 1
  BY <1>1
<1>3. PacketsRise(Tail(p))
  BY <1>1, <1>2 DEF PacketsRise
<1>4. \A i \in 1 .. Len(p) - 1 : i + 1 \in 1 .. Len(p) /\ 1 < i + 1 /\ 1 \in 1 .. Len(p)
  BY <1>1
<1>5. Head(p) # 0 => \A i \in 1 .. Len(p) - 1 : Tail(p)[i] # 0 => Head(p) < Tail(p)[i]
  BY <1>1, <1>4 DEF PacketsRise
<1>6. Range(Tail(p)) = {Tail(p)[i] : i \in 1 .. Len(Tail(p))}
  BY <1>1, RangeOfQueue
<1> QED
  BY <1>1, <1>3, <1>5, <1>6

(* The decoder is given the next packet.                                      *)
LEMMA ReadKeepsOrder ==
  ASSUME NEW seen, NEW held, NEW p, NEW all, PlayOrder(seen, held, p, all), p # <<>>, Head(p) # 0
  PROVE  PlayOrder(seen, Append(held, Head(p)), Tail(p), all) /\ Len(Append(held, Head(p))) = Len(held) + 1
<1> DEFINE h == Head(p)
<1>1. /\ seen \in Seq(Nat) /\ held \in Seq(Nat) /\ p \in Seq(Nat) /\ Rises(seen) /\ Rises(held) /\ PacketsRise(p)
      /\ all = Range(seen) \cup Range(held) \cup (Range(p) \ {0})
  BY DEF PlayOrder
<1>2. h \in Nat /\ Tail(p) \in Seq(Nat) /\ Range(p) = {h} \cup Range(Tail(p))
  BY <1>1, TailFacts, TailRange
<1>3. Append(held, h) \in Seq(Nat) /\ Len(Append(held, h)) = Len(held) + 1 /\ Len(held) \in Nat
      /\ (\A i \in 1 .. Len(held) : Append(held, h)[i] = held[i]) /\ Append(held, h)[Len(held) + 1] = h
      /\ Range(Append(held, h)) = Range(held) \cup {h}
  BY <1>1, <1>2, AppendFacts, AppendRange
<1>4. PacketsRise(Tail(p)) /\ \A g \in Range(Tail(p)) \ {0} : h < g
  BY <1>1, PacketsTail
<1>5. h # 0
  OBVIOUS
<1> HIDE DEF h
<1>6. Rises(Append(held, h))
  <2>1. \A i \in 1 .. Len(held) : held[i] < h
    <3>1. \A i \in 1 .. Len(held) : held[i] \in Range(held)
      BY <1>1, RangeOfQueue
    <3> QED
      BY <1>2, <1>5, <3>1 DEF PlayOrder
  <2>2. \A i, j \in 1 .. Len(held) + 1 : i < j => i \in 1 .. Len(held) /\ (j \in 1 .. Len(held) \/ j = Len(held) + 1)
    BY <1>3
  <2> QED
    BY <1>1, <1>3, <2>1, <2>2 DEF Rises
<1>7. all = Range(seen) \cup Range(Append(held, h)) \cup (Range(Tail(p)) \ {0})
  BY <1>1, <1>2, <1>3, <1>5
<1>8. \A f \in Range(seen), g \in Range(Append(held, h)) : f < g
  BY <1>2, <1>3, <1>5 DEF PlayOrder
<1>9. \A f \in Range(seen) \cup Range(Append(held, h)), g \in Range(Tail(p)) \ {0} : f < g
  BY <1>2, <1>3, <1>4 DEF PlayOrder
<1> QED
  BY <1>1, <1>2, <1>3, <1>4, <1>6, <1>7, <1>8, <1>9 DEF PlayOrder, h

(* A packet passed over, and one that cannot be read.                         *)
LEMMA SkipKeepsOrder ==
  ASSUME NEW seen, NEW held, NEW p, NEW all, PlayOrder(seen, held, p, all), p # <<>>
  PROVE  PlayOrder(seen, held, Tail(p), all \ ({Head(p)} \ {0}))
<1>1. /\ seen \in Seq(Nat) /\ held \in Seq(Nat) /\ p \in Seq(Nat) /\ PacketsRise(p)
      /\ all = Range(seen) \cup Range(held) \cup (Range(p) \ {0})
  BY DEF PlayOrder
<1>2. Head(p) \in Nat /\ Tail(p) \in Seq(Nat) /\ Range(p) = {Head(p)} \cup Range(Tail(p))
  BY <1>1, TailFacts, TailRange
<1>3. PacketsRise(Tail(p)) /\ (Head(p) # 0 => \A g \in Range(Tail(p)) \ {0} : Head(p) < g)
  BY <1>1, PacketsTail
<1>4. Range(seen) \subseteq Nat /\ Range(held) \subseteq Nat
  BY <1>1, RangeOfQueue
<1>5. Head(p) # 0 => Head(p) \notin Range(seen) \cup Range(held) \cup (Range(Tail(p)) \ {0})
  <2>1. \A f \in Range(seen) \cup Range(held) : Head(p) # 0 => f < Head(p) /\ f # Head(p)
    BY <1>2, <1>4 DEF PlayOrder
  <2>2. Head(p) # 0 => \A g \in Range(Tail(p)) \ {0} : g # Head(p)
    BY <1>2, <1>3
  <2> QED
    BY <2>1, <2>2
<1>6. all \ ({Head(p)} \ {0}) = Range(seen) \cup Range(held) \cup (Range(Tail(p)) \ {0})
  BY <1>1, <1>2, <1>5
<1>7. \A f \in Range(seen) \cup Range(held), g \in Range(Tail(p)) \ {0} : f < g
  BY <1>2 DEF PlayOrder
<1> QED
  BY <1>2, <1>3, <1>6, <1>7 DEF PlayOrder

LEMMA PlayInitInv == PlaybackInit => PlayInv /\ draining \in BOOLEAN
<1> SUFFICES ASSUME PlaybackInit PROVE PlayInv /\ draining \in BOOLEAN
  OBVIOUS
<1>1. PICK n \in 0 .. MaxPackets, audio \in SUBSET (1 .. MaxPackets) :
        packets = [i \in 1 .. n |-> IF i \in audio THEN 0 ELSE i]
  BY DEF PlaybackInit, Files
<1>2. packets \in Seq(Nat) /\ Len(packets) = n /\ \A i \in 1 .. n : packets[i] = 0 \/ packets[i] = i
  <2>1. n \in Nat
    BY PlaybackAssumption
  <2> QED
    BY <1>1, <2>1, IsASeq
<1>3. PacketsRise(packets)
  BY <1>2 DEF PacketsRise
<1>4. <<>> \in Seq(Nat) /\ Len(<<>>) = 0 /\ Rises(<<>>) /\ Range(<<>>) = {}
  BY EmptyQueue, EmptyRises DEF Range
<1>5. PlayOrder(shown, decoder, packets, frames)
  BY <1>2, <1>3, <1>4 DEF PlaybackInit, PlayOrder, VideoOf
<1>6. draining \in BOOLEAN
  BY DEF PlaybackInit
<1> QED
  BY <1>4, <1>5, <1>6 DEF PlaybackInit, PlayInv

LEMMA DrainingStep == draining \in BOOLEAN /\ [PlaybackNext]_playVars => (draining \in BOOLEAN)'
BY DEF PlaybackNext, CallNextFrame, ReadPacket, EndOfFile, BadPacket, playVars

LEMMA PlayStep == draining \in BOOLEAN /\ PlayInv /\ [PlaybackNext]_playVars => PlayInv'
<1> SUFFICES ASSUME draining \in BOOLEAN, PlayInv, [PlaybackNext]_playVars PROVE PlayInv'
  OBVIOUS
<1>0. /\ decoder \in Seq(Nat) /\ packets \in Seq(Nat) /\ Len(decoder) \in Nat /\ delay \in Nat
      /\ shown \in Seq(Nat)
  BY QueueDomain, PlaybackAssumption DEF PlayInv, PlayOrder
<1>1. CASE CallNextFrame
  BY <1>1 DEF CallNextFrame, PlayInv
<1>2. CASE ReadPacket
  <2>0. /\ packets # <<>> /\ packets' = Tail(packets) /\ UNCHANGED <<frames, delay, draining>> /\ ~draining
        /\ answer = "calling"
    BY <1>2 DEF ReadPacket, PlayInv
  <2>1. CASE Head(packets) = 0
    <3>1. UNCHANGED <<decoder, answer, shown>>
      BY <1>2, <2>1 DEF ReadPacket, Again
    <3>2. frames \ ({Head(packets)} \ {0}) = frames
      BY <2>1
    <3>3. PlayOrder(shown, decoder, packets', frames)
      BY <2>0, <3>2, SkipKeepsOrder DEF PlayInv
    <3> QED
      BY <2>0, <3>1, <3>3 DEF PlayInv
  <2>2. CASE Head(packets) # 0
    <3> DEFINE d == Append(decoder, Head(packets))
    <3>1. PlayOrder(shown, d, packets', frames) /\ Len(d) = Len(decoder) + 1
      BY <2>0, <2>2, ReadKeepsOrder DEF PlayInv
    <3>2. IF d # <<>> /\ (Len(d) > delay \/ draining') THEN Yields(d) ELSE Again(d)
      BY <1>2, <2>2 DEF ReadPacket, Ready
    <3> HIDE DEF d
    <3>3. CASE Len(d) > delay /\ d # <<>>
      <4>1. shown' = Append(shown, Head(d)) /\ decoder' = Tail(d) /\ answer' = "frame"
        BY <3>2, <3>3 DEF Yields
      <4>2. PlayOrder(shown', decoder', packets', frames) /\ Len(decoder') = Len(d) - 1
        BY <3>1, <3>3, <4>1, YieldKeepsOrder
      <4>3. Len(decoder') <= delay
        BY <1>0, <3>1, <4>2 DEF PlayInv
      <4> QED
        BY <2>0, <4>1, <4>2, <4>3 DEF PlayInv
    <3>4. CASE ~(Len(d) > delay /\ d # <<>>)
      <4>1. d # <<>>
        <5>1. d \in Seq(Nat) /\ Len(d) # 0
          BY <1>0, <3>1 DEF PlayOrder
        <5> QED
          BY <5>1, EmptyQueue
      <4>2. decoder' = d /\ UNCHANGED <<answer, shown>>
        BY <2>0, <3>2, <3>4, <4>1 DEF Again
      <4>3. Len(d) <= delay
        BY <1>0, <3>1, <3>4, <4>1
      <4> QED
        BY <2>0, <3>1, <4>2, <4>3 DEF PlayInv
    <3> QED
      BY <3>3, <3>4
  <2> QED
    BY <2>1, <2>2
<1>3. CASE EndOfFile
  <2>0. /\ answer = "calling" /\ packets = <<>> /\ draining' = TRUE /\ UNCHANGED <<packets, frames, delay>>
    BY <1>3 DEF EndOfFile
  <2>1. CASE draining
    BY <1>3, <2>0, <2>1 DEF EndOfFile, PlayInv
  <2>2. CASE ~draining /\ decoder # <<>>
    <3>1. shown' = Append(shown, Head(decoder)) /\ decoder' = Tail(decoder) /\ answer' = "frame"
      BY <1>3, <2>0, <2>2 DEF EndOfFile, Ready, Yields
    <3>2. PlayOrder(shown', decoder', packets, frames) /\ Len(decoder') = Len(decoder) - 1
      BY <2>2, <3>1, YieldKeepsOrder DEF PlayInv
    <3>3. Len(decoder') <= delay
      BY <1>0, <3>2 DEF PlayInv
    <3> QED
      BY <2>0, <3>1, <3>2, <3>3 DEF PlayInv
  <2>3. CASE ~draining /\ decoder = <<>>
    <3>1. decoder' = decoder /\ answer' = "none" /\ UNCHANGED shown
      BY <1>3, <2>0, <2>3 DEF EndOfFile, Ready, EndAtOnce
    <3> QED
      BY <2>0, <2>3, <3>1 DEF PlayInv
  <2> QED
    BY <2>1, <2>2, <2>3
<1>4. CASE BadPacket
  <2>0. /\ packets # <<>> /\ packets' = Tail(packets) /\ frames' = frames \ {Head(packets)} /\ answer' = "error"
        /\ UNCHANGED <<delay, decoder, draining, shown>>
    BY <1>4 DEF BadPacket
  <2>1. PlayOrder(shown, decoder, packets', frames \ ({Head(packets)} \ {0}))
    BY <2>0, SkipKeepsOrder DEF PlayInv
  <2>2. frames' = frames \ ({Head(packets)} \ {0})
    <3>1. 0 \notin frames
      BY DEF PlayInv, PlayOrder
    <3> QED
      BY <2>0, <3>1
  <2> QED
    BY <2>0, <2>1, <2>2 DEF PlayInv
<1>5. CASE UNCHANGED playVars
  BY <1>5 DEF playVars, PlayInv
<1> QED
  BY <1>1, <1>2, <1>3, <1>4, <1>5 DEF PlaybackNext

(* Frames come in the order of the file, none twice and none left out, and    *)
(* None is answered only when all have come: for any file and any delay.      *)
THEOREM PlayedInOrder == PlaybackSpec => [](PlaybackTypeOK /\ NoneMeansAll)
<1>1. PlayInv /\ draining \in BOOLEAN => PlaybackTypeOK
  BY DEF PlayInv, PlaybackTypeOK
<1>2. PlayInv => NoneMeansAll
  <2> SUFFICES ASSUME PlayInv PROVE NoneMeansAll
    OBVIOUS
  <2>1. /\ shown \in Seq(Nat) /\ Rises(shown) /\ Range(shown) \subseteq Nat
        /\ frames = Range(shown) \cup Range(decoder) \cup (Range(packets) \ {0})
    BY RangeOfQueue DEF PlayInv, PlayOrder
  <2>2. \A i, j \in DOMAIN shown : i < j => shown[i] < shown[j]
    BY <2>1, QueueDomain DEF Rises
  <2>3. ASSUME NEW f \in frames, NEW g \in Range(shown), f <= g PROVE f \in Range(shown)
    <3>1. frames \subseteq Nat
      BY RangeOfQueue DEF PlayInv, PlayOrder
    <3>2. f \notin Range(shown) => g < f
      BY <2>1 DEF PlayInv, PlayOrder
    <3> QED
      BY <2>1, <2>3, <3>1, <3>2
  <2>4. answer = "none" => Range(shown) = frames
    <3>1. Range(<<>>) = {}
      BY EmptyQueue DEF Range
    <3> QED
      BY <2>1, <3>1 DEF PlayInv
  <2> QED
    BY <2>1, <2>2, <2>3, <2>4 DEF NoneMeansAll
<1> QED
  BY PlayInitInv, PlayStep, DrainingStep, <1>1, <1>2, PTL DEF PlaybackSpec

-----------------------------------------------------------------------------
(* The handles of mediaservo-deck-c.                                          *)

DeckFlags == (camStop \in BOOLEAN) /\ (camCb \in BOOLEAN)

(* What has not been started runs nothing, what is closed nothing any more.   *)
DeckInv ==
  /\ camera \in {"none", "open", "started", "closed"}
  /\ camPump \in {"none", "polling", "callback", "bridge", "stuck", "done"}
  /\ bridge \in Recorders \cup {NoRecorder}
  /\ recorder \in [Recorders -> {"none", "ready", "taken", "closed"}]
  /\ takeTask \in [Recorders -> {"none", "spawned", "running", "ended"}]
  /\ \A r \in Recorders : bridge = r => takeTask[r] # "none"
  /\ player \in {"none", "open", "taken", "closed"}
  /\ plPump \in {"none", "decoding", "callback", "done"}
  /\ inCall \in {"none", "camera", "player"} \cup Recorders
  /\ camera \in {"none", "open"} => camPump = "none"
  /\ camera = "closed" => camPump \in {"none", "done"} /\ bridge = NoRecorder
  /\ \A r \in Recorders : recorder[r] = "closed" => takeTask[r] \in {"none", "ended"}
  /\ player \in {"none", "open"} => plPump = "none"
  /\ player = "closed" => plPump \in {"none", "done"}
  /\ plPump = "done" => undecoded = 0

LEMMA DeckFlagsKept ==
  /\ DeckInit => DeckFlags
  /\ DeckFlags /\ [DeckNext]_deckVars => DeckFlags'
<1>1. DeckInit => DeckFlags
  BY DEF DeckInit, DeckFlags
<1>2. ASSUME DeckFlags, [DeckNext]_deckVars PROVE DeckFlags'
  <2>1. UNCHANGED <<camStop, camCb>> \/ (camStop' = TRUE /\ UNCHANGED camCb) \/ (camCb' = TRUE /\ UNCHANGED camStop)
    BY <1>2
    DEF DeckNext, deckVars, camVars, CameraCalls, CameraPump, RecorderCalls, RecordingTasks, PlayerCalls,
        PlayerPump, CameraOpen, CameraStart, CameraFramesCb, CameraStop, CameraClose, CameraFreed, PumpPoll,
        CallbackReturns, PumpBridge, RecorderNew, RecorderRecord, RecorderStop, RecorderClose, RecorderFreed,
        TaskStep, EncoderFails, PlayerOpen, PlayerFramesCb, PlayerClose, PlayerFreed, DecodeNextFrame,
        PlayerCallbackReturns
  <2> QED
    BY <1>2, <2>1 DEF DeckFlags
<1> QED
  BY <1>1, <1>2

LEMMA DeckStep == DeckInv /\ [DeckNext]_deckVars => DeckInv'
<1> SUFFICES ASSUME DeckInv, [DeckNext]_deckVars PROVE DeckInv'
  OBVIOUS
<1> USE DeckAssumption DEF DeckInv, camVars, takeVars, plVars, Free
<1>1. CASE CameraCalls
  BY <1>1 DEF CameraCalls, CameraOpen, CameraStart, CameraFramesCb, CameraStop, CameraClose, CameraFreed
<1>2. CASE CameraPump
  BY <1>2 DEF CameraPump, PumpPoll, CallbackReturns, PumpBridge
<1>3. ASSUME NEW r \in Recorders, RecorderRecord(r) PROVE DeckInv'
  BY <1>3 DEF RecorderRecord
<1>4. ASSUME NEW r \in Recorders, RecorderNew(r) \/ RecorderStop(r) \/ RecorderClose(r) \/ RecorderFreed(r)
      PROVE  DeckInv'
  BY <1>4 DEF RecorderNew, RecorderStop, RecorderClose, RecorderFreed
<1>5. ASSUME NEW r \in Recorders, TaskStep(r) \/ EncoderFails(r) PROVE DeckInv'
  BY <1>5 DEF TaskStep, EncoderFails
<1>6. CASE PlayerCalls
  BY <1>6 DEF PlayerCalls, PlayerOpen, PlayerFramesCb, PlayerClose, PlayerFreed
<1>7. CASE PlayerPump
  BY <1>7 DEF PlayerPump, DecodeNextFrame, PlayerCallbackReturns
<1>8. CASE UNCHANGED deckVars
  BY <1>8 DEF deckVars
<1> QED
  BY <1>1, <1>2, <1>3, <1>4, <1>5, <1>6, <1>7, <1>8 DEF DeckNext, RecorderCalls, RecordingTasks

(* A close leaves nothing of its handle running: for any recorders, frames    *)
(* and lengths of file.                                                       *)
THEOREM ClosedHandlesRest == DeckInit /\ [][DeckNext]_deckVars => [](DeckTypeOK /\ CloseIsFinal)
<1>1. DeckInit => DeckInv
  BY DeckAssumption DEF DeckInit, DeckInv
<1>2. DeckFlags /\ DeckInv => DeckTypeOK
  BY DEF DeckFlags, DeckInv, DeckTypeOK
<1>3. DeckInv => CloseIsFinal
  BY DEF DeckInv, CloseIsFinal
<1> QED
  BY DeckStep, DeckFlagsKept, <1>1, <1>2, <1>3, PTL

-----------------------------------------------------------------------------
(* The C handle of a signalling session.                                      *)

SigFlags == sigEnded \in BOOLEAN /\ sigCb \in BOOLEAN /\ sigOpened \in BOOLEAN /\ sigCallback \in BOOLEAN

LEMMA SigFlagsKept ==
  /\ SigInit => SigFlags
  /\ SigFlags /\ [SigNext]_sigVars => SigFlags'
<1> USE DEF SigFlags
<1>1. SigInit => SigFlags
  BY DEF SigInit
<1>2. ASSUME SigFlags, [SigNext]_sigVars PROVE SigFlags'
  BY <1>2 DEF SigNext, SigCalls, SigSession, SigPumpStep, SigConnect, OnEvent, SigClose, SigFreed,
     SessionPosts, SessionEnds, SigDeliver, UserReturns, TakeEvent, sigVars
<1> QED
  BY <1>1, <1>2

(* Up to the event in hand, heard; after it and up to the last one posted,    *)
(* waiting.  An event that the pump has yet to deliver has not been heard.    *)
SigInv ==
  /\ sigState \in {"none", "open", "closing", "freed"}
  /\ sigPump \in {"none", "greet", "loop", "call", "done"}
  /\ sigCallback => sigPump \in {"greet", "call"}
  /\ sigInbox \in Seq(Int) /\ sigHeard \in Seq(Int) /\ sigHeld \in Nat /\ sigPosted \in Nat
  /\ Len(sigInbox) <= EventsBuffered /\ sigPosted <= MaxHeard /\ sigHeld <= sigPosted
  /\ Rises(sigHeard) /\ Between(sigHeard, -1, sigHeld)
  /\ Rises(sigInbox) /\ Between(sigInbox, sigHeld, sigPosted)
  /\ sigPump \in {"greet", "call"} /\ ~sigCallback => Between(sigHeard, -1, sigHeld - 1)
  /\ sigPump = "none" => sigHeard = <<>> /\ sigHeld = 0
  /\ sigPump = "greet" => sigHeld = 0
  /\ sigOpened /\ sigHeard = <<>> => sigCb /\ sigPump = "greet" /\ ~sigCallback
  /\ sigOpened /\ sigHeard # <<>> => sigHeard[1] = 0
  /\ sigState = "freed" => sigPump \in {"none", "done"}

LEMMA SigInitInv == SigInit => SigInv
<1>1. <<>> \in Seq(Int) /\ Len(<<>>) = 0
  BY EmptyQueue
<1>2. Rises(<<>>) /\ \A low, high : Between(<<>>, low, high)
  BY EmptyRises
<1> QED
  BY <1>1, <1>2, LinkHandleAssumption DEF SigInit, SigInv

LEMMA SigStep == SigFlags /\ SigInv /\ [SigNext]_sigVars => SigInv'
<1> SUFFICES ASSUME SigFlags, SigInv, [SigNext]_sigVars PROVE SigInv'
  OBVIOUS
<1> USE LinkHandleAssumption DEF SigInv
<1>1. CASE SigConnect \/ SigClose \/ SigFreed \/ SessionEnds
  BY <1>1 DEF SigConnect, SigClose, SigFreed, SessionEnds
<1>2. ASSUME NEW given \in BOOLEAN, OnEvent(given) PROVE SigInv'
  <2>1. Between(<<>>, -1, -1)
    BY EmptyRises
  <2>2. CASE sigPump = "none"
    BY <1>2, <2>1, <2>2 DEF OnEvent, SigFlags
  <2>3. CASE sigPump # "none"
    BY <1>2, <2>3 DEF OnEvent
  <2> QED
    BY <2>2, <2>3
<1>4. CASE SessionPosts
  <2> DEFINE all == Append(sigInbox, sigPosted + 1)
  <2>1. all \in Seq(Int) /\ Len(all) = Len(sigInbox) + 1 /\ all # <<>>
    <3>1. sigPosted + 1 \in Int /\ sigInbox \in Seq(Int) /\ Len(sigInbox) \in Nat
      OBVIOUS
    <3>2. all \in Seq(Int) /\ Len(all) = Len(sigInbox) + 1
      BY <3>1, AppendFacts, SMTT(30)
    <3> HIDE DEF all
    <3>3. all # <<>>
      BY <3>1, <3>2, EmptyQueue
    <3> QED
      BY <3>2, <3>3
  <2>2. Rises(all) /\ Between(all, sigHeld, sigPosted + 1)
    BY AppendRises
  <2>3. Tail(all) \in Seq(Int) /\ Len(Tail(all)) = Len(all) - 1
    BY <2>1, TailFacts
  <2>4. Rises(Tail(all)) /\ Between(Tail(all), sigHeld, sigPosted + 1)
    <3> HIDE DEF all
    <3>1. sigPosted + 1 \in Int /\ sigHeld \in Int
      OBVIOUS
    <3> QED
      BY <2>1, <2>2, <3>1, TailRises
  <2>5. /\ sigPosted' = sigPosted + 1 /\ sigPosted < MaxHeard
        /\ sigInbox' = IF Len(all) > EventsBuffered THEN Tail(all) ELSE all
        /\ UNCHANGED <<sigState, sigEnded, sigCb, sigPump, sigHeld, sigHeard, sigOpened, sigCallback>>
    BY <1>4 DEF SessionPosts
  <2> HIDE DEF all
  <2>6. /\ sigInbox' \in Seq(Int) /\ Len(sigInbox') <= EventsBuffered
        /\ Rises(sigInbox') /\ Between(sigInbox', sigHeld, sigPosted + 1)
    BY <2>1, <2>2, <2>3, <2>4, <2>5
  <2> QED
    BY <2>5, <2>6
<1>6. CASE SigDeliver
  <2>1. CASE sigCb
    <3>1. /\ sigHeard' = Append(sigHeard, sigHeld) /\ sigCallback' = TRUE /\ ~sigCallback
          /\ sigPump \in {"greet", "call"}
          /\ UNCHANGED <<sigState, sigEnded, sigCb, sigPump, sigHeld, sigInbox, sigPosted, sigOpened>>
      BY <1>6, <2>1 DEF SigDeliver
    <3>2. Rises(sigHeard') /\ Between(sigHeard', -1, sigHeld)
      BY <3>1, AppendRises
    <3>3. /\ sigHeard' \in Seq(Int) /\ sigHeard' # <<>> /\ Len(sigHeard) \in Nat
          /\ \A i \in 1 .. Len(sigHeard) : sigHeard'[i] = sigHeard[i]
          /\ sigHeard'[Len(sigHeard) + 1] = sigHeld
      BY <3>1, AppendFacts
    <3>4. ASSUME sigOpened PROVE sigHeard'[1] = 0
      <4>1. CASE sigHeard = <<>>
        BY <3>3, <3>4, <4>1, EmptyQueue
      <4>2. CASE sigHeard # <<>>
        <5>1. Len(sigHeard) # 0 /\ sigHeard[1] = 0
          BY <3>1, <3>4, <4>2, QueueDomain
        <5>2. 1 \in 1 .. Len(sigHeard)
          BY <3>3, <5>1
        <5> QED
          BY <3>3, <5>1, <5>2
      <4> QED
        BY <4>1, <4>2
    <3> QED
      BY <3>1, <3>2, <3>3, <3>4
  <2>2. CASE ~sigCb
    BY <1>6, <2>2 DEF SigDeliver
  <2> QED
    BY <2>1, <2>2
<1>7. CASE UserReturns
  BY <1>7 DEF UserReturns
<1>8. CASE TakeEvent
  <2>1. CASE sigState # "open" \/ (sigInbox = <<>> /\ sigEnded)
    BY <1>8, <2>1 DEF TakeEvent
  <2>2. CASE ~(sigState # "open" \/ (sigInbox = <<>> /\ sigEnded))
    <3>1. /\ sigInbox # <<>> /\ sigHeld' = Head(sigInbox) /\ sigInbox' = Tail(sigInbox) /\ sigPump' = "call"
          /\ sigPump = "loop" /\ sigState = "open"
          /\ UNCHANGED <<sigState, sigEnded, sigCb, sigPosted, sigHeard, sigOpened, sigCallback>>
      BY <1>8, <2>2 DEF TakeEvent
    <3>2. sigInbox' \in Seq(Int) /\ Len(sigInbox') = Len(sigInbox) - 1 /\ Len(sigInbox) \in Nat
      BY <3>1, TailFacts
    <3>3. /\ Rises(sigInbox') /\ Between(sigInbox', sigHeld', sigPosted)
          /\ sigHeld < sigHeld' /\ sigHeld' <= sigPosted /\ sigHeld' \in Int
      BY <3>1, TailRises
    <3>4. Between(sigHeard, -1, sigHeld' - 1) /\ Between(sigHeard, -1, sigHeld')
      BY <3>3, BetweenWidens
    <3> QED
      BY <3>1, <3>2, <3>3, <3>4
  <2> QED
    BY <2>1, <2>2
<1>9. CASE UNCHANGED sigVars
  BY <1>9 DEF sigVars
<1> QED
  BY <1>1, <1>2, <1>4, <1>6, <1>7, <1>8, <1>9 DEF SigNext, SigCalls, SigSession, SigPumpStep

(* What the handle keeps fits together, it is freed only when its pump has    *)
(* ended, and the callback hears events in the order they were posted.        *)
THEOREM HandleHearsInOrder ==
  SigInit /\ [][SigNext]_sigVars => [](SigTypeOK /\ PumpEndsFirst /\ HeardInOrder)
<1>1. SigFlags /\ SigInv => SigTypeOK /\ PumpEndsFirst
  BY DEF SigInv, SigFlags, SigTypeOK, PumpEndsFirst
<1>2. SigInv => HeardInOrder
  BY QueueDomain DEF SigInv, HeardInOrder, Rises
<1> QED
  BY SigInitInv, SigStep, SigFlagsKept, <1>1, <1>2, PTL

-----------------------------------------------------------------------------
(* The tracks of a peer connection.                                           *)

RtcFlags == rtcLocal \in BOOLEAN /\ rtcOnTrack \in BOOLEAN /\ rtcState \in {"stable", "offered", "answering", "closed"}

Named == {i \in TrackIds : rtcTable[i] # 0}
SenderRecords == [media : 0 .. MaxMedia, asked : 0 .. MaxMedia, tuned : BOOLEAN]

SendersOK(t, most) ==
  /\ t \in Seq(SenderRecords)
  /\ \A i \in 1 .. Len(t) : t[i].media <= most
  /\ \A i, j \in 1 .. Len(t) : i # j /\ t[i].media # 0 => t[i].media # t[j].media

StageOK(s, most) == s \in Seq(1 .. most) /\ \A i, j \in 1 .. Len(s) : i # j => s[i] # s[j]

Carries(t, m) == \E i \in 1 .. Len(t) : t[i].media = m
Waits(s, m) == \E i \in 1 .. Len(s) : s[i] = m

(* A track is staged once or sent once, not both; what the table names is     *)
(* sent, or is the track of the call under way and still staged, unless the   *)
(* connection is closed.                                                      *)
RtcInv ==
  /\ rtcMedia \in Seq(TrackKinds) /\ Len(rtcMedia) <= MaxMedia
  /\ rtcTable \in [TrackIds -> 0 .. Len(rtcMedia)] /\ rtcAdding \subseteq TrackIds
  /\ IsFiniteSet(Named) /\ Cardinality(Named) <= MaxTracks
  /\ rtcReceivers \in Seq([sink : BOOLEAN, fed : BOOLEAN])
  /\ SendersOK(rtcSenders, Len(rtcMedia)) /\ StageOK(rtcStaged, Len(rtcMedia))
  /\ \A i \in 1 .. Len(rtcStaged) : ~Carries(rtcSenders, rtcStaged[i])
  /\ rtcState # "closed" =>
       \A id \in TrackIds : rtcTable[id] # 0 =>
         Carries(rtcSenders, rtcTable[id]) \/ (id \in rtcAdding /\ Waits(rtcStaged, rtcTable[id]))

LEMMA RtcFlagsKept ==
  /\ RtcInit => RtcFlags
  /\ RtcFlags /\ [RtcNext]_rtcVars => RtcFlags' /\ (rtcState = "closed" => rtcState' = "closed")
<1>1. RtcInit => RtcFlags
  BY DEF RtcInit, RtcFlags
<1>2. ASSUME RtcFlags, [RtcNext]_rtcVars PROVE RtcFlags' /\ (rtcState = "closed" => rtcState' = "closed")
  BY <1>2 DEF RtcFlags, RtcNext, rtcVars, AddTrack, RegisterTrack, RemoveTrack, Tune, MakeSender,
     AddTransceiverWithTrack, AddTransceiver, SetLocalDescription, SetRemoteDescription, CloseConnection,
     SetOnTrack, OnTrack, SetFrameSink
<1> QED
  BY <1>1, <1>2

LEMMA RtcInitInv == RtcInit => RtcInv
<1> SUFFICES ASSUME RtcInit PROVE RtcInv
  OBVIOUS
<1>1. /\ <<>> \in Seq(TrackKinds) /\ <<>> \in Seq([sink : BOOLEAN, fed : BOOLEAN]) /\ <<>> \in Seq(SenderRecords)
      /\ <<>> \in Seq(1 .. 0) /\ Len(<<>>) = 0
  BY EmptyQueue
<1>2. Named = {}
  BY DEF RtcInit, Named
<1>3. IsFiniteSet(Named) /\ Cardinality(Named) <= MaxTracks
  BY <1>2, FS_EmptySet, RtcAssumption
<1>4. SendersOK(<<>>, 0) /\ StageOK(<<>>, 0)
  BY <1>1 DEF SendersOK, StageOK
<1> QED
  BY <1>1, <1>3, <1>4, RtcAssumption DEF RtcInit, RtcInv

(* A sender more, for a track no other sender has.                            *)
LEMMA OneSenderMore ==
  ASSUME NEW q, NEW most \in Nat, SendersOK(q, most), NEW s \in SenderRecords, s.media <= most,
         s.media = 0 \/ ~Carries(q, s.media)
  PROVE  /\ SendersOK(Append(q, s), most)
         /\ \A m : Carries(Append(q, s), m) <=> Carries(q, m) \/ m = s.media
<1> DEFINE t == Append(q, s)
<1>1. /\ t \in Seq(SenderRecords) /\ Len(t) = Len(q) + 1 /\ Len(q) \in Nat
      /\ \A i \in 1 .. Len(q) : t[i] = q[i] /\ q[i] \in SenderRecords
      /\ t[Len(q) + 1] = s
  BY AppendFacts DEF SendersOK
<1> HIDE DEF t
<1>2. \A i \in 1 .. Len(t) : i \in 1 .. Len(q) \/ i = Len(q) + 1
  BY <1>1
<1>3. \A i \in 1 .. Len(q) : i \in 1 .. Len(t)
  BY <1>1
<1>4. Len(q) + 1 \in 1 .. Len(t)
  BY <1>1
<1>5. ASSUME NEW i \in 1 .. Len(t) PROVE t[i].media <= most
  BY <1>1, <1>2 DEF SendersOK
<1>6. ASSUME NEW i \in 1 .. Len(t), NEW j \in 1 .. Len(t), i # j, t[i].media # 0 PROVE t[i].media # t[j].media
  <2>1. CASE i \in 1 .. Len(q) /\ j \in 1 .. Len(q)
    BY <1>1, <1>6, <2>1 DEF SendersOK
  <2>2. CASE i = Len(q) + 1 /\ j \in 1 .. Len(q)
    BY <1>1, <1>6, <2>2 DEF Carries
  <2>3. CASE i \in 1 .. Len(q) /\ j = Len(q) + 1
    BY <1>1, <1>6, <2>3 DEF Carries
  <2> QED
    BY <1>2, <1>6, <2>1, <2>2, <2>3
<1>7. SendersOK(t, most)
  BY <1>1, <1>5, <1>6 DEF SendersOK
<1>8. \A m : Carries(t, m) <=> Carries(q, m) \/ m = s.media
  BY <1>1, <1>2, <1>3, <1>4 DEF Carries
<1> QED
  BY <1>7, <1>8 DEF t

(* What is staged goes to senders of its own.                                 *)
LEMMA StageAttached ==
  ASSUME NEW q, NEW s, NEW most \in Nat, most <= MaxMedia, SendersOK(q, most), StageOK(s, most),
         \A i \in 1 .. Len(s) : ~Carries(q, s[i]),
         NEW t, t = q \o [i \in DOMAIN s |-> Sender(Reverse(s)[i], 0)]
  PROVE  SendersOK(t, most) /\ \A m : Carries(t, m) <=> Carries(q, m) \/ Waits(s, m)
<1> DEFINE new == [i \in DOMAIN s |-> Sender(Reverse(s)[i], 0)]
           back(i) == Len(s) - i + 1
<1>1. s \in Seq(1 .. most) /\ DOMAIN s = 1 .. Len(s) /\ Len(s) \in Nat
  BY QueueDomain DEF StageOK
<1>2. \A i \in 1 .. Len(s) : s[i] \in 1 .. most
  BY <1>1
<1>3. \A i \in 1 .. Len(s) : back(i) \in 1 .. Len(s) /\ back(back(i)) = i
  BY <1>1
<1>4. \A i \in 1 .. Len(s) : new[i] = Sender(s[back(i)], 0)
  BY <1>1 DEF Reverse
<1>5. \A i \in 1 .. Len(s) : Sender(s[back(i)], 0) \in SenderRecords
  <2>1. \A i \in 1 .. Len(s) : s[back(i)] \in 0 .. MaxMedia
    BY <1>2, <1>3, RtcAssumption
  <2> QED
    BY <2>1, RtcAssumption DEF Sender, SenderRecords
<1>6. new \in Seq(SenderRecords) /\ Len(new) = Len(s)
  <2>1. \A i \in 1 .. Len(s) : new[i] \in SenderRecords
    BY <1>4, <1>5
  <2>2. new \in [1 .. Len(s) -> SenderRecords]
    BY <1>1, <2>1
  <2> HIDE DEF new
  <2> QED
    BY <1>1, <2>2
<1>60. t = q \o new
  OBVIOUS
<1> HIDE DEF new
<1>7. q \in Seq(SenderRecords) /\ Len(q) \in Nat
  BY QueueDomain DEF SendersOK
<1>8. /\ t \in Seq(SenderRecords) /\ Len(t) = Len(q) + Len(s)
      /\ \A i \in 1 .. Len(t) : t[i] = IF i <= Len(q) THEN q[i] ELSE new[i - Len(q)]
  <2>1. /\ q \o new \in Seq(SenderRecords) /\ Len(q \o new) = Len(q) + Len(new)
        /\ \A i \in 1 .. Len(q) + Len(new) : (q \o new)[i] = IF i <= Len(q) THEN q[i] ELSE new[i - Len(q)]
    BY <1>6, <1>7, ConcatProperties
  <2> QED
    BY <1>6, <1>60, <2>1
<1>9. \A i \in 1 .. Len(q) : i \in 1 .. Len(t) /\ t[i] = q[i]
  BY <1>1, <1>7, <1>8
<1>10. \A i \in 1 .. Len(t) : i \notin 1 .. Len(q) =>
         i - Len(q) \in 1 .. Len(s) /\ t[i].media = s[back(i - Len(q))]
  <2> TAKE i \in 1 .. Len(t)
  <2> HAVE i \notin 1 .. Len(q)
  <2>0. i \in Int /\ Len(q) < i /\ i <= Len(q) + Len(s)
    BY <1>1, <1>7, <1>8
  <2>1. i - Len(q) \in 1 .. Len(s) /\ t[i] = new[i - Len(q)]
    <3>1. i - Len(q) \in 1 .. Len(s) /\ ~(i <= Len(q))
      BY <1>1, <1>7, <2>0
    <3> QED
      BY <1>8, <3>1
  <2>2. new[i - Len(q)] = Sender(s[back(i - Len(q))], 0)
    BY <1>4, <2>1
  <2> HIDE DEF back
  <2> QED
    BY <2>1, <2>2 DEF Sender
<1>11. \A k \in 1 .. Len(s) : Len(q) + back(k) \in 1 .. Len(t) /\ t[Len(q) + back(k)].media = s[k]
  <2> TAKE k \in 1 .. Len(s)
  <2>1. Len(q) + back(k) \in 1 .. Len(t) /\ Len(q) + back(k) \notin 1 .. Len(q) /\ (Len(q) + back(k)) - Len(q) = back(k)
    BY <1>1, <1>7, <1>8
  <2> HIDE DEF back
  <2> QED
    BY <1>3, <1>10, <2>1
<1>12. \A m : Carries(t, m) <=> Carries(q, m) \/ Waits(s, m)
  <2> SUFFICES ASSUME NEW m PROVE Carries(t, m) <=> Carries(q, m) \/ Waits(s, m)
    OBVIOUS
  <2>1. ASSUME NEW i \in 1 .. Len(t), t[i].media = m PROVE Carries(q, m) \/ Waits(s, m)
    <3>1. CASE i \in 1 .. Len(q)
      BY <1>9, <2>1, <3>1 DEF Carries
    <3>2. CASE i \notin 1 .. Len(q)
      <4>1. i - Len(q) \in 1 .. Len(s) /\ s[back(i - Len(q))] = m
        BY <1>10, <2>1, <3>2
      <4> HIDE DEF back
      <4> QED
        BY <1>3, <4>1 DEF Waits
    <3> QED
      BY <3>1, <3>2
  <2>2. Carries(q, m) => Carries(t, m)
    BY <1>9 DEF Carries
  <2>3. Waits(s, m) => Carries(t, m)
    <3> HIDE DEF back
    <3> QED
      BY <1>11 DEF Carries, Waits
  <2> QED
    BY <2>1, <2>2, <2>3 DEF Carries
<1>13. \A i \in 1 .. Len(t) : t[i].media <= most
  <2> TAKE i \in 1 .. Len(t)
  <2>1. CASE i \in 1 .. Len(q)
    BY <1>9, <2>1 DEF SendersOK
  <2>2. CASE i \notin 1 .. Len(q)
    <3>1. i - Len(q) \in 1 .. Len(s) /\ t[i].media = s[back(i - Len(q))]
      BY <1>10, <2>2
    <3>2. s[back(i - Len(q))] \in 1 .. most
      BY <1>2, <1>3, <3>1
    <3> QED
      BY <3>1, <3>2
  <2> QED
    BY <2>1, <2>2
<1>14. ASSUME NEW i \in 1 .. Len(t), NEW j \in 1 .. Len(t), i # j, t[i].media # 0 PROVE t[i].media # t[j].media
  <2>0. \A k \in 1 .. Len(t) : k \in Int
    OBVIOUS
  <2>1. CASE i \in 1 .. Len(q) /\ j \in 1 .. Len(q)
    BY <1>9, <1>14, <2>1 DEF SendersOK
  <2>2. CASE i \in 1 .. Len(q) /\ j \notin 1 .. Len(q)
    <3>1. t[i].media = q[i].media /\ Carries(q, t[i].media)
      BY <1>9, <2>2 DEF Carries
    <3>2. back(j - Len(q)) \in 1 .. Len(s) /\ t[j].media = s[back(j - Len(q))]
      BY <1>3, <1>10, <2>2
    <3> HIDE DEF back
    <3> QED
      BY <3>1, <3>2
  <2>3. CASE i \notin 1 .. Len(q) /\ j \in 1 .. Len(q)
    <3>1. t[j].media = q[j].media /\ Carries(q, t[j].media)
      BY <1>9, <2>3 DEF Carries
    <3>2. back(i - Len(q)) \in 1 .. Len(s) /\ t[i].media = s[back(i - Len(q))]
      BY <1>3, <1>10, <2>3
    <3> HIDE DEF back
    <3> QED
      BY <3>1, <3>2
  <2>4. CASE i \notin 1 .. Len(q) /\ j \notin 1 .. Len(q)
    <3>1. /\ back(i - Len(q)) \in 1 .. Len(s) /\ t[i].media = s[back(i - Len(q))]
          /\ back(j - Len(q)) \in 1 .. Len(s) /\ t[j].media = s[back(j - Len(q))]
      BY <1>3, <1>10, <2>4
    <3>2. back(i - Len(q)) # back(j - Len(q))
      BY <1>1, <1>7, <1>14, <2>0
    <3> HIDE DEF back
    <3> QED
      BY <3>1, <3>2 DEF StageOK
  <2> QED
    BY <2>1, <2>2, <2>3, <2>4
<1> QED
  BY <1>8, <1>12, <1>13, <1>14 DEF SendersOK

(* The track staged last leaves the stage.                                    *)
LEMMA LastStaged ==
  ASSUME NEW s, NEW most \in Nat, StageOK(s, most), s # <<>>
  PROVE  /\ Last(s) \in 1 .. most /\ StageOK(Front(s), most) /\ Waits(s, Last(s)) /\ ~Waits(Front(s), Last(s))
         /\ \A m : Waits(s, m) <=> Waits(Front(s), m) \/ m = Last(s)
<1>1. s \in Seq(1 .. most) /\ Len(s) \in Nat \ {0} /\ \A i \in 1 .. Len(s) : s[i] \in 1 .. most
  <2>1. s \in Seq(1 .. most)
    BY DEF StageOK
  <2> QED
    BY <2>1, QueueDomain
<1>2. Last(s) = s[Len(s)] /\ Len(s) \in 1 .. Len(s)
  BY <1>1 DEF Last
<1>3. /\ Front(s) \in Seq(1 .. most) /\ Len(Front(s)) = Len(s) - 1
      /\ \A i \in 1 .. Len(s) - 1 : Front(s)[i] = s[i]
  <2>1. \A i \in 1 .. Len(s) - 1 : s[i] \in 1 .. most
    BY <1>1
  <2> DEFINE n == Len(s) - 1
  <2>2. n \in Nat
    BY <1>1
  <2> HIDE DEF n
  <2>4. n \in Int /\ n - 1 + 1 = n /\ (IF 1 <= n THEN n - 1 + 1 ELSE 0) = n
    BY <2>2
  <2>3. \A i \in 1 .. Len(s) - 1 : 1 + i - 1 = i
    BY <1>1
  <2> QED
    BY <2>1, <2>3, <2>4, SubSeqProperties DEF Front, n
<1>4. \A i \in 1 .. Len(s) : i = Len(s) \/ i \in 1 .. Len(s) - 1
  BY <1>1
<1>5. \A i \in 1 .. Len(s) - 1 : i \in 1 .. Len(s) /\ i # Len(s)
  BY <1>1
<1>6. ~Waits(Front(s), Last(s))
  BY <1>2, <1>3, <1>5 DEF Waits, StageOK
<1>7. \A m : Waits(s, m) <=> Waits(Front(s), m) \/ m = Last(s)
  BY <1>2, <1>3, <1>4, <1>5 DEF Waits
<1>8. StageOK(Front(s), most)
  BY <1>3, <1>5 DEF StageOK
<1> QED
  BY <1>1, <1>2, <1>6, <1>7, <1>8

LEMMA QueueItem == ASSUME NEW S, NEW s \in Seq(S), NEW i \in 1 .. Len(s) PROVE s[i] \in S
OBVIOUS

LEMMA RtcStep == RtcFlags /\ RtcInv /\ [RtcNext]_rtcVars => RtcInv'
<1> SUFFICES ASSUME RtcFlags, RtcInv, [RtcNext]_rtcVars PROVE RtcInv'
  OBVIOUS
<1>0. rtcMedia \in Seq(TrackKinds) /\ Len(rtcMedia) \in Nat /\ Len(rtcMedia) <= MaxMedia /\ MaxMedia \in Nat
  BY QueueDomain, RtcAssumption DEF RtcInv
<1>00. rtcState' # "closed" => rtcState # "closed"
  BY RtcFlagsKept
(* One media track more: neither a sender nor the stage has it yet.           *)
<1>1. ASSUME NEW kind \in TrackKinds, Stage(kind), UNCHANGED rtcSenders
      PROVE  /\ rtcMedia' \in Seq(TrackKinds) /\ Len(rtcMedia') \in 1 .. MaxMedia /\ Len(rtcMedia') # 0
             /\ 0 .. Len(rtcMedia) \subseteq 0 .. Len(rtcMedia')
             /\ SendersOK(rtcSenders', Len(rtcMedia')) /\ StageOK(rtcStaged', Len(rtcMedia'))
             /\ \A i \in 1 .. Len(rtcStaged') : ~Carries(rtcSenders', rtcStaged'[i])
             /\ Waits(rtcStaged', Len(rtcMedia')) /\ \A m : Waits(rtcStaged, m) => Waits(rtcStaged', m)
  <2> DEFINE n == Len(rtcMedia')
  <2>1. rtcMedia' \in Seq(TrackKinds) /\ n = Len(rtcMedia) + 1
    BY <1>0, <1>1, AppendFacts DEF Stage
  <2>2. n \in 1 .. MaxMedia /\ n # 0 /\ 0 .. Len(rtcMedia) \subseteq 0 .. n /\ Len(rtcMedia) < n
    BY <1>0, <1>1, <2>1 DEF Stage
  <2>3. /\ rtcStaged \in Seq(1 .. n) /\ Len(rtcStaged) \in Nat
        /\ \A i \in 1 .. Len(rtcStaged) : rtcStaged[i] \in 1 .. Len(rtcMedia)
    <3>1. rtcStaged \in Seq(1 .. Len(rtcMedia))
      BY DEF RtcInv, StageOK
    <3>2. Len(rtcStaged) \in Nat /\ \A i \in 1 .. Len(rtcStaged) : rtcStaged[i] \in 1 .. Len(rtcMedia)
      BY <3>1, QueueDomain
    <3>3. 1 .. Len(rtcMedia) \subseteq 1 .. n
      BY <1>0, <2>2
    <3> QED
      BY <3>1, <3>2, <3>3
  <2>4. rtcStaged' = Append(rtcStaged, n)
    BY <1>1 DEF Stage
  <2> HIDE DEF n
  <2>5. /\ rtcStaged' \in Seq(1 .. n) /\ Len(rtcStaged') = Len(rtcStaged) + 1 /\ rtcStaged'[Len(rtcStaged) + 1] = n
        /\ \A i \in 1 .. Len(rtcStaged) : rtcStaged'[i] = rtcStaged[i]
    <3>1. n \in 1 .. n
      BY <2>2
    <3> QED
      BY <2>3, <2>4, <3>1, AppendFacts
  <2>6. \A i \in 1 .. Len(rtcStaged') : i \in 1 .. Len(rtcStaged) \/ i = Len(rtcStaged) + 1
    BY <2>3, <2>5
  <2>7. \A i \in 1 .. Len(rtcStaged) : rtcStaged[i] # n
    BY <1>0, <2>1, <2>3
  <2>8. StageOK(rtcStaged', n)
    BY <2>5, <2>6, <2>7 DEF RtcInv, StageOK
  <2>9. /\ rtcSenders \in Seq(SenderRecords)
        /\ \A i \in 1 .. Len(rtcSenders) : rtcSenders[i].media <= n /\ rtcSenders[i].media # n
    <3>1. rtcSenders \in Seq(SenderRecords)
      BY DEF RtcInv, SendersOK
    <3>2. \A i \in 1 .. Len(rtcSenders) : rtcSenders[i].media \in Nat
      <4>1. \A i \in 1 .. Len(rtcSenders) : rtcSenders[i] \in SenderRecords
        BY <3>1, QueueItem
      <4> QED
        BY <4>1 DEF SenderRecords
    <3>3. \A i \in 1 .. Len(rtcSenders) : rtcSenders[i].media <= Len(rtcMedia)
      BY DEF RtcInv, SendersOK
    <3> QED
      BY <1>0, <2>1, <3>1, <3>2, <3>3
  <2>10. SendersOK(rtcSenders', n) /\ ~Carries(rtcSenders', n)
    BY <1>1, <2>9 DEF RtcInv, SendersOK, Carries
  <2>11. \A i \in 1 .. Len(rtcStaged') : ~Carries(rtcSenders', rtcStaged'[i])
    <3>1. \A i \in 1 .. Len(rtcStaged) : ~Carries(rtcSenders', rtcStaged[i])
      BY <1>1 DEF RtcInv
    <3> QED
      BY <2>5, <2>6, <2>10, <3>1
  <2>12. Waits(rtcStaged', n) /\ \A m : Waits(rtcStaged, m) => Waits(rtcStaged', m)
    <3>1. Len(rtcStaged) + 1 \in 1 .. Len(rtcStaged') /\ \A i \in 1 .. Len(rtcStaged) : i \in 1 .. Len(rtcStaged')
      BY <2>3, <2>5
    <3> QED
      BY <2>5, <3>1 DEF Waits
  <2> QED
    BY <2>1, <2>2, <2>8, <2>10, <2>11, <2>12 DEF n
<1>2. ASSUME NEW id \in TrackIds, NEW kind \in TrackKinds, AddTrack(id, kind) PROVE RtcInv'
  <2> DEFINE n == Len(rtcMedia')
  <2>1. /\ Stage(kind) /\ Cardinality(Named) < MaxTracks /\ rtcAdding = {} /\ rtcAdding' = {id}
        /\ rtcTable' = [rtcTable EXCEPT ![id] = n] /\ UNCHANGED <<rtcSenders, rtcReceivers, rtcState>>
    BY <1>2 DEF AddTrack, Named
  <2>2. /\ rtcMedia' \in Seq(TrackKinds) /\ n \in 1 .. MaxMedia /\ n # 0 /\ 0 .. Len(rtcMedia) \subseteq 0 .. n
        /\ SendersOK(rtcSenders', n) /\ StageOK(rtcStaged', n)
        /\ \A i \in 1 .. Len(rtcStaged') : ~Carries(rtcSenders', rtcStaged'[i])
        /\ Waits(rtcStaged', n)
    BY <1>1, <2>1
  <2>3. IsFiniteSet(Named') /\ Cardinality(Named') <= MaxTracks
    <3>1. Named' = Named \cup {id}
      BY <2>1, <2>2 DEF Named, RtcInv
    <3>2. IsFiniteSet(Named) /\ Cardinality(Named) \in Nat
      BY FS_CardinalityType DEF RtcInv
    <3>3. /\ IsFiniteSet(Named \cup {id})
          /\ Cardinality(Named \cup {id}) = IF id \in Named THEN Cardinality(Named) ELSE Cardinality(Named) + 1
      BY <3>2, FS_AddElement
    <3> QED
      BY <2>1, <3>1, <3>2, <3>3, RtcAssumption
  <2>4. rtcTable' \in [TrackIds -> 0 .. n] /\ rtcTable'[id] = n
        /\ \A other \in TrackIds : other # id => rtcTable'[other] = rtcTable[other]
    <3>1. rtcTable \in [TrackIds -> 0 .. n] /\ n \in 0 .. n
      BY <2>2 DEF RtcInv
    <3> QED
      BY <2>1, <3>1
  <2> HIDE DEF n
  <2>5. rtcState' # "closed" =>
          \A other \in TrackIds : rtcTable'[other] # 0 =>
            \/ Carries(rtcSenders', rtcTable'[other])
            \/ other \in rtcAdding' /\ Waits(rtcStaged', rtcTable'[other])
    BY <2>1, <2>2, <2>4 DEF RtcInv
  <2> QED
    BY <1>0, <2>1, <2>2, <2>3, <2>4, <2>5 DEF RtcInv, n
<1>3. ASSUME NEW kind \in TrackKinds, MakeSender(kind) PROVE RtcInv'
  <2>1. Stage(kind) /\ UNCHANGED <<rtcTable, rtcAdding, rtcSenders, rtcReceivers, rtcState>>
    BY <1>3 DEF MakeSender
  <2>2. /\ rtcMedia' \in Seq(TrackKinds) /\ Len(rtcMedia') \in 1 .. MaxMedia
        /\ 0 .. Len(rtcMedia) \subseteq 0 .. Len(rtcMedia')
        /\ SendersOK(rtcSenders', Len(rtcMedia')) /\ StageOK(rtcStaged', Len(rtcMedia'))
        /\ \A i \in 1 .. Len(rtcStaged') : ~Carries(rtcSenders', rtcStaged'[i])
        /\ \A m : Waits(rtcStaged, m) => Waits(rtcStaged', m)
    BY <1>1, <2>1
  <2>3. Named' = Named
    BY <2>1 DEF Named
  <2>4. rtcTable' \in [TrackIds -> 0 .. Len(rtcMedia')]
    BY <2>1, <2>2 DEF RtcInv
  <2>5. rtcState' # "closed" =>
          \A id \in TrackIds : rtcTable'[id] # 0 =>
            Carries(rtcSenders', rtcTable'[id]) \/ (id \in rtcAdding' /\ Waits(rtcStaged', rtcTable'[id]))
    BY <2>1, <2>2 DEF RtcInv
  <2> QED
    BY <1>0, <2>1, <2>2, <2>3, <2>4, <2>5 DEF RtcInv
<1>4. ASSUME NEW m, AddTransceiverWithTrack(m) PROVE RtcInv'
  <2> DEFINE last == Last(rtcStaged)
  <2>1. /\ rtcStaged # <<>> /\ rtcStaged' = Front(rtcStaged) /\ m \in DOMAIN rtcMedia
        /\ rtcSenders' = IF rtcState = "closed" THEN rtcSenders ELSE Append(rtcSenders, Sender(last, m))
        /\ UNCHANGED <<rtcMedia, rtcTable, rtcAdding, rtcReceivers, rtcState>>
    BY <1>4 DEF AddTransceiverWithTrack
  <2>2. /\ last \in 1 .. Len(rtcMedia) /\ StageOK(rtcStaged', Len(rtcMedia)) /\ ~Waits(rtcStaged', last)
        /\ \A k : Waits(rtcStaged, k) <=> Waits(rtcStaged', k) \/ k = last
    <3>1. StageOK(rtcStaged, Len(rtcMedia))
      BY DEF RtcInv
    <3> QED
      BY <1>0, <2>1, <3>1, LastStaged
  <2>3. \A k : Waits(rtcStaged, k) => ~Carries(rtcSenders, k)
    BY DEF RtcInv, Waits
  <2>4. Named' = Named
    BY <2>1 DEF Named
  <2> HIDE DEF last
  <2>5. CASE rtcState = "closed"
    <3>1. \A i \in 1 .. Len(rtcStaged') : ~Carries(rtcSenders', rtcStaged'[i])
      BY <2>1, <2>2, <2>3, <2>5 DEF Waits
    <3> QED
      BY <2>1, <2>2, <2>4, <2>5, <3>1 DEF RtcInv
  <2>6. CASE rtcState # "closed"
    <3>1. /\ Sender(last, m) \in SenderRecords /\ Sender(last, m).media = last /\ last <= Len(rtcMedia)
      <4>1. m \in 0 .. MaxMedia
        <5>1. m \in 1 .. Len(rtcMedia)
          BY <1>0, <2>1, QueueDomain
        <5> QED
          BY <1>0, <5>1
      <4>2. last \in 0 .. MaxMedia /\ last <= Len(rtcMedia)
        BY <1>0, <2>2
      <4> QED
        BY <4>1, <4>2 DEF Sender, SenderRecords
    <3>2. /\ SendersOK(rtcSenders', Len(rtcMedia))
          /\ \A k : Carries(rtcSenders', k) <=> Carries(rtcSenders, k) \/ k = last
      <4>1. SendersOK(rtcSenders, Len(rtcMedia)) /\ ~Carries(rtcSenders, last)
        BY <2>2, <2>3 DEF RtcInv
      <4> QED
        BY <1>0, <2>1, <2>6, <3>1, <4>1, OneSenderMore
    <3>3. \A i \in 1 .. Len(rtcStaged') : ~Carries(rtcSenders', rtcStaged'[i])
      <4>1. \A i \in 1 .. Len(rtcStaged') : Waits(rtcStaged', rtcStaged'[i])
        BY DEF Waits
      <4> QED
        BY <2>2, <2>3, <3>2, <4>1
    <3>4. \A id \in TrackIds : rtcTable'[id] # 0 =>
            Carries(rtcSenders', rtcTable'[id]) \/ (id \in rtcAdding' /\ Waits(rtcStaged', rtcTable'[id]))
      <4>1. \A id \in TrackIds : rtcTable[id] # 0 =>
              Carries(rtcSenders, rtcTable[id]) \/ (id \in rtcAdding /\ Waits(rtcStaged, rtcTable[id]))
        BY <2>6 DEF RtcInv
      <4> QED
        BY <2>1, <2>2, <3>2, <4>1
    <3> QED
      BY <2>1, <2>2, <2>4, <3>2, <3>3, <3>4 DEF RtcInv
  <2> QED
    BY <2>5, <2>6
<1>5. CASE RegisterTrack
  <2>1. /\ rtcStaged' = <<>> /\ rtcAdding' = {} /\ UNCHANGED <<rtcMedia, rtcTable, rtcReceivers, rtcState>>
        /\ rtcSenders' = IF rtcState = "closed" THEN rtcSenders
                         ELSE rtcSenders \o [i \in DOMAIN rtcStaged |-> Sender(Reverse(rtcStaged)[i], 0)]
    BY <1>5 DEF RegisterTrack
  <2>2. StageOK(rtcStaged', Len(rtcMedia)) /\ Len(rtcStaged') = 0
    BY <2>1, EmptyQueue DEF StageOK
  <2>3. Named' = Named
    BY <2>1 DEF Named
  <2>4. SendersOK(rtcSenders, Len(rtcMedia)) /\ StageOK(rtcStaged, Len(rtcMedia))
        /\ \A i \in 1 .. Len(rtcStaged) : ~Carries(rtcSenders, rtcStaged[i])
    BY DEF RtcInv
  <2>5. CASE rtcState = "closed"
    BY <2>1, <2>2, <2>3, <2>5 DEF RtcInv
  <2>6. CASE rtcState # "closed"
    <3>1. /\ SendersOK(rtcSenders', Len(rtcMedia))
          /\ \A m : Carries(rtcSenders', m) <=> Carries(rtcSenders, m) \/ Waits(rtcStaged, m)
      <4>1. rtcSenders' = rtcSenders \o [i \in DOMAIN rtcStaged |-> Sender(Reverse(rtcStaged)[i], 0)]
        BY <2>1, <2>6
      <4> QED
        BY <1>0, <2>4, <4>1, StageAttached
    <3>2. \A id \in TrackIds : rtcTable'[id] # 0 => Carries(rtcSenders', rtcTable'[id])
      <4>1. \A id \in TrackIds : rtcTable[id] # 0 =>
              Carries(rtcSenders, rtcTable[id]) \/ (id \in rtcAdding /\ Waits(rtcStaged, rtcTable[id]))
        BY <2>6 DEF RtcInv
      <4> QED
        BY <2>1, <3>1, <4>1
    <3> QED
      BY <2>1, <2>2, <2>3, <3>1, <3>2 DEF RtcInv
  <2> QED
    BY <2>5, <2>6
<1>6. CASE AddTransceiver
  <2>1. /\ rtcSenders' = Append(rtcSenders, Sender(0, 0))
        /\ UNCHANGED <<rtcMedia, rtcTable, rtcStaged, rtcAdding, rtcReceivers, rtcState>>
    BY <1>6 DEF AddTransceiver
  <2>2. Sender(0, 0) \in SenderRecords /\ Sender(0, 0).media = 0 /\ Sender(0, 0).media <= Len(rtcMedia)
    BY <1>0 DEF Sender, SenderRecords
  <2>3. /\ SendersOK(rtcSenders', Len(rtcMedia))
        /\ \A k : Carries(rtcSenders', k) <=> Carries(rtcSenders, k) \/ k = 0
    <3>1. SendersOK(rtcSenders, Len(rtcMedia))
      BY DEF RtcInv
    <3> QED
      BY <1>0, <2>1, <2>2, <3>1, OneSenderMore
  <2>4. \A i \in 1 .. Len(rtcStaged) : rtcStaged[i] # 0
    <3>1. rtcStaged \in Seq(1 .. Len(rtcMedia))
      BY DEF RtcInv, StageOK
    <3> QED
      BY <1>0, <3>1, QueueItem
  <2>5. Named' = Named
    BY <2>1 DEF Named
  <2>6. \A i \in 1 .. Len(rtcStaged') : ~Carries(rtcSenders', rtcStaged'[i])
    BY <2>1, <2>3, <2>4 DEF RtcInv
  <2>7. rtcState' # "closed" =>
          \A id \in TrackIds : rtcTable'[id] # 0 =>
            Carries(rtcSenders', rtcTable'[id]) \/ (id \in rtcAdding' /\ Waits(rtcStaged', rtcTable'[id]))
    BY <2>1, <2>3 DEF RtcInv
  <2> QED
    BY <2>1, <2>3, <2>5, <2>6, <2>7 DEF RtcInv
<1>7. ASSUME NEW id \in TrackIds, RemoveTrack(id) PROVE RtcInv'
  <2>1. /\ rtcTable' = [rtcTable EXCEPT ![id] = 0]
        /\ UNCHANGED <<rtcMedia, rtcStaged, rtcAdding, rtcSenders, rtcReceivers, rtcState>>
    BY <1>7 DEF RemoveTrack
  <2>2. Named' \subseteq Named
    BY <2>1 DEF Named, RtcInv
  <2>3. IsFiniteSet(Named') /\ Cardinality(Named') <= MaxTracks
    <3>1. IsFiniteSet(Named') /\ Cardinality(Named') <= Cardinality(Named)
      BY <2>2, FS_Subset DEF RtcInv
    <3>2. Cardinality(Named) \in Nat /\ Cardinality(Named') \in Nat
      BY <3>1, FS_CardinalityType DEF RtcInv
    <3> QED
      BY <3>1, <3>2, RtcAssumption DEF RtcInv
  <2>4. /\ rtcTable' \in [TrackIds -> 0 .. Len(rtcMedia)]
        /\ \A other \in TrackIds : rtcTable'[other] # 0 => rtcTable'[other] = rtcTable[other]
    BY <1>0, <2>1 DEF RtcInv
  <2> QED
    BY <1>0, <2>1, <2>3, <2>4 DEF RtcInv
<1>8. ASSUME NEW id \in TrackIds, Tune(id) PROVE RtcInv'
  <2>1. PICK first : rtcSenders' = [rtcSenders EXCEPT ![first].tuned = TRUE]
    BY <1>8 DEF Tune
  <2>2. UNCHANGED <<rtcMedia, rtcTable, rtcStaged, rtcAdding, rtcReceivers, rtcState>>
    BY <1>8 DEF Tune
  <2>0. rtcSenders \in Seq(SenderRecords) /\ Len(rtcSenders) \in Nat
        /\ \A i \in 1 .. Len(rtcSenders) : rtcSenders[i] \in SenderRecords
    <3>1. rtcSenders \in Seq(SenderRecords)
      BY DEF RtcInv, SendersOK
    <3> QED
      BY <3>1, QueueDomain, QueueItem
  <2>3. /\ rtcSenders' \in Seq(SenderRecords) /\ Len(rtcSenders') = Len(rtcSenders)
        /\ \A i \in 1 .. Len(rtcSenders) : rtcSenders'[i].media = rtcSenders[i].media
    <3> DEFINE tuned == [rtcSenders[first] EXCEPT !.tuned = TRUE]
    <3>1. CASE first \in 1 .. Len(rtcSenders)
      <4>1. tuned \in SenderRecords /\ tuned.media = rtcSenders[first].media
        BY <2>0, <3>1 DEF SenderRecords
      <4>2. rtcSenders' = [rtcSenders EXCEPT ![first] = tuned]
        BY <2>1
      <4> HIDE DEF tuned
      <4>3. /\ rtcSenders' \in Seq(SenderRecords) /\ Len(rtcSenders') = Len(rtcSenders)
            /\ \A i \in 1 .. Len(rtcSenders) : rtcSenders'[i] = IF i = first THEN tuned ELSE rtcSenders[i]
        BY <2>0, <3>1, <4>1, <4>2, ExceptSeq
      <4> QED
        BY <4>1, <4>3
    <3>2. CASE first \notin 1 .. Len(rtcSenders)
      <4>1. first \notin DOMAIN rtcSenders
        BY <2>0, <3>2, QueueDomain
      <4>2. rtcSenders' = rtcSenders
        BY <2>1, <4>1, <2>0
      <4> QED
        BY <2>0, <4>2
    <3> QED
      BY <3>1, <3>2
  <2>4. Named' = Named
    BY <2>2 DEF Named
  <2>5. SendersOK(rtcSenders', Len(rtcMedia))
    <3>1. /\ \A i \in 1 .. Len(rtcSenders) : rtcSenders[i].media <= Len(rtcMedia)
          /\ \A i, j \in 1 .. Len(rtcSenders) :
               i # j /\ rtcSenders[i].media # 0 => rtcSenders[i].media # rtcSenders[j].media
      BY DEF RtcInv, SendersOK
    <3>2. /\ \A i \in 1 .. Len(rtcSenders') : rtcSenders'[i].media <= Len(rtcMedia)
          /\ \A i, j \in 1 .. Len(rtcSenders') :
               i # j /\ rtcSenders'[i].media # 0 => rtcSenders'[i].media # rtcSenders'[j].media
      BY <2>3, <3>1
    <3> QED
      BY <2>3, <3>2 DEF SendersOK
  <2>6. \A m : Carries(rtcSenders', m) <=> Carries(rtcSenders, m)
    BY <2>3 DEF Carries
  <2> QED
    BY <2>2, <2>4, <2>5, <2>6 DEF RtcInv
<1>9. ASSUME UNCHANGED <<rtcMedia, rtcTable, rtcStaged, rtcAdding, rtcSenders>>,
             rtcReceivers' \in Seq([sink : BOOLEAN, fed : BOOLEAN])
      PROVE  RtcInv'
  <2>1. Named' = Named
    BY <1>9 DEF Named
  <2> QED
    BY <1>00, <1>9, <2>1 DEF RtcInv
<1>10. ASSUME NEW sets \in BOOLEAN, OnTrack(sets) PROVE RtcInv'
  <2>1. rtcReceivers' \in Seq([sink : BOOLEAN, fed : BOOLEAN])
    <3>1. [sink |-> sets, fed |-> sets] \in [sink : BOOLEAN, fed : BOOLEAN]
      OBVIOUS
    <3> QED
      BY <1>10, <3>1, AppendFacts DEF OnTrack, RtcInv
  <2> QED
    BY <1>9, <1>10, <2>1 DEF OnTrack
<1>11. ASSUME NEW i \in 1 .. MaxTransceivers, SetFrameSink(i) PROVE RtcInv'
  <2>1. rtcReceivers' \in Seq([sink : BOOLEAN, fed : BOOLEAN])
    <3>1. rtcReceivers \in Seq([sink : BOOLEAN, fed : BOOLEAN]) /\ i \in 1 .. Len(rtcReceivers)
      BY <1>11, QueueDomain DEF SetFrameSink, RtcInv
    <3>2. rtcReceivers[i] \in [sink : BOOLEAN, fed : BOOLEAN]
      BY <3>1, QueueItem
    <3>3. [rtcReceivers[i] EXCEPT !.sink = TRUE] \in [sink : BOOLEAN, fed : BOOLEAN]
      BY <3>2, Zenon
    <3>4. rtcReceivers' = [rtcReceivers EXCEPT ![i] = [rtcReceivers[i] EXCEPT !.sink = TRUE]]
      BY <1>11 DEF SetFrameSink
    <3> QED
      BY <3>1, <3>3, <3>4, ExceptSeq
  <2> QED
    BY <1>9, <1>11, <2>1 DEF SetFrameSink
<1>12. CASE SetLocalDescription \/ SetRemoteDescription \/ CloseConnection \/ SetOnTrack \/ UNCHANGED rtcVars
  <2>1. UNCHANGED <<rtcMedia, rtcTable, rtcStaged, rtcAdding, rtcSenders, rtcReceivers>>
    BY <1>12 DEF SetLocalDescription, SetRemoteDescription, CloseConnection, SetOnTrack, rtcVars
  <2> QED
    BY <1>9, <2>1 DEF RtcInv
<1> QED
  BY <1>2, <1>3, <1>4, <1>5, <1>6, <1>7, <1>8, <1>10, <1>11, <1>12 DEF RtcNext

(* A track is sent by one sender at most, by none while it is staged, and     *)
(* what add_track put in the table is sent unless the connection was closed:  *)
(* whichever calls make, stage and attach tracks meanwhile.                   *)
THEOREM TracksAttachedOnce == RtcInit /\ [][RtcNext]_rtcVars => [](RtcTypeOK /\ AttachedOnce)
<1>1. ASSUME RtcInv
      PROVE  /\ DOMAIN rtcMedia = 1 .. Len(rtcMedia) /\ DOMAIN rtcStaged = 1 .. Len(rtcStaged)
             /\ DOMAIN rtcSenders = 1 .. Len(rtcSenders)
             /\ rtcStaged \in Seq(1 .. Len(rtcMedia)) /\ rtcSenders \in Seq(SenderRecords)
  <2>1. rtcStaged \in Seq(1 .. Len(rtcMedia)) /\ rtcSenders \in Seq(SenderRecords) /\ rtcMedia \in Seq(TrackKinds)
    BY <1>1 DEF RtcInv, StageOK, SendersOK
  <2> QED
    BY <2>1, QueueDomain
<1>2. RtcFlags /\ RtcInv => RtcTypeOK
  <2> SUFFICES ASSUME RtcFlags, RtcInv PROVE RtcTypeOK
    OBVIOUS
  <2>1. \A i \in DOMAIN rtcStaged : rtcStaged[i] \in DOMAIN rtcMedia
    BY <1>1, QueueItem
  <2>2. \A i \in DOMAIN rtcSenders : rtcSenders[i] \in SenderRecords
    BY <1>1, QueueItem
  <2> QED
    BY <2>1, <2>2 DEF RtcFlags, RtcInv, RtcTypeOK, Named, SenderRecords
<1>3. RtcInv => AttachedOnce
  <2> SUFFICES ASSUME RtcInv PROVE AttachedOnce
    OBVIOUS
  <2>1. \A m : OnSender(m) <=> Carries(rtcSenders, m)
    BY <1>1 DEF OnSender, Carries
  <2> QED
    BY <1>1, <2>1 DEF RtcInv, SendersOK, AttachedOnce
<1> QED
  BY RtcInitInv, RtcStep, RtcFlagsKept, <1>2, <1>3, PTL

-----------------------------------------------------------------------------
(* The readers of a data channel.                                             *)

DcStates == {"connecting", "open", "closing", "closed"}

(* State changes there have been at most.                                     *)
DcChanges == CASE dcState = "connecting" -> 0 [] dcState = "open" -> 1 [] dcState = "closing" -> 2 [] OTHER -> 3

(* What a reader has read comes before what waits for it.                     *)
ReaderInv(r) ==
  /\ dcTold[r] + Len(dcQueue[r]) + dcLagged[r] = dcDue[r] /\ dcDue[r] <= dcSent
  /\ Len(dcQueue[r]) <= Kept
  /\ Rises(dcQueue[r]) /\ Between(dcQueue[r], 0, dcSent)
  /\ \A i \in 1 .. Len(dcRead[r]) : dcRead[r][i].is = "event" =>
       Between(dcQueue[r], dcRead[r][i].n, dcSent) /\ dcRead[r][i].n <= dcSent
  /\ \A i, j \in 1 .. Len(dcRead[r]) :
       i < j /\ dcRead[r][i].is = "event" /\ dcRead[r][j].is = "event" => dcRead[r][i].n < dcRead[r][j].n

DcEntries == [is : {"event", "lost"}, n : Nat]

DcTyped ==
  /\ dcState \in DcStates /\ dcSent \in Nat /\ dcSent <= MaxMessages + DcChanges
  /\ dcObserver \in {0, 1} /\ dcSource \in [Spools -> {0, dcObserver}]
  /\ dcQueue \in [Spools -> Seq(Int)] /\ dcLagged \in [Spools -> Nat] /\ dcTold \in [Spools -> Nat]
  /\ dcDue \in [Spools -> Nat] /\ dcRead \in [Spools -> Seq(DcEntries)]

DcInv == DcTyped /\ \A r \in Spools : ReaderInv(r)

LEMMA DcInitInv == DcInit => DcInv
<1> SUFFICES ASSUME DcInit PROVE DcInv
  OBVIOUS
<1>1. <<>> \in Seq(Int) /\ <<>> \in Seq(DcEntries) /\ Len(<<>>) = 0
  BY EmptyQueue
<1>2. Rises(<<>>) /\ Between(<<>>, 0, 0)
  BY EmptyRises
<1>3. DcTyped
  BY <1>1, DataChannelAssumption DEF DcInit, DcTyped, DcStates, DcChanges
<1>4. ASSUME NEW r \in Spools PROVE ReaderInv(r)
  BY <1>1, <1>2, DataChannelAssumption DEF DcInit, ReaderInv
<1> QED
  BY <1>3, <1>4 DEF DcInv

(* One event more, for one reader.                                            *)
LEMMA BroadcastInv ==
  ASSUME DcInv, Broadcast, dcState' \in DcStates, dcSent + 1 <= MaxMessages + DcChanges' PROVE DcInv'
<1> DEFINE hears(r) == dcSource[r] # 0 /\ dcSource[r] = dcObserver
           full(r)  == hears(r) /\ Len(dcQueue[r]) = Kept
<1>1. /\ dcSent' = dcSent + 1 /\ dcSent \in Nat /\ UNCHANGED <<dcObserver, dcSource, dcRead, dcTold>>
      /\ dcQueue' = [r \in Spools |->
             IF hears(r) THEN Append(IF full(r) THEN Tail(dcQueue[r]) ELSE dcQueue[r], dcSent')
             ELSE dcQueue[r]]
      /\ dcLagged' = [r \in Spools |-> dcLagged[r] + IF full(r) THEN 1 ELSE 0]
      /\ dcDue' = [r \in Spools |-> dcDue[r] + IF dcSource[r] # 0 THEN 1 ELSE 0]
  BY DEF Broadcast, DcInv, DcTyped
<1>2. ASSUME NEW r \in Spools PROVE ReaderInv(r)' /\ dcQueue'[r] \in Seq(Int)
  <2> DEFINE q == dcQueue[r]
             kept == IF full(r) THEN Tail(q) ELSE q
  <2>1. q \in Seq(Int) /\ Rises(q) /\ Between(q, 0, dcSent) /\ Len(q) <= Kept /\ Len(q) \in Nat /\ q = dcQueue[r]
    BY DEF DcInv, DcTyped, ReaderInv
  <2>2. ASSUME NEW low \in Nat, low <= dcSent, Between(q, low, dcSent)
        PROVE  Between(dcQueue'[r], low, dcSent') /\ Rises(dcQueue'[r])
    <3>1. CASE hears(r)
      <4>1. kept \in Seq(Int) /\ Rises(kept) /\ Between(kept, low, dcSent)
        <5>1. CASE full(r)
          <6>1. q # <<>>
            BY <5>1, DataChannelAssumption, EmptyQueue
          <6> QED
            BY <1>1, <2>1, <2>2, <5>1, <6>1, TailRises, TailFacts
        <5>2. CASE ~full(r)
          BY <2>1, <2>2, <5>2
        <5> QED
          BY <5>1, <5>2
      <4>2. dcQueue'[r] = Append(kept, dcSent')
        BY <1>1, <3>1
      <4>3. dcSent < dcSent' /\ low < dcSent' /\ dcSent \in Int /\ dcSent' \in Int /\ low \in Int
        BY <1>1, <2>2
      <4> HIDE DEF kept, q
      <4> QED
        BY <4>1, <4>2, <4>3, AppendRises
    <3>2. CASE ~hears(r)
      <4>1. dcQueue'[r] = q
        BY <1>1, <3>2
      <4> HIDE DEF q
      <4> QED
        BY <1>1, <2>1, <2>2, <4>1, BetweenWidens
    <3> QED
      BY <3>1, <3>2
  <2>3. /\ dcQueue'[r] \in Seq(Int) /\ Len(dcQueue'[r]) <= Kept
        /\ dcTold'[r] + Len(dcQueue'[r]) + dcLagged'[r] = dcDue'[r] /\ dcDue'[r] <= dcSent'
    <3>0. /\ dcTold'[r] = dcTold[r] /\ dcTold[r] \in Nat /\ dcLagged[r] \in Nat /\ dcDue[r] \in Nat
          /\ dcTold[r] + Len(q) + dcLagged[r] = dcDue[r] /\ dcDue[r] <= dcSent
          /\ dcSource[r] # 0 => dcSource[r] = dcObserver
      BY <1>1 DEF DcInv, DcTyped, ReaderInv
    <3>1. CASE hears(r)
      <4>1. /\ kept \in Seq(Int) /\ Len(kept) \in Nat
            /\ Len(kept) = IF full(r) THEN Len(q) - 1 ELSE Len(q)
        <5>1. CASE full(r)
          <6>1. q # <<>>
            BY <5>1, DataChannelAssumption, EmptyQueue
          <6> QED
            BY <2>1, <5>1, <6>1, TailFacts
        <5>2. CASE ~full(r)
          BY <2>1, <5>2
        <5> QED
          BY <5>1, <5>2
      <4>2. dcQueue'[r] = Append(kept, dcSent') /\ dcSent' \in Int
        BY <1>1, <3>1
      <4>3. Len(dcQueue'[r]) = Len(kept) + 1 /\ dcQueue'[r] \in Seq(Int)
        <5> HIDE DEF kept
        <5> QED
          BY <4>1, <4>2, AppendFacts
      <4>4. full(r) <=> Len(q) = Kept
        BY <3>1
      <4>5. /\ dcDue'[r] = dcDue[r] + 1
            /\ dcLagged'[r] = dcLagged[r] + IF full(r) THEN 1 ELSE 0
        BY <1>1, <3>1
      <4>6. CASE Len(q) = Kept
        <5>1. Len(dcQueue'[r]) = Len(q) /\ dcLagged'[r] = dcLagged[r] + 1
          BY <2>1, <4>1, <4>3, <4>4, <4>5, <4>6
        <5>2. dcSent' = dcSent + 1 /\ dcSent \in Nat /\ dcDue'[r] = dcDue[r] + 1
          BY <1>1, <4>5
        <5> HIDE DEF q
        <5>0. \A t, n, l, d \in Nat : t + n + l = d => t + n + (l + 1) = d + 1
          OBVIOUS
        <5>3. dcTold'[r] + Len(dcQueue'[r]) + dcLagged'[r] = dcDue'[r]
          <6>1. dcTold[r] + Len(q) + (dcLagged[r] + 1) = dcDue[r] + 1
            <7>1. /\ dcTold[r] \in Nat /\ Len(q) \in Nat /\ dcLagged[r] \in Nat /\ dcDue[r] \in Nat
                  /\ dcTold[r] + Len(q) + dcLagged[r] = dcDue[r]
              BY <2>1, <3>0
            <7> QED
              BY <5>0, <7>1
          <6> QED
            BY <3>0, <5>1, <5>2, <6>1
        <5>4. dcDue'[r] <= dcSent' /\ Len(dcQueue'[r]) <= Kept
          BY <2>1, <3>0, <5>1, <5>2
        <5> QED
          BY <4>3, <5>3, <5>4
      <4>7. CASE Len(q) # Kept
        <5>1. Len(dcQueue'[r]) = Len(q) + 1 /\ dcLagged'[r] = dcLagged[r] + 0
          BY <2>1, <4>1, <4>3, <4>4, <4>5, <4>7
        <5>2. Len(q) < Kept
          BY <2>1, <4>7, DataChannelAssumption
        <5>3. dcSent' = dcSent + 1 /\ dcSent \in Nat /\ dcDue'[r] = dcDue[r] + 1
          BY <1>1, <4>5
        <5> HIDE DEF q
        <5>0. \A t, n, l, d \in Nat : t + n + l = d => t + (n + 1) + (l + 0) = d + 1
          OBVIOUS
        <5>4. dcTold'[r] + Len(dcQueue'[r]) + dcLagged'[r] = dcDue'[r]
          <6>1. dcTold[r] + (Len(q) + 1) + (dcLagged[r] + 0) = dcDue[r] + 1
            <7>1. /\ dcTold[r] \in Nat /\ Len(q) \in Nat /\ dcLagged[r] \in Nat /\ dcDue[r] \in Nat
                  /\ dcTold[r] + Len(q) + dcLagged[r] = dcDue[r]
              BY <2>1, <3>0
            <7> QED
              BY <5>0, <7>1
          <6> QED
            BY <3>0, <5>1, <5>3, <6>1
        <5>5. dcDue'[r] <= dcSent' /\ Len(dcQueue'[r]) <= Kept
          BY <2>1, <3>0, <5>1, <5>2, <5>3, DataChannelAssumption
        <5> QED
          BY <4>3, <5>4, <5>5
      <4> QED
        BY <4>6, <4>7
    <3>2. CASE ~hears(r)
      <4>1. dcQueue'[r] = q /\ dcLagged'[r] = dcLagged[r] /\ dcDue'[r] = dcDue[r]
        BY <1>1, <3>0, <3>2
      <4> QED
        BY <1>1, <2>1, <3>0, <4>1
    <3> QED
      BY <3>1, <3>2
  <2>4. Rises(dcQueue'[r]) /\ Between(dcQueue'[r], 0, dcSent')
    BY <1>1, <2>1, <2>2
  <2>5. dcRead'[r] = dcRead[r] /\ dcRead[r] \in Seq(DcEntries)
    BY <1>1 DEF DcInv, DcTyped
  <2>6. ASSUME NEW i \in 1 .. Len(dcRead[r]), dcRead[r][i].is = "event"
        PROVE  Between(dcQueue'[r], dcRead[r][i].n, dcSent') /\ dcRead[r][i].n <= dcSent'
    <3>1. dcRead[r][i].n \in Nat
      <4>1. dcRead[r][i] \in DcEntries
        BY <2>5
      <4> QED
        BY <4>1 DEF DcEntries
    <3>2. dcRead[r][i].n <= dcSent /\ Between(q, dcRead[r][i].n, dcSent)
      BY <2>6 DEF DcInv, ReaderInv
    <3> QED
      BY <1>1, <2>2, <3>1, <3>2
  <2>7. \A i, j \in 1 .. Len(dcRead[r]) :
          i < j /\ dcRead[r][i].is = "event" /\ dcRead[r][j].is = "event" => dcRead[r][i].n < dcRead[r][j].n
    BY DEF DcInv, ReaderInv
  <2> QED
    BY <2>3, <2>4, <2>5, <2>6, <2>7 DEF ReaderInv
<1>3. DcTyped'
  <2>1. /\ dcLagged' \in [Spools -> Nat] /\ dcDue' \in [Spools -> Nat]
    BY <1>1 DEF DcInv, DcTyped
  <2>2. dcQueue' \in [Spools -> Seq(Int)]
    <3> HIDE DEF hears, full
    <3> QED
      BY <1>1, <1>2
  <2> QED
    BY <1>1, <2>1, <2>2 DEF DcInv, DcTyped
<1> QED
  BY <1>2, <1>3 DEF DcInv

(* One entry more for the reader, of what waited for it or was lost.          *)
LEMMA RecvInv == ASSUME DcInv, NEW r \in Spools, Recv(r) PROVE DcInv'
<1>1. /\ UNCHANGED <<dcState, dcObserver, dcSource, dcSent, dcDue>>
      /\ dcSent \in Nat /\ dcQueue[r] \in Seq(Int) /\ dcLagged[r] \in Nat /\ dcRead[r] \in Seq(DcEntries)
      /\ dcTold[r] \in Nat /\ Len(dcQueue[r]) \in Nat
  BY QueueDomain DEF Recv, DcInv, DcTyped
<1>2. /\ dcTold[r] + Len(dcQueue[r]) + dcLagged[r] = dcDue[r] /\ dcDue[r] <= dcSent
      /\ Len(dcQueue[r]) <= Kept /\ Rises(dcQueue[r]) /\ Between(dcQueue[r], 0, dcSent)
      /\ \A i \in 1 .. Len(dcRead[r]) : dcRead[r][i].is = "event" =>
           Between(dcQueue[r], dcRead[r][i].n, dcSent) /\ dcRead[r][i].n <= dcSent
      /\ \A i, j \in 1 .. Len(dcRead[r]) :
           i < j /\ dcRead[r][i].is = "event" /\ dcRead[r][j].is = "event" => dcRead[r][i].n < dcRead[r][j].n
  BY DEF DcInv, ReaderInv
<1>3. ASSUME NEW e \in DcEntries, NEW queue \in Seq(Int), NEW lagged \in Nat, NEW told \in Nat,
             dcRead' = [dcRead EXCEPT ![r] = Append(dcRead[r], e)], dcQueue' = [dcQueue EXCEPT ![r] = queue],
             dcLagged' = [dcLagged EXCEPT ![r] = lagged], dcTold' = [dcTold EXCEPT ![r] = told],
             Len(queue) <= Kept, told + Len(queue) + lagged = dcDue[r],
             Rises(queue), Between(queue, 0, dcSent),
             \A i \in 1 .. Len(dcRead[r]) : dcRead[r][i].is = "event" => Between(queue, dcRead[r][i].n, dcSent),
             e.is = "event" => /\ Between(queue, e.n, dcSent) /\ e.n <= dcSent
                               /\ \A i \in 1 .. Len(dcRead[r]) : dcRead[r][i].is = "event" => dcRead[r][i].n < e.n
      PROVE  DcInv'
  <2> DEFINE read == Append(dcRead[r], e)
  <2>1. /\ read \in Seq(DcEntries) /\ Len(read) = Len(dcRead[r]) + 1 /\ Len(dcRead[r]) \in Nat
        /\ \A i \in 1 .. Len(dcRead[r]) : read[i] = dcRead[r][i]
        /\ read[Len(dcRead[r]) + 1] = e
    BY <1>1, AppendFacts
  <2> HIDE DEF read
  <2>2. /\ dcRead'[r] = read /\ dcQueue'[r] = queue /\ dcLagged'[r] = lagged /\ dcTold'[r] = told
        /\ \A s \in Spools \ {r} : /\ dcRead'[s] = dcRead[s] /\ dcQueue'[s] = dcQueue[s]
                                   /\ dcLagged'[s] = dcLagged[s] /\ dcTold'[s] = dcTold[s]
    BY <1>3 DEF DcInv, DcTyped, read
  <2>3. DcTyped'
    BY <1>1, <1>3, <2>1 DEF DcInv, DcTyped, read, DcChanges
  <2>4. \A i \in 1 .. Len(read) : read[i].is = "event" => Between(queue, read[i].n, dcSent) /\ read[i].n <= dcSent
    <3> SUFFICES ASSUME NEW i \in 1 .. Len(read), read[i].is = "event"
                 PROVE  Between(queue, read[i].n, dcSent) /\ read[i].n <= dcSent
      OBVIOUS
    <3>1. CASE i = Len(dcRead[r]) + 1
      BY <1>3, <2>1, <3>1
    <3>2. CASE i # Len(dcRead[r]) + 1
      <4>1. i \in 1 .. Len(dcRead[r])
        BY <2>1, <3>2
      <4> QED
        BY <1>2, <1>3, <2>1, <4>1
    <3> QED
      BY <3>1, <3>2
  <2>5. ASSUME NEW i \in 1 .. Len(read), NEW j \in 1 .. Len(read), i < j, read[i].is = "event", read[j].is = "event"
        PROVE  read[i].n < read[j].n
    <3>1. i \in 1 .. Len(dcRead[r])
      BY <2>1, <2>5
    <3>2. CASE j = Len(dcRead[r]) + 1
      BY <1>3, <2>1, <2>5, <3>1, <3>2
    <3>3. CASE j # Len(dcRead[r]) + 1
      <4>1. j \in 1 .. Len(dcRead[r])
        BY <2>1, <3>3
      <4> QED
        BY <1>2, <2>1, <2>5, <3>1, <4>1
    <3> QED
      BY <3>2, <3>3
  <2>6. ReaderInv(r)'
    BY <1>1, <1>2, <1>3, <2>2, <2>4, <2>5 DEF ReaderInv
  <2>7. ASSUME NEW s \in Spools \ {r} PROVE ReaderInv(s)'
    BY <1>1, <2>2 DEF DcInv, ReaderInv
  <2> QED
    BY <2>3, <2>6, <2>7 DEF DcInv
<1>4. CASE /\ dcLagged[r] > 0 /\ dcLagged' = [dcLagged EXCEPT ![r] = 0]
           /\ dcRead' = [dcRead EXCEPT ![r] = Append(@, [is |-> "lost", n |-> dcLagged[r]])]
           /\ dcTold' = [dcTold EXCEPT ![r] = @ + dcLagged[r]]
           /\ UNCHANGED dcQueue
  <2> DEFINE e == [is |-> "lost", n |-> dcLagged[r]]
  <2>1. e \in DcEntries /\ e.is # "event"
    BY <1>1 DEF DcEntries
  <2>2. dcQueue' = [dcQueue EXCEPT ![r] = dcQueue[r]]
    BY <1>4 DEF DcInv, DcTyped
  <2>3. /\ dcTold[r] + dcLagged[r] \in Nat /\ (dcTold[r] + dcLagged[r]) + Len(dcQueue[r]) + 0 = dcDue[r]
    BY <1>1, <1>2
  <2>4. dcTold' = [dcTold EXCEPT ![r] = dcTold[r] + dcLagged[r]] /\ dcRead' = [dcRead EXCEPT ![r] = Append(dcRead[r], e)]
    BY <1>4
  <2> HIDE DEF e
  <2> QED
    BY <1>1, <1>2, <1>3, <1>4, <2>1, <2>2, <2>3, <2>4
<1>5. CASE /\ dcLagged[r] = 0 /\ dcQueue[r] # <<>>
           /\ dcRead' = [dcRead EXCEPT ![r] = Append(@, [is |-> "event", n |-> Head(dcQueue[r])])]
           /\ dcTold' = [dcTold EXCEPT ![r] = @ + 1]
           /\ dcQueue' = [dcQueue EXCEPT ![r] = Tail(@)] /\ UNCHANGED dcLagged
  <2> DEFINE h == Head(dcQueue[r])
             rest == Tail(dcQueue[r])
             e == [is |-> "event", n |-> h]
  <2>1. /\ rest \in Seq(Int) /\ Rises(rest) /\ Between(rest, h, dcSent) /\ Between(rest, 0, dcSent)
        /\ 0 < h /\ h <= dcSent /\ h \in Int
    BY <1>1, <1>2, <1>5, TailFacts, TailRises
  <2>2. Len(rest) = Len(dcQueue[r]) - 1
    BY <1>1, <1>5, TailFacts
  <2>3. e \in DcEntries /\ e.n = h /\ e.is = "event"
    BY <2>1 DEF DcEntries
  <2>4. ASSUME NEW i \in 1 .. Len(dcRead[r]), dcRead[r][i].is = "event"
        PROVE  Between(rest, dcRead[r][i].n, dcSent) /\ dcRead[r][i].n < h
    <3>1. dcRead[r][i].n \in Nat
      <4>1. dcRead[r][i] \in DcEntries
        BY <1>1
      <4> QED
        BY <4>1 DEF DcEntries
    <3>2. Between(dcQueue[r], dcRead[r][i].n, dcSent)
      BY <1>2, <2>4
    <3>3. dcQueue[r] \in Seq(Int) /\ dcRead[r][i].n \in Int /\ dcSent \in Int /\ Rises(dcQueue[r]) /\ dcQueue[r] # <<>>
      BY <1>1, <1>2, <1>5, <3>1
    <3>4. /\ Between(Tail(dcQueue[r]), dcRead[r][i].n, dcSent)
          /\ dcRead[r][i].n < Head(dcQueue[r])
      BY <3>2, <3>3, TailRises
    <3> QED
      BY <3>4
  <2>5. dcLagged' = [dcLagged EXCEPT ![r] = dcLagged[r]]
    BY <1>5 DEF DcInv, DcTyped
  <2>6. /\ dcTold[r] + 1 \in Nat /\ (dcTold[r] + 1) + Len(rest) + dcLagged[r] = dcDue[r] /\ Len(rest) <= Kept
    <3> HIDE DEF rest
    <3>1. dcTold[r] + Len(dcQueue[r]) + dcLagged[r] = dcDue[r] /\ Len(dcQueue[r]) <= Kept
      BY <1>2
    <3>2. dcTold[r] \in Nat /\ Len(dcQueue[r]) \in Nat /\ dcLagged[r] \in Nat /\ Kept \in Nat
      BY <1>1, DataChannelAssumption
    <3>3. (dcTold[r] + 1) + Len(rest) + dcLagged[r] = dcDue[r]
      BY <2>2, <3>1, <3>2, SMTT(30)
    <3>4. dcTold[r] + 1 \in Nat /\ Len(rest) <= Kept
      BY <2>2, <3>1, <3>2
    <3> QED
      BY <3>3, <3>4
  <2>7. /\ dcTold' = [dcTold EXCEPT ![r] = dcTold[r] + 1] /\ dcRead' = [dcRead EXCEPT ![r] = Append(dcRead[r], e)]
        /\ dcQueue' = [dcQueue EXCEPT ![r] = rest]
    BY <1>5
  <2> HIDE DEF e, h, rest
  <2> QED
    BY <1>1, <1>3, <2>1, <2>3, <2>4, <2>5, <2>6, <2>7
<1> QED
  BY <1>4, <1>5 DEF Recv

LEMMA DcStep == DcInv /\ [DcNext]_dcVars => DcInv'
<1> SUFFICES ASSUME DcInv, [DcNext]_dcVars PROVE DcInv'
  OBVIOUS
<1>1. CASE OnMessage
  <2>1. /\ dcState' = dcState /\ dcState \in DcStates /\ dcSent + 1 <= MaxMessages + DcChanges' /\ Broadcast
    BY <1>1, DataChannelAssumption DEF OnMessage, DcInv, DcTyped, DcStates, DcChanges
  <2> QED
    BY <2>1, BroadcastInv
<1>2. CASE OnStateChange
  <2>1. dcState' \in DcStates /\ dcSent + 1 <= MaxMessages + DcChanges' /\ Broadcast
    BY <1>2, DataChannelAssumption DEF OnStateChange, DcInv, DcTyped, DcStates, DcChanges
  <2> QED
    BY <2>1, BroadcastInv
<1>3. ASSUME NEW r \in Spools, Spool(r) PROVE DcInv'
  <2>1. DcTyped'
    BY <1>3 DEF Spool, DcInv, DcTyped, DcChanges
  <2>2. \A s \in Spools : ReaderInv(s)'
    BY <1>3 DEF Spool, DcInv, ReaderInv
  <2> QED
    BY <2>1, <2>2 DEF DcInv
<1>4. CASE UNCHANGED dcVars
  BY <1>4 DEF dcVars, DcInv, DcTyped, ReaderInv, DcChanges
<1> QED
  BY <1>1, <1>2, <1>3, <1>4, RecvInv DEF DcNext

(* However many readers spool and however slow they are, each event is read   *)
(* in order or reported lost: for any readers and any size of the buffer.     *)
THEOREM NoEventUnaccounted == DcInit /\ [][DcNext]_dcVars => [](DcTypeOK /\ SpoolsMissNothing)
<1>1. DcInv => DcTypeOK
  <2> SUFFICES ASSUME DcInv PROVE DcTypeOK
    OBVIOUS
  <2>1. dcSent <= MaxMessages + 3
    BY DataChannelAssumption DEF DcInv, DcTyped, DcStates, DcChanges
  <2>2. dcSource \in [Spools -> 0 .. dcObserver]
    <3>1. {0, dcObserver} \subseteq 0 .. dcObserver
      BY DEF DcInv, DcTyped
    <3> QED
      BY <3>1 DEF DcInv, DcTyped
  <2> QED
    BY <2>1, <2>2 DEF DcInv, DcTyped, ReaderInv, DcTypeOK, DcStates
<1>2. DcInv => SpoolsMissNothing
  BY QueueDomain DEF DcInv, DcTyped, ReaderInv, SpoolsMissNothing
<1> QED
  BY DcInitInv, DcStep, <1>1, <1>2, PTL

-----------------------------------------------------------------------------
(* The bridge from a frame source to a track.                                 *)

(* Up to the frame in hand, written; after it, in the channel.  The task runs *)
(* while there were fewer refusals in a row than it stands.                   *)
SinkInv ==
  /\ sinkTask \in {"idle", "writing", "ended"}
  /\ sinkFrames \in Seq(Int) /\ sinkWritten \in Seq(Int) /\ Len(sinkFrames) <= Capacity
  /\ sinkTaken \in Nat /\ sinkSourced \in Nat /\ sinkTaken <= sinkSourced /\ sinkSourced <= MaxSourced
  /\ Rises(sinkFrames) /\ Between(sinkFrames, sinkTaken, sinkSourced)
  /\ Rises(sinkWritten) /\ Between(sinkWritten, -1, sinkTaken)
  /\ sinkTask = "writing" => Between(sinkWritten, -1, sinkTaken - 1)
  /\ sinkErrors \in Nat /\ sinkRefused = sinkErrors
  /\ sinkTask # "ended" => sinkErrors < MaxErrors
  /\ sinkErrors <= MaxErrors
  /\ sinkTask = "ended" /\ sinkWanted => sinkErrors = MaxErrors

LEMMA SinkInitInv == SinkInit => SinkInv /\ sinkWanted \in BOOLEAN
<1>1. <<>> \in Seq(Int) /\ Len(<<>>) = 0
  BY EmptyQueue
<1>2. Rises(<<>>) /\ \A low, high : Between(<<>>, low, high)
  BY EmptyRises
<1>3. SinkInit => SinkInv
  BY <1>1, <1>2, TrackSinkAssumption DEF SinkInit, SinkInv
<1>4. SinkInit => sinkWanted \in BOOLEAN
  BY DEF SinkInit
<1> QED
  BY <1>3, <1>4

LEMMA SinkWantedStep == sinkWanted \in BOOLEAN /\ [SinkNext]_sinkVars => (sinkWanted \in BOOLEAN)'
BY DEF SinkNext, SinkStep, OnFrame, SourceDrops, SinkTake, TrackAccepts, TrackRefuses, sinkVars

LEMMA SinkInvStep == SinkInv /\ [SinkNext]_sinkVars => SinkInv'
<1> SUFFICES ASSUME SinkInv, [SinkNext]_sinkVars PROVE SinkInv'
  OBVIOUS
<1> USE TrackSinkAssumption DEF SinkInv
<1>1. CASE OnFrame
  <2>1. sinkSourced' = sinkSourced + 1 /\ sinkSourced' <= MaxSourced /\ sinkSourced' \in Nat
    BY <1>1 DEF OnFrame
  <2>2. Between(sinkFrames, sinkTaken, sinkSourced')
    BY <2>1, BetweenWidens
  <2>3. CASE sinkTask # "ended" /\ Len(sinkFrames) < Capacity
    <3>1. sinkFrames' = Append(sinkFrames, sinkSourced')
      BY <1>1, <2>3 DEF OnFrame
    <3>2. sinkFrames' \in Seq(Int) /\ Len(sinkFrames') = Len(sinkFrames) + 1 /\ Len(sinkFrames) \in Nat
      BY <2>1, <3>1, AppendFacts
    <3>3. Rises(sinkFrames') /\ Between(sinkFrames', sinkTaken, sinkSourced')
      BY <2>1, <3>1, AppendRises
    <3> QED
      BY <1>1, <2>1, <2>3, <3>2, <3>3 DEF OnFrame
  <2>4. CASE ~(sinkTask # "ended" /\ Len(sinkFrames) < Capacity)
    <3>1. CASE sinkTask = "ended"
      BY <1>1, <2>1, <2>2, <3>1 DEF OnFrame
    <3>2. CASE sinkTask # "ended" /\ ~(Len(sinkFrames) < Capacity)
      <4>1. UNCHANGED <<sinkWanted, sinkFrames, sinkTask, sinkErrors, sinkTaken, sinkWritten, sinkRefused>>
        BY <1>1, <3>2 DEF OnFrame
      <4> QED
        BY <2>1, <2>2, <4>1
    <3> QED
      BY <2>4, <3>1, <3>2
  <2> QED
    BY <2>3, <2>4
<1>2. CASE SourceDrops
  BY <1>2 DEF SourceDrops
<1>3. CASE SinkTake
  <2>1. CASE sinkFrames = <<>>
    BY <1>3, <2>1 DEF SinkTake
  <2>2. CASE sinkFrames # <<>>
    <3>1. /\ sinkTaken' = Head(sinkFrames) /\ sinkFrames' = Tail(sinkFrames) /\ sinkTask' = "writing"
          /\ sinkTask = "idle" /\ UNCHANGED <<sinkWanted, sinkErrors, sinkSourced, sinkWritten, sinkRefused>>
      BY <1>3, <2>2 DEF SinkTake
    <3>2. sinkFrames' \in Seq(Int) /\ Len(sinkFrames') = Len(sinkFrames) - 1 /\ Len(sinkFrames) \in Nat
      BY <2>2, <3>1, TailFacts
    <3>3. /\ Rises(sinkFrames') /\ Between(sinkFrames', sinkTaken', sinkSourced)
          /\ sinkTaken < sinkTaken' /\ sinkTaken' <= sinkSourced /\ sinkTaken' \in Int
      BY <2>2, <3>1, TailRises
    <3>4. Between(sinkWritten, -1, sinkTaken' - 1) /\ Between(sinkWritten, -1, sinkTaken')
      BY <3>3, BetweenWidens
    <3> QED
      BY <3>1, <3>2, <3>3, <3>4
  <2> QED
    BY <2>1, <2>2
<1>4. CASE TrackAccepts
  <2>1. sinkWritten' = Append(sinkWritten, sinkTaken) /\ sinkTask = "writing"
    BY <1>4 DEF TrackAccepts
  <2>2. sinkWritten' \in Seq(Int)
    BY <2>1, AppendFacts
  <2>3. Rises(sinkWritten') /\ Between(sinkWritten', -1, sinkTaken)
    BY <2>1, AppendRises
  <2> QED
    BY <1>4, <2>2, <2>3 DEF TrackAccepts
<1>5. CASE TrackRefuses
  <2>1. <<>> \in Seq(Int) /\ Len(<<>>) = 0 /\ Rises(<<>>) /\ Between(<<>>, sinkTaken, sinkSourced)
    BY EmptyQueue, EmptyRises
  <2> QED
    BY <1>5, <2>1 DEF TrackRefuses
<1>6. CASE UNCHANGED sinkVars
  BY <1>6 DEF sinkVars
<1> QED
  BY <1>1, <1>2, <1>3, <1>4, <1>5, <1>6 DEF SinkNext, SinkStep

(* Frames reach the track in the order they were made, and a track that is    *)
(* wanted is given up only after MaxErrors refusals in a row.                 *)
THEOREM BridgeGivesUpInOrder == SinkInit /\ [][SinkNext]_sinkVars => [](SinkTypeOK /\ GivesUpInOrder)
<1>1. SinkInv /\ sinkWanted \in BOOLEAN => SinkTypeOK
  <2>1. SinkInv => /\ sinkTask \in {"idle", "writing", "ended"}
                   /\ Len(sinkFrames) <= Capacity /\ sinkErrors \in 0 .. MaxErrors
                   /\ sinkSourced <= MaxSourced /\ sinkTaken \in 0 .. sinkSourced
    BY TrackSinkAssumption DEF SinkInv
  <2> QED
    BY <2>1 DEF SinkTypeOK
<1>2. SinkInv => GivesUpInOrder
  BY QueueDomain, TrackSinkAssumption DEF SinkInv, GivesUpInOrder, Rises
<1> QED
  BY SinkInitInv, SinkInvStep, SinkWantedStep, <1>1, <1>2, PTL

-----------------------------------------------------------------------------
(* Where a raw frame is, with one task writing.                               *)

OneWriter == \A v, w \in TrackWriters : v = w

TrackTypes ==
  /\ nRawFrames \in Nat
  /\ inPipeline \in Seq(1 .. nRawFrames) /\ encoded \in Seq(1 .. nRawFrames) /\ samplesWritten \in Seq(1 .. nRawFrames)
  /\ pushedFrames \subseteq 1 .. nRawFrames
TrackWriting ==
  /\ writerPc \in [TrackWriters -> {"idle", "init", "push", "pull", "send"}]
  /\ frameInHand \in [TrackWriters -> 0 .. nRawFrames]
(* Until it is pushed the frame in hand is the newest, and new to the encoder.*)
TrackHands ==
  /\ \A w \in TrackWriters : writerPc[w] \in {"init", "push"} =>
       frameInHand[w] \in 1 .. nRawFrames /\ frameInHand[w] \notin pushedFrames
  /\ \A w \in TrackWriters : (writerPc[w] = "init" => ~encoderUp) /\ (writerPc[w] = "push" => encoderUp)
  /\ ~encoderUp => inPipeline = <<>> /\ encoded = <<>>

Apart(p, e, h, s, r) ==
  /\ p \cap e = {} /\ p \cap h = {} /\ p \cap s = {} /\ p \cap r = {}
  /\ e \cap h = {} /\ e \cap s = {} /\ e \cap r = {}
  /\ h \cap s = {} /\ h \cap r = {} /\ s \cap r = {}

TrackPlaces ==
  /\ pushedFrames = Range(inPipeline) \cup Range(encoded) \cup InHand \cup Range(samplesWritten) \cup refusedPackets
  /\ Apart(Range(inPipeline), Range(encoded), InHand, Range(samplesWritten), refusedPackets)
  /\ IsInjective(inPipeline) /\ IsInjective(encoded) /\ IsInjective(samplesWritten)

TrackInv == TrackTypes /\ TrackWriting /\ TrackHands /\ TrackPlaces

HandOf(pc, hand, w) == IF pc[w] = "send" THEN {hand[w]} ELSE {}

LEMMA OneHand ==
  ASSUME OneWriter, NEW w \in TrackWriters
  PROVE  InHand = HandOf(writerPc, frameInHand, w) /\ InHand' = HandOf(writerPc', frameInHand', w)
<1>1. TrackWriters = {w}
  BY DEF OneWriter
<1> QED
  BY <1>1 DEF InHand, HandOf

(* The pipeline after it took frame f and gave the first n of its frames,     *)
(* with and without the one after them lost.                                  *)
LEMMA Split ==
  ASSUME NEW S, NEW s \in Seq(S), NEW e \in Seq(S), NEW x \in S, IsInjective(s), IsInjective(e),
         x \notin Range(s) \cup Range(e), Range(s) \cap Range(e) = {},
         NEW n \in 0 .. Len(s) + 1, NEW m \in {n + 1, n + 2}, m <= Len(s) + 2
  PROVE  LET all == Append(s, x)
             out == SubSeq(all, 1, n)
             in  == SubSeq(all, m, Len(all))
         IN /\ e \o out \in Seq(S) /\ IsInjective(e \o out) /\ in \in Seq(S) /\ IsInjective(in)
            /\ Range(e \o out) \cap Range(in) = {}
            /\ Range(e) \cup Range(s) \cup {x} =
                 Range(e \o out) \cup Range(in) \cup (IF m = n + 1 THEN {} ELSE {all[n + 1]})
            /\ m = n + 2 => /\ all[n + 1] \in S /\ all[n + 1] \in Range(s) \cup {x}
                            /\ all[n + 1] \notin Range(e \o out) \cup Range(in)
<1> DEFINE all == Append(s, x)
           out == SubSeq(all, 1, n)
           in  == SubSeq(all, m, Len(all))
<1>1. /\ all \in Seq(S) /\ Len(all) = Len(s) + 1 /\ Len(s) \in Nat
      /\ Range(all) = Range(s) \cup {x} /\ IsInjective(all)
  BY AppendFacts, AppendRange, AppendOnce
<1> HIDE DEF all
<1>2. /\ n \in 0 .. Len(all) /\ 1 \in 1 .. Len(all) + 1 /\ Len(all) \in 0 .. Len(all) /\ m \in 1 .. Len(all) + 1
      /\ n < m /\ n \in Int /\ m \in Int
  BY <1>1
<1>3. out \in Seq(S) /\ Range(out) = {all[i] : i \in 1 .. n} /\ IsInjective(out)
  BY <1>1, <1>2, PartOfQueue, PartInjective
<1>4. in \in Seq(S) /\ Range(in) = {all[i] : i \in m .. Len(all)} /\ IsInjective(in)
  BY <1>1, <1>2, PartOfQueue, PartInjective, SMTT(30)
<1>5. /\ Range(out) \cap Range(in) = {}
      /\ \A k \in n + 1 .. m - 1 : all[k] \notin Range(out) /\ all[k] \notin Range(in)
  BY <1>1, <1>2, PartsApart
<1>6. Range(all) = {all[i] : i \in 1 .. Len(all)}
  BY <1>1, RangeOfQueue
<1>7. /\ \A i \in 1 .. n : i \in 1 .. Len(all)
      /\ \A i \in m .. Len(all) : i \in 1 .. Len(all)
      /\ \A i \in 1 .. Len(all) : i \in 1 .. n \/ i \in m .. Len(all) \/ (m = n + 2 /\ i = n + 1)
      /\ m = n + 2 => n + 1 \in 1 .. Len(all) /\ n + 1 \in n + 1 .. m - 1
  BY <1>1, <1>2
<1> HIDE DEF in, out
<1>8. Range(out) \subseteq Range(all) /\ Range(in) \subseteq Range(all)
  BY <1>3, <1>4, <1>6, <1>7
<1>9. Range(all) = Range(out) \cup Range(in) \cup (IF m = n + 1 THEN {} ELSE {all[n + 1]})
  <2>1. CASE m = n + 1
    <3>1. m # n + 2
      BY <1>2, <2>1
    <3> QED
      BY <1>3, <1>4, <1>6, <1>7, <2>1, <3>1
  <2>2. CASE m = n + 2
    <3>1. m # n + 1
      BY <1>2, <2>2
    <3> QED
      BY <1>3, <1>4, <1>6, <1>7, <2>2, <3>1
  <2> QED
    BY <2>1, <2>2
<1>10. m = n + 2 => /\ all[n + 1] \in S /\ all[n + 1] \in Range(s) \cup {x}
                    /\ all[n + 1] \notin Range(out) \cup Range(in)
  <2> SUFFICES ASSUME m = n + 2 PROVE /\ all[n + 1] \in S /\ all[n + 1] \in Range(s) \cup {x}
                    /\ all[n + 1] \notin Range(out) \cup Range(in)
    OBVIOUS
  <2>1. n + 1 \in 1 .. Len(all) /\ n + 1 \in n + 1 .. m - 1
    BY <1>7
  <2> QED
    BY <1>1, <1>5, <1>6, <2>1
<1>11. Range(e) \cap Range(out) = {} /\ Range(e) \cap Range(all) = {}
  BY <1>1, <1>8
<1>12. e \o out \in Seq(S) /\ Range(e \o out) = Range(e) \cup Range(out) /\ IsInjective(e \o out)
  BY <1>3, <1>11, ConcatInjective
<1>13. Range(e \o out) \cap Range(in) = {}
  BY <1>5, <1>8, <1>11, <1>12
<1>14. Range(e) \cup Range(s) \cup {x} =
                 Range(e \o out) \cup Range(in) \cup (IF m = n + 1 THEN {} ELSE {all[n + 1]})
  BY <1>1, <1>9, <1>12
<1>15. m = n + 2 => all[n + 1] \notin Range(e \o out) \cup Range(in)
  BY <1>1, <1>10, <1>11, <1>12
<1> QED
  BY <1>4, <1>10, <1>12, <1>13, <1>14, <1>15 DEF all, out, in

LEMMA TrackCountsKept ==
  ASSUME TrackTypes, VideoTrackAssumption, [VideoTrackNext]_videoTrackVars
  PROVE  nRawFrames' \in Nat /\ 1 .. nRawFrames \subseteq 1 .. nRawFrames' /\ 0 .. nRawFrames \subseteq 0 .. nRawFrames'
<1>1. nRawFrames' = nRawFrames \/ nRawFrames' = nRawFrames + 1
  BY DEF VideoTrackNext, WriteRaw, InitEncoder, EncoderRefused, PushRefused, PushFrame, DrainFails, PullPacket, PulledAll,
     SendSample, SampleRefused, videoTrackVars
<1> QED
  BY <1>1 DEF TrackTypes

LEMMA TrackWritingKept ==
  ASSUME TrackTypes, TrackWriting, VideoTrackAssumption, [VideoTrackNext]_videoTrackVars PROVE TrackWriting'
<1> DEFINE Pcs == {"idle", "init", "push", "pull", "send"}
<1>0. /\ nRawFrames' \in Nat /\ 0 .. nRawFrames \subseteq 0 .. nRawFrames'
      /\ frameInHand \in [TrackWriters -> 0 .. nRawFrames']
  <2>1. nRawFrames' \in Nat /\ 0 .. nRawFrames \subseteq 0 .. nRawFrames'
    BY TrackCountsKept
  <2> QED
    BY <2>1 DEF TrackWriting
<1>1. ASSUME NEW w \in TrackWriters, NEW from, NEW to \in Pcs, WriterGoes(w, from, to)
      PROVE  writerPc' \in [TrackWriters -> Pcs]
  BY <1>1 DEF WriterGoes, TrackWriting
<1>2. CASE UNCHANGED videoTrackVars
  BY <1>2 DEF videoTrackVars, TrackWriting
<1>3. ASSUME NEW w \in TrackWriters, WriteRaw(w) PROVE TrackWriting'
  <2>1. writerPc' \in [TrackWriters -> Pcs]
    BY <1>1, <1>3 DEF WriteRaw
  <2>2. nRawFrames' \in 0 .. nRawFrames'
    BY <1>0
  <2>3. frameInHand' \in [TrackWriters -> 0 .. nRawFrames']
    BY <1>0, <1>3, <2>2 DEF WriteRaw
  <2> QED
    BY <2>1, <2>3 DEF TrackWriting
<1>4. ASSUME NEW w \in TrackWriters, PullPacket(w) PROVE TrackWriting'
  <2>1. writerPc' \in [TrackWriters -> Pcs]
    BY <1>1, <1>4 DEF PullPacket
  <2>2. Len(encoded) \in Nat \ {0}
    BY <1>4, QueueDomain DEF PullPacket, TrackTypes
  <2>3. Last(encoded) \in 0 .. nRawFrames'
    <3>1. Last(encoded) \in 1 .. nRawFrames
      BY <2>2 DEF Last, TrackTypes
    <3> QED
      BY <1>0, <3>1 DEF TrackTypes
  <2>4. frameInHand' \in [TrackWriters -> 0 .. nRawFrames']
    BY <1>0, <1>4, <2>3 DEF PullPacket
  <2> QED
    BY <2>1, <2>4 DEF TrackWriting
<1>5. ASSUME NEW w \in TrackWriters,
             \/ InitEncoder(w) \/ EncoderRefused(w) \/ PushRefused(w) \/ PushFrame(w) \/ DrainFails(w)
             \/ PulledAll(w) \/ SendSample(w) \/ SampleRefused(w)
      PROVE  TrackWriting'
  <2>1. frameInHand' = frameInHand
    BY <1>5 DEF InitEncoder, EncoderRefused, PushRefused, PushFrame, DrainFails, PulledAll, SendSample, SampleRefused
  <2>2. \E from, to \in Pcs : WriterGoes(w, from, to)
    BY <1>5 DEF InitEncoder, EncoderRefused, PushRefused, PushFrame, DrainFails, PulledAll, SendSample, SampleRefused
  <2> QED
    BY <1>0, <1>1, <2>1, <2>2 DEF TrackWriting
<1> QED
  BY <1>2, <1>3, <1>4, <1>5 DEF VideoTrackNext

(* A step of the one writer that leaves every frame where it is.              *)
LEMMA TrackStays ==
  ASSUME OneWriter, TrackInv, NEW w \in TrackWriters, NEW from, NEW to, WriterGoes(w, from, to), from # "send", to # "send",
         UNCHANGED <<inPipeline, encoded, samplesWritten, refusedPackets, pushedFrames>>
  PROVE  TrackPlaces'
<1>1. InHand = {} /\ InHand' = {}
  <2>1. writerPc[w] # "send" /\ writerPc'[w] # "send"
    BY DEF WriterGoes, TrackInv, TrackWriting
  <2> QED
    BY <2>1, OneHand DEF HandOf
<1> QED
  BY <1>1 DEF TrackInv, TrackPlaces, Apart

LEMMA TrackStep ==
  ASSUME OneWriter, TrackInv, VideoTrackAssumption, [VideoTrackNext]_videoTrackVars
  PROVE  TrackTypes' /\ TrackHands' /\ TrackPlaces'
<1> USE DEF TrackInv
<1> DEFINE Frames == 1 .. nRawFrames
<1>0. nRawFrames \in Nat /\ nRawFrames' \in Nat /\ Frames \subseteq 1 .. nRawFrames'
  BY TrackCountsKept DEF TrackTypes
<1>1. CASE UNCHANGED videoTrackVars
  BY <1>1 DEF videoTrackVars, TrackTypes, TrackHands, TrackPlaces, InHand
<1>2. ASSUME NEW w \in TrackWriters, WriteRaw(w) PROVE TrackTypes' /\ TrackHands' /\ TrackPlaces'
  <2>1. /\ nRawFrames' = nRawFrames + 1 /\ frameInHand' = [frameInHand EXCEPT ![w] = nRawFrames']
        /\ WriterGoes(w, "idle", IF encoderUp THEN "push" ELSE "init")
        /\ UNCHANGED <<encoderUp, inPipeline, encoded, samplesWritten, refusedPackets, pushedFrames>>
    BY <1>2 DEF WriteRaw
  <2>2. TrackPlaces'
    <3>1. (IF encoderUp THEN "push" ELSE "init") # "send"
      OBVIOUS
    <3> QED
      BY <2>1, <3>1, TrackStays
  <2>3. TrackTypes'
    BY <1>0, <2>1 DEF TrackTypes
  <2>4. TrackWriters = {w} /\ frameInHand'[w] = nRawFrames' /\ writerPc'[w] = (IF encoderUp THEN "push" ELSE "init")
    BY <2>1 DEF OneWriter, TrackWriting, WriterGoes
  <2>5. nRawFrames' \in 1 .. nRawFrames' /\ nRawFrames' \notin pushedFrames'
    BY <1>0, <2>1 DEF TrackTypes
  <2> QED
    BY <2>1, <2>2, <2>3, <2>4, <2>5 DEF TrackHands
<1>3. ASSUME NEW w \in TrackWriters, InitEncoder(w) PROVE TrackTypes' /\ TrackHands' /\ TrackPlaces'
  <2>1. /\ encoderUp' = TRUE /\ inPipeline' = <<>> /\ encoded' = <<>> /\ WriterGoes(w, "init", "push")
        /\ UNCHANGED <<frameInHand, samplesWritten, refusedPackets, nRawFrames, pushedFrames>>
    BY <1>3 DEF InitEncoder
  <2>2. inPipeline = <<>> /\ encoded = <<>> /\ writerPc[w] = "init"
    BY <2>1 DEF WriterGoes, TrackHands
  <2>3. TrackPlaces'
    BY <2>1, <2>2, TrackStays
  <2>4. TrackTypes'
    BY <2>1, <2>2 DEF TrackTypes
  <2>5. TrackWriters = {w} /\ writerPc'[w] = "push"
    BY <2>1 DEF OneWriter, TrackWriting, WriterGoes
  <2> QED
    BY <2>1, <2>2, <2>3, <2>4, <2>5 DEF TrackHands
<1>4. ASSUME NEW w \in TrackWriters, EncoderRefused(w) \/ PushRefused(w) \/ PulledAll(w)
      PROVE  TrackTypes' /\ TrackHands' /\ TrackPlaces'
  <2>1. PICK from \in {"init", "push", "pull"} : WriterGoes(w, from, "idle")
    BY <1>4 DEF EncoderRefused, PushRefused, PulledAll
  <2>2. UNCHANGED <<encoderUp, inPipeline, encoded, frameInHand, samplesWritten, refusedPackets, nRawFrames, pushedFrames>>
    BY <1>4 DEF EncoderRefused, PushRefused, PulledAll
  <2>3. TrackPlaces'
    BY <2>1, <2>2, TrackStays
  <2>4. TrackWriters = {w} /\ writerPc'[w] = "idle"
    BY <2>1 DEF OneWriter, TrackWriting, WriterGoes
  <2> QED
    BY <2>2, <2>3, <2>4 DEF TrackHands, TrackTypes
<1>5. ASSUME NEW w \in TrackWriters, PushFrame(w) PROVE TrackTypes' /\ TrackHands' /\ TrackPlaces'
  <2> DEFINE f == frameInHand[w]
             all == Append(inPipeline, f)
  <2>1. PICK n \in 0 .. Len(inPipeline) + 1 : DrainPackets(all, n)
    BY <1>5 DEF PushFrame
  <2>2. /\ WriterGoes(w, "push", "pull") /\ pushedFrames' = pushedFrames \cup {f}
        /\ UNCHANGED <<encoderUp, frameInHand, samplesWritten, refusedPackets, nRawFrames>>
    BY <1>5 DEF PushFrame
  <2>3. TrackWriters = {w} /\ writerPc[w] = "push" /\ writerPc'[w] = "pull"
    BY <2>2 DEF OneWriter, TrackWriting, WriterGoes
  <2>4. InHand = {} /\ InHand' = {}
    BY <2>3, OneHand DEF HandOf
  <2>5. f \in Frames /\ f \notin pushedFrames
    BY <2>3 DEF TrackHands
  <2>6. /\ inPipeline \in Seq(Frames) /\ encoded \in Seq(Frames) /\ IsInjective(inPipeline) /\ IsInjective(encoded)
        /\ f \notin Range(inPipeline) \cup Range(encoded) /\ Range(inPipeline) \cap Range(encoded) = {}
        /\ Len(inPipeline) \in Nat
    BY <2>5, QueueDomain DEF TrackTypes, TrackPlaces, Apart
  <2>7. n + 1 \in {n + 1, n + 2} /\ n + 1 <= Len(inPipeline) + 2 /\ n + 1 # n + 2
    BY <2>6
  <2>8. encoded' = encoded \o SubSeq(all, 1, n) /\ inPipeline' = SubSeq(all, n + 1, Len(all))
    BY <2>1 DEF DrainPackets
  <2> HIDE DEF f
  <2>9. /\ encoded' \in Seq(Frames) /\ IsInjective(encoded') /\ inPipeline' \in Seq(Frames) /\ IsInjective(inPipeline')
        /\ Range(encoded') \cap Range(inPipeline') = {}
        /\ Range(encoded) \cup Range(inPipeline) \cup {f} = Range(encoded') \cup Range(inPipeline')
    <3> HIDE DEF Frames
    <3>1. /\ encoded \o SubSeq(all, 1, n) \in Seq(Frames) /\ IsInjective(encoded \o SubSeq(all, 1, n))
          /\ SubSeq(all, n + 1, Len(all)) \in Seq(Frames) /\ IsInjective(SubSeq(all, n + 1, Len(all)))
          /\ Range(encoded \o SubSeq(all, 1, n)) \cap Range(SubSeq(all, n + 1, Len(all))) = {}
          /\ Range(encoded) \cup Range(inPipeline) \cup {f} =
               Range(encoded \o SubSeq(all, 1, n)) \cup Range(SubSeq(all, n + 1, Len(all)))
      BY <2>5, <2>6, <2>7, Split
    <3> HIDE DEF all
    <3> QED
      BY <2>8, <3>1
  <2> HIDE DEF all
  <2>10. TrackTypes'
    BY <2>2, <2>5, <2>9 DEF TrackTypes
  <2>11. TrackPlaces'
    <3>1. /\ pushedFrames' = Range(inPipeline') \cup Range(encoded') \cup InHand' \cup Range(samplesWritten') \cup refusedPackets'
          /\ f \notin Range(samplesWritten) \cup refusedPackets
      BY <2>2, <2>4, <2>5, <2>9 DEF TrackPlaces
    <3>2. \A x \in Range(encoded') \cup Range(inPipeline') : x \notin Range(samplesWritten) \cup refusedPackets
      BY <2>9, <3>1 DEF TrackPlaces, Apart
    <3> QED
      BY <2>2, <2>4, <2>9, <3>1, <3>2 DEF TrackPlaces, Apart
  <2> QED
    BY <2>2, <2>3, <2>10, <2>11 DEF TrackHands
<1>6. ASSUME NEW w \in TrackWriters, DrainFails(w) PROVE TrackTypes' /\ TrackHands' /\ TrackPlaces'
  <2> DEFINE f == frameInHand[w]
             all == Append(inPipeline, f)
  <2>1. PICK n \in 0 .. Len(inPipeline) :
          /\ refusedPackets' = refusedPackets \cup {all[n + 1]}
          /\ encoded' = encoded \o SubSeq(all, 1, n) /\ inPipeline' = SubSeq(all, n + 2, Len(all))
    BY <1>6 DEF DrainFails
  <2>2. /\ WriterGoes(w, "push", "idle") /\ pushedFrames' = pushedFrames \cup {f}
        /\ UNCHANGED <<encoderUp, frameInHand, samplesWritten, nRawFrames>>
    BY <1>6 DEF DrainFails
  <2>3. TrackWriters = {w} /\ writerPc[w] = "push" /\ writerPc'[w] = "idle"
    BY <2>2 DEF OneWriter, TrackWriting, WriterGoes
  <2>4. InHand = {} /\ InHand' = {}
    BY <2>3, OneHand DEF HandOf
  <2>5. f \in Frames /\ f \notin pushedFrames
    BY <2>3 DEF TrackHands
  <2>6. /\ inPipeline \in Seq(Frames) /\ encoded \in Seq(Frames) /\ IsInjective(inPipeline) /\ IsInjective(encoded)
        /\ f \notin Range(inPipeline) \cup Range(encoded) /\ Range(inPipeline) \cap Range(encoded) = {}
        /\ Len(inPipeline) \in Nat
    BY <2>5, QueueDomain DEF TrackTypes, TrackPlaces, Apart
  <2>7. n + 2 \in {n + 1, n + 2} /\ n + 2 <= Len(inPipeline) + 2 /\ n + 1 # n + 2 /\ n \in 0 .. Len(inPipeline) + 1
    BY <2>6
  <2> DEFINE lost == all[n + 1]
  <2> HIDE DEF f
  <2>9. /\ encoded' \in Seq(Frames) /\ IsInjective(encoded') /\ inPipeline' \in Seq(Frames) /\ IsInjective(inPipeline')
        /\ Range(encoded') \cap Range(inPipeline') = {}
        /\ Range(encoded) \cup Range(inPipeline) \cup {f} = Range(encoded') \cup Range(inPipeline') \cup {lost}
        /\ lost \in Frames /\ lost \in Range(inPipeline) \cup {f} /\ lost \notin Range(encoded') \cup Range(inPipeline')
    <3> HIDE DEF Frames
    <3>1. /\ encoded \o SubSeq(all, 1, n) \in Seq(Frames) /\ IsInjective(encoded \o SubSeq(all, 1, n))
          /\ SubSeq(all, n + 2, Len(all)) \in Seq(Frames) /\ IsInjective(SubSeq(all, n + 2, Len(all)))
          /\ Range(encoded \o SubSeq(all, 1, n)) \cap Range(SubSeq(all, n + 2, Len(all))) = {}
          /\ Range(encoded) \cup Range(inPipeline) \cup {f} =
               Range(encoded \o SubSeq(all, 1, n)) \cup Range(SubSeq(all, n + 2, Len(all))) \cup {all[n + 1]}
          /\ all[n + 1] \in Frames /\ all[n + 1] \in Range(inPipeline) \cup {f}
          /\ all[n + 1] \notin Range(encoded \o SubSeq(all, 1, n)) \cup Range(SubSeq(all, n + 2, Len(all)))
      BY <2>5, <2>6, <2>7, Split
    <3> HIDE DEF all
    <3> QED
      BY <2>1, <3>1
  <2>8. refusedPackets' = refusedPackets \cup {lost}
    BY <2>1
  <2> HIDE DEF all, lost
  <2>10. TrackTypes'
    BY <2>2, <2>5, <2>9 DEF TrackTypes
  <2>11. TrackPlaces'
    <3>1. /\ pushedFrames' = Range(inPipeline') \cup Range(encoded') \cup InHand' \cup Range(samplesWritten') \cup refusedPackets'
          /\ f \notin Range(samplesWritten) \cup refusedPackets
      BY <2>2, <2>4, <2>5, <2>8, <2>9 DEF TrackPlaces
    <3>2. \A x \in Range(encoded') \cup Range(inPipeline') \cup {lost} : x \notin Range(samplesWritten) \cup refusedPackets
      BY <2>9, <3>1 DEF TrackPlaces, Apart
    <3> QED
      BY <2>2, <2>4, <2>8, <2>9, <3>1, <3>2 DEF TrackPlaces, Apart
  <2> QED
    BY <2>2, <2>3, <2>10, <2>11 DEF TrackHands
<1>7. ASSUME NEW w \in TrackWriters, PullPacket(w) PROVE TrackTypes' /\ TrackHands' /\ TrackPlaces'
  <2> DEFINE k == Len(encoded)
  <2>1. /\ encoded # <<>> /\ frameInHand' = [frameInHand EXCEPT ![w] = encoded[k]] /\ encoded' = SubSeq(encoded, 1, k - 1)
        /\ WriterGoes(w, "pull", "send")
        /\ UNCHANGED <<encoderUp, inPipeline, samplesWritten, refusedPackets, nRawFrames, pushedFrames>>
    BY <1>7 DEF PullPacket, Last, Front
  <2>2. TrackWriters = {w} /\ writerPc[w] = "pull" /\ writerPc'[w] = "send" /\ frameInHand'[w] = encoded[k]
    BY <2>1 DEF OneWriter, TrackWriting, WriterGoes
  <2>3. InHand = {} /\ InHand' = {encoded[k]}
    BY <2>2, OneHand DEF HandOf
  <2>4. encoded \in Seq(Frames) /\ k \in Nat \ {0} /\ IsInjective(encoded)
    BY <2>1, QueueDomain DEF TrackTypes, TrackPlaces
  <2>5. /\ 1 \in 1 .. k + 1 /\ k - 1 \in 0 .. k /\ k + 1 \in 1 .. k + 1 /\ k - 1 < k + 1 /\ k \in (k - 1) + 1 .. (k + 1) - 1
        /\ \A i \in 1 .. k : i \in 1 .. k - 1 \/ i = k
        /\ \A i \in 1 .. k - 1 : i \in 1 .. k
        /\ k \in 1 .. k
    BY <2>4
  <2>6. /\ encoded' \in Seq(Frames) /\ IsInjective(encoded')
        /\ Range(encoded') = {encoded[i] : i \in 1 .. k - 1}
    <3> HIDE DEF Frames
    <3> QED
      <4>1. SubSeq(encoded, 1, k - 1) \in Seq(Frames) /\ Range(SubSeq(encoded, 1, k - 1)) = {encoded[i] : i \in 1 .. k - 1}
        <5>1. encoded \in Seq(Frames) /\ 1 \in 1 .. Len(encoded) + 1 /\ k - 1 \in 0 .. Len(encoded)
          BY <2>4, <2>5
        <5> QED
          BY <5>1, PartOfQueue
      <4>2. IsInjective(SubSeq(encoded, 1, k - 1))
        BY <2>4, <2>5, PartInjective
      <4> HIDE DEF k
      <4> QED
        BY <2>1, <4>1, <4>2
  <2>7. encoded[k] \notin Range(encoded')
    <3> HIDE DEF Frames
    <3> QED
      BY <2>1, <2>4, <2>5, PartsApart
  <2>8. Range(encoded) = {encoded[i] : i \in 1 .. k}
    BY <2>4, RangeOfQueue
  <2> HIDE DEF k
  <2>9. Range(encoded) = Range(encoded') \cup {encoded[k]}
    BY <2>5, <2>6, <2>8
  <2>10. TrackTypes'
    BY <2>1, <2>6 DEF TrackTypes
  <2>11. TrackPlaces'
    BY <2>1, <2>3, <2>6, <2>7, <2>9 DEF TrackPlaces, Apart
  <2>12. ~encoderUp' => inPipeline' = <<>> /\ encoded' = <<>>
    BY <2>1 DEF TrackHands
  <2> QED
    BY <2>2, <2>10, <2>11, <2>12 DEF TrackHands
<1>8. ASSUME NEW w \in TrackWriters, SendSample(w) PROVE TrackTypes' /\ TrackHands' /\ TrackPlaces'
  <2> DEFINE f == frameInHand[w]
  <2>1. /\ WriterGoes(w, "send", "pull") /\ samplesWritten' = Append(samplesWritten, f)
        /\ UNCHANGED <<encoderUp, inPipeline, encoded, frameInHand, refusedPackets, nRawFrames, pushedFrames>>
    BY <1>8 DEF SendSample
  <2>2. TrackWriters = {w} /\ writerPc[w] = "send" /\ writerPc'[w] = "pull"
    BY <2>1 DEF OneWriter, TrackWriting, WriterGoes
  <2>3. InHand = {f} /\ InHand' = {}
    BY <2>2, OneHand DEF HandOf
  <2>4. f \in Frames /\ f \notin Range(samplesWritten)
    BY <2>3 DEF TrackPlaces, Apart, TrackTypes
  <2> HIDE DEF f
  <2>5. /\ samplesWritten' \in Seq(Frames) /\ Range(samplesWritten') = Range(samplesWritten) \cup {f}
        /\ IsInjective(samplesWritten')
    <3>1. samplesWritten \in Seq(Frames) /\ IsInjective(samplesWritten)
      BY DEF TrackTypes, TrackPlaces
    <3> HIDE DEF Frames
    <3> QED
      BY <2>1, <2>4, <3>1, AppendFacts, AppendRange, AppendOnce
  <2>6. TrackTypes'
    BY <2>1, <2>5 DEF TrackTypes
  <2>7. TrackPlaces'
    BY <2>1, <2>3, <2>5 DEF TrackPlaces, Apart
  <2> QED
    BY <2>1, <2>2, <2>6, <2>7 DEF TrackHands
<1>9. ASSUME NEW w \in TrackWriters, SampleRefused(w) PROVE TrackTypes' /\ TrackHands' /\ TrackPlaces'
  <2> DEFINE f == frameInHand[w]
  <2>1. /\ WriterGoes(w, "send", "idle") /\ refusedPackets' = refusedPackets \cup {f}
        /\ UNCHANGED <<encoderUp, inPipeline, encoded, frameInHand, samplesWritten, nRawFrames, pushedFrames>>
    BY <1>9 DEF SampleRefused
  <2>2. TrackWriters = {w} /\ writerPc[w] = "send" /\ writerPc'[w] = "idle"
    BY <2>1 DEF OneWriter, TrackWriting, WriterGoes
  <2>3. InHand = {f} /\ InHand' = {}
    BY <2>2, OneHand DEF HandOf
  <2> HIDE DEF f
  <2>4. TrackPlaces'
    BY <2>1, <2>3 DEF TrackPlaces, Apart
  <2> QED
    BY <2>1, <2>2, <2>4 DEF TrackHands, TrackTypes
<1> QED
  BY <1>1, <1>2, <1>3, <1>4, <1>5, <1>6, <1>7, <1>8, <1>9 DEF VideoTrackNext

LEMMA TrackAccounts == TrackInv => VideoTrackTypeOK /\ FramesAccountedFor
<1> SUFFICES ASSUME TrackInv PROVE VideoTrackTypeOK /\ FramesAccountedFor
  OBVIOUS
<1> USE DEF TrackInv
<1>1. VideoTrackTypeOK
  BY DEF VideoTrackTypeOK, TrackTypes, TrackWriting, TrackHands
<1> DEFINE Frames == 1 .. nRawFrames
           both == inPipeline \o encoded
<1>2. inPipeline \in Seq(Frames) /\ encoded \in Seq(Frames) /\ samplesWritten \in Seq(Frames)
  BY DEF TrackTypes
<1> HIDE DEF Frames
<1>3. both \in Seq(Frames) /\ Range(both) = Range(inPipeline) \cup Range(encoded) /\ IsInjective(both)
  BY <1>2, ConcatInjective DEF TrackPlaces, Apart
<1>4. Range(both) \cap Range(samplesWritten) = {}
  BY <1>3 DEF TrackPlaces, Apart
<1> HIDE DEF both
<1>5. /\ Range(both \o samplesWritten) = Range(both) \cup Range(samplesWritten)
      /\ IsInjective(both \o samplesWritten)
  BY <1>2, <1>3, <1>4, ConcatInjective DEF TrackPlaces
<1>6. refusedPackets \cap Range(both \o samplesWritten) = {}
  BY <1>3, <1>5 DEF TrackPlaces, Apart
<1> QED
  BY <1>1, <1>5, <1>6 DEF FramesAccountedFor, TrackPlaces, both

LEMMA TrackInitInv == VideoTrackInit => TrackInv
<1> SUFFICES ASSUME VideoTrackInit PROVE TrackInv
  OBVIOUS
<1>1. /\ inPipeline = <<>> /\ encoded = <<>> /\ samplesWritten = <<>> /\ nRawFrames = 0 /\ encoderUp = FALSE
      /\ refusedPackets = {} /\ pushedFrames = {}
      /\ writerPc = [w \in TrackWriters |-> "idle"] /\ frameInHand = [w \in TrackWriters |-> 0]
  BY DEF VideoTrackInit
<1>2. <<>> \in Seq(1 .. 0) /\ Range(<<>>) = {} /\ IsInjective(<<>>)
  BY EmptyQueue DEF Range, IsInjective
<1>3. TrackTypes
  BY <1>1, <1>2 DEF TrackTypes
<1>4. TrackWriting
  BY <1>1 DEF TrackWriting
<1>5. TrackHands
  BY <1>1 DEF TrackHands
<1>6. InHand = {}
  BY <1>1 DEF InHand
<1> QED
  BY <1>1, <1>2, <1>3, <1>4, <1>5, <1>6 DEF TrackInv, TrackPlaces, Apart

(* With one task writing, a frame the encoder took is in one place alone: in  *)
(* its pipeline, in its buffer, in the task's hand, written or refused        *)
(* (webrtc_rs.rs:548-593).                                                    *)
THEOREM OneWriterKeepsFrames == OneWriter /\ VideoTrackSpec => [](VideoTrackTypeOK /\ FramesAccountedFor)
<1> SUFFICES ASSUME OneWriter PROVE VideoTrackSpec => [](VideoTrackTypeOK /\ FramesAccountedFor)
  OBVIOUS
<1>1. TrackInv /\ [VideoTrackNext]_videoTrackVars => TrackInv'
  BY TrackStep, TrackWritingKept, VideoTrackAssumption DEF TrackInv
<1> QED
  BY TrackInitInv, TrackAccounts, <1>1, PTL DEF VideoTrackSpec

(* However many tasks write: a frame in hand is one that was written, and one *)
(* is pushed only to an encoder that is there.                                *)
TrackFed ==
  /\ \A w \in TrackWriters : writerPc[w] \in {"init", "push", "send"} => frameInHand[w] \in 1 .. nRawFrames
  /\ \A w \in TrackWriters : writerPc[w] = "push" => encoderUp
  /\ ~encoderUp => inPipeline = <<>> /\ encoded = <<>>

TrackTyped == TrackTypes /\ TrackWriting /\ TrackFed

(* What a task's step does to the tasks: the others are where they were.      *)
LEMMA TrackTaskMoves ==
  ASSUME TrackTyped, nRawFrames' \in Nat, 1 .. nRawFrames \subseteq 1 .. nRawFrames', encoderUp => encoderUp',
         NEW w \in TrackWriters, NEW from, NEW to, WriterGoes(w, from, to),
         \A x \in TrackWriters \ {w} : frameInHand'[x] = frameInHand[x],
         to \in {"init", "push", "send"} => frameInHand'[w] \in 1 .. nRawFrames',
         to = "push" => encoderUp'
  PROVE  /\ \A x \in TrackWriters : writerPc'[x] \in {"init", "push", "send"} => frameInHand'[x] \in 1 .. nRawFrames'
         /\ \A x \in TrackWriters : writerPc'[x] = "push" => encoderUp'
<1>1. writerPc'[w] = to /\ \A x \in TrackWriters \ {w} : writerPc'[x] = writerPc[x]
  BY DEF WriterGoes, TrackTyped, TrackWriting
<1>2. ASSUME NEW x \in TrackWriters
      PROVE  /\ writerPc'[x] \in {"init", "push", "send"} => frameInHand'[x] \in 1 .. nRawFrames'
             /\ writerPc'[x] = "push" => encoderUp'
  <2>1. CASE x = w
    BY <1>1, <2>1
  <2>2. CASE x # w
    BY <1>1, <2>2 DEF TrackTyped, TrackFed
  <2> QED
    BY <2>1, <2>2
<1> QED
  BY <1>2

LEMMA TrackTypedStep ==
  ASSUME TrackTyped, VideoTrackAssumption, [VideoTrackNext]_videoTrackVars
  PROVE  TrackTypes' /\ TrackFed'
<1> DEFINE Frames == 1 .. nRawFrames
<1>0. nRawFrames \in Nat /\ nRawFrames' \in Nat /\ Frames \subseteq 1 .. nRawFrames'
  BY TrackCountsKept DEF TrackTypes, TrackTyped
<1>1. CASE UNCHANGED videoTrackVars
  BY <1>1 DEF videoTrackVars, TrackTypes, TrackFed, TrackTyped
<1>2. ASSUME NEW w \in TrackWriters, WriteRaw(w) PROVE TrackTypes' /\ TrackFed'
  <2>1. /\ nRawFrames' = nRawFrames + 1 /\ frameInHand' = [frameInHand EXCEPT ![w] = nRawFrames']
        /\ WriterGoes(w, "idle", IF encoderUp THEN "push" ELSE "init")
        /\ UNCHANGED <<encoderUp, inPipeline, encoded, samplesWritten, refusedPackets, pushedFrames>>
    BY <1>2 DEF WriteRaw
  <2>2. TrackTypes'
    BY <1>0, <2>1 DEF TrackTypes, TrackTyped
  <2>3. frameInHand'[w] = nRawFrames' /\ \A x \in TrackWriters \ {w} : frameInHand'[x] = frameInHand[x]
    BY <2>1 DEF TrackTyped, TrackWriting
  <2>4. nRawFrames' \in 1 .. nRawFrames'
    BY <1>0, <2>1
  <2>5. /\ \A x \in TrackWriters : writerPc'[x] \in {"init", "push", "send"} => frameInHand'[x] \in 1 .. nRawFrames'
        /\ \A x \in TrackWriters : writerPc'[x] = "push" => encoderUp'
    <3> DEFINE to == IF encoderUp THEN "push" ELSE "init"
    <3>1. WriterGoes(w, "idle", to) /\ (to = "push" => encoderUp') /\ (encoderUp => encoderUp')
          /\ (to \in {"init", "push", "send"} => frameInHand'[w] \in 1 .. nRawFrames')
      BY <2>1, <2>3, <2>4
    <3> HIDE DEF to
    <3> QED
      BY <1>0, <2>3, <3>1, TrackTaskMoves
  <2> QED
    BY <2>1, <2>2, <2>5 DEF TrackFed, TrackTyped
<1>3. ASSUME NEW w \in TrackWriters, InitEncoder(w) PROVE TrackTypes' /\ TrackFed'
  <2>1. /\ encoderUp' = TRUE /\ inPipeline' = <<>> /\ encoded' = <<>> /\ WriterGoes(w, "init", "push")
        /\ UNCHANGED <<frameInHand, samplesWritten, refusedPackets, nRawFrames, pushedFrames>>
    BY <1>3 DEF InitEncoder
  <2>2. TrackTypes'
    BY <2>1, EmptyQueue DEF TrackTypes, TrackTyped
  <2>3. frameInHand[w] \in 1 .. nRawFrames
    BY <2>1 DEF WriterGoes, TrackTyped, TrackFed
  <2>4. /\ \A x \in TrackWriters : writerPc'[x] \in {"init", "push", "send"} => frameInHand'[x] \in 1 .. nRawFrames'
        /\ \A x \in TrackWriters : writerPc'[x] = "push" => encoderUp'
    BY <1>0, <2>1, <2>3, TrackTaskMoves
  <2> QED
    BY <2>1, <2>2, <2>4 DEF TrackFed
<1>4. ASSUME NEW w \in TrackWriters, EncoderRefused(w) \/ PushRefused(w) \/ PulledAll(w) \/ SampleRefused(w)
      PROVE  TrackTypes' /\ TrackFed'
  <2>1. PICK from \in {"init", "push", "pull", "send"} : WriterGoes(w, from, "idle")
    BY <1>4 DEF EncoderRefused, PushRefused, PulledAll, SampleRefused
  <2>2. UNCHANGED <<encoderUp, inPipeline, encoded, frameInHand, samplesWritten, nRawFrames, pushedFrames>>
    BY <1>4 DEF EncoderRefused, PushRefused, PulledAll, SampleRefused
  <2>3. /\ \A x \in TrackWriters : writerPc'[x] \in {"init", "push", "send"} => frameInHand'[x] \in 1 .. nRawFrames'
        /\ \A x \in TrackWriters : writerPc'[x] = "push" => encoderUp'
    BY <1>0, <2>1, <2>2, TrackTaskMoves
  <2> QED
    BY <2>2, <2>3 DEF TrackFed, TrackTypes, TrackTyped
<1>5. ASSUME NEW w \in TrackWriters, PushFrame(w) \/ DrainFails(w) PROVE TrackTypes' /\ TrackFed'
  <2> DEFINE f == frameInHand[w]
             all == Append(inPipeline, f)
  <2>1. /\ \E to \in {"pull", "idle"} : WriterGoes(w, "push", to)
        /\ pushedFrames' = pushedFrames \cup {f} /\ UNCHANGED <<encoderUp, frameInHand, samplesWritten, nRawFrames>>
    BY <1>5 DEF PushFrame, DrainFails
  <2>2. f \in Frames /\ encoderUp
    BY <2>1 DEF WriterGoes, TrackTyped, TrackFed
  <2>3. /\ inPipeline \in Seq(Frames) /\ encoded \in Seq(Frames) /\ all \in Seq(Frames)
        /\ Len(all) = Len(inPipeline) + 1 /\ Len(inPipeline) \in Nat
    <3>1. inPipeline \in Seq(Frames) /\ encoded \in Seq(Frames)
      BY DEF TrackTyped, TrackTypes
    <3> HIDE DEF Frames, f
    <3> QED
      BY <2>2, <3>1, AppendFacts
  <2>4. \E n \in 0 .. Len(inPipeline) + 1, m \in 1 .. Len(inPipeline) + 2 :
          encoded' = encoded \o SubSeq(all, 1, n) /\ inPipeline' = SubSeq(all, m, Len(all))
    <3>1. CASE PushFrame(w)
      <4>1. PICK n \in 0 .. Len(inPipeline) + 1 : DrainPackets(all, n)
        BY <3>1 DEF PushFrame
      <4>2. n + 1 \in 1 .. Len(inPipeline) + 2
        BY <2>3
      <4> QED
        BY <4>1, <4>2 DEF DrainPackets
    <3>2. CASE DrainFails(w)
      <4>1. PICK n \in 0 .. Len(inPipeline) :
              encoded' = encoded \o SubSeq(all, 1, n) /\ inPipeline' = SubSeq(all, n + 2, Len(all))
        BY <3>2 DEF DrainFails
      <4>2. n \in 0 .. Len(inPipeline) + 1 /\ n + 2 \in 1 .. Len(inPipeline) + 2
        BY <2>3
      <4> QED
        BY <4>1, <4>2
    <3> QED
      BY <1>5, <3>1, <3>2
  <2>5. PICK n \in 0 .. Len(inPipeline) + 1, m \in 1 .. Len(inPipeline) + 2 :
          encoded' = encoded \o SubSeq(all, 1, n) /\ inPipeline' = SubSeq(all, m, Len(all))
    BY <2>4
  <2>6. encoded' \in Seq(Frames) /\ inPipeline' \in Seq(Frames)
    <3>1. n \in 0 .. Len(all) /\ m \in 1 .. Len(all) + 1 /\ 1 \in 1 .. Len(all) + 1 /\ Len(all) \in 0 .. Len(all)
      BY <2>3
    <3> HIDE DEF Frames, all
    <3>2. SubSeq(all, 1, n) \in Seq(Frames) /\ SubSeq(all, m, Len(all)) \in Seq(Frames)
      BY <2>3, <3>1, PartOfQueue
    <3>3. encoded \o SubSeq(all, 1, n) \in Seq(Frames)
      BY <2>3, <3>2, ConcatProperties
    <3> QED
      BY <2>5, <3>2, <3>3
  <2>7. TrackTypes'
    BY <2>1, <2>2, <2>6 DEF TrackTypes, TrackTyped
  <2>8. /\ \A x \in TrackWriters : writerPc'[x] \in {"init", "push", "send"} => frameInHand'[x] \in 1 .. nRawFrames'
        /\ \A x \in TrackWriters : writerPc'[x] = "push" => encoderUp'
    BY <1>0, <2>1, TrackTaskMoves
  <2> QED
    BY <2>1, <2>2, <2>7, <2>8 DEF TrackFed
<1>6. ASSUME NEW w \in TrackWriters, PullPacket(w) PROVE TrackTypes' /\ TrackFed'
  <2> DEFINE k == Len(encoded)
  <2>1. /\ encoded # <<>> /\ frameInHand' = [frameInHand EXCEPT ![w] = encoded[k]] /\ encoded' = SubSeq(encoded, 1, k - 1)
        /\ WriterGoes(w, "pull", "send")
        /\ UNCHANGED <<encoderUp, inPipeline, samplesWritten, refusedPackets, nRawFrames, pushedFrames>>
    BY <1>6 DEF PullPacket, Last, Front
  <2>2. encoded \in Seq(Frames) /\ k \in Nat \ {0}
    BY <2>1, QueueDomain DEF TrackTypes, TrackTyped
  <2>3. encoded[k] \in Frames /\ 1 \in 1 .. k + 1 /\ k - 1 \in 0 .. k
    <3> HIDE DEF Frames
    <3>1. encoded[k] \in Frames
      BY <2>2
    <3> HIDE DEF k
    <3> QED
      BY <2>2, <3>1
  <2>4. SubSeq(encoded, 1, k - 1) \in Seq(Frames)
    <3> HIDE DEF Frames
    <3> QED
      BY <2>2, <2>3, PartOfQueue
  <2>5. frameInHand'[w] = encoded[k] /\ \A x \in TrackWriters \ {w} : frameInHand'[x] = frameInHand[x]
    BY <2>1 DEF TrackTyped, TrackWriting
  <2> HIDE DEF k
  <2>6. TrackTypes'
    BY <2>1, <2>4 DEF TrackTypes, TrackTyped
  <2>7. /\ \A x \in TrackWriters : writerPc'[x] \in {"init", "push", "send"} => frameInHand'[x] \in 1 .. nRawFrames'
        /\ \A x \in TrackWriters : writerPc'[x] = "push" => encoderUp'
    <3>1. frameInHand'[w] \in 1 .. nRawFrames' /\ encoderUp' = encoderUp
      BY <2>1, <2>3, <2>5
    <3> QED
      BY <1>0, <2>1, <2>5, <3>1, TrackTaskMoves
  <2>8. encoderUp
    BY <2>1 DEF TrackTyped, TrackFed
  <2> QED
    BY <2>1, <2>6, <2>7, <2>8 DEF TrackFed
<1>7. ASSUME NEW w \in TrackWriters, SendSample(w) PROVE TrackTypes' /\ TrackFed'
  <2>1. /\ WriterGoes(w, "send", "pull") /\ samplesWritten' = Append(samplesWritten, frameInHand[w])
        /\ UNCHANGED <<encoderUp, inPipeline, encoded, frameInHand, refusedPackets, nRawFrames, pushedFrames>>
    BY <1>7 DEF SendSample
  <2>2. frameInHand[w] \in 1 .. nRawFrames
    BY <2>1 DEF WriterGoes, TrackTyped, TrackFed
  <2>3. TrackTypes'
    BY <2>1, <2>2 DEF TrackTypes, TrackTyped
  <2>4. /\ \A x \in TrackWriters : writerPc'[x] \in {"init", "push", "send"} => frameInHand'[x] \in 1 .. nRawFrames'
        /\ \A x \in TrackWriters : writerPc'[x] = "push" => encoderUp'
    BY <1>0, <2>1, TrackTaskMoves
  <2> QED
    BY <2>1, <2>3, <2>4 DEF TrackFed, TrackTyped
<1> QED
  BY <1>1, <1>2, <1>3, <1>4, <1>5, <1>6, <1>7 DEF VideoTrackNext

(* Whatever number of tasks write, the track keeps its types: nothing is      *)
(* pushed before there is an encoder, nothing sent that was not written       *)
(* (webrtc_rs.rs:548-593).                                                    *)
THEOREM TrackKeepsTypes == VideoTrackSpec => []VideoTrackTypeOK
<1>1. VideoTrackInit => TrackTyped
  <2> SUFFICES ASSUME VideoTrackInit PROVE TrackTyped
    OBVIOUS
  <2>1. TrackTypes /\ TrackWriting
    BY TrackInitInv DEF TrackInv
  <2>2. TrackFed
    BY DEF VideoTrackInit, TrackFed
  <2> QED
    BY <2>1, <2>2 DEF TrackTyped
<1>2. TrackTyped /\ [VideoTrackNext]_videoTrackVars => TrackTyped'
  BY TrackTypedStep, TrackWritingKept, VideoTrackAssumption DEF TrackTyped
<1>3. TrackTyped => VideoTrackTypeOK
  BY DEF TrackTyped, TrackTypes, TrackWriting, TrackFed, VideoTrackTypeOK
<1> QED
  BY <1>1, <1>2, <1>3, PTL DEF VideoTrackSpec

-----------------------------------------------------------------------------
(* The reassembly of received units.                                          *)

WirePieces == (1 .. WireUnits) \X Places

(* After a start the buffer holds it and nothing before it, and what follows  *)
(* it of its unit is behind it.                                               *)
DecodeInv ==
  /\ heardPieces \in Seq(WirePieces) /\ auBuffer \in Seq(WirePieces)
  /\ LET n == Len(heardPieces) IN
       /\ n > 0 /\ heardPieces[n][2] = "start" => auBuffer = <<heardPieces[n]>>
       /\ n > 1 /\ heardPieces[n - 1][2] = "start" /\ heardPieces[n][2] = "middle" =>
            auBuffer = <<heardPieces[n - 1], heardPieces[n]>>
  /\ \A i \in 1 .. Len(heardPieces) - 2 :
       /\ heardPieces[i][2] = "start" /\ heardPieces[i + 1][2] = "middle" /\ heardPieces[i + 2][2] = "end"
       => <<heardPieces[i], heardPieces[i + 1], heardPieces[i + 2]>> \in fedUnits

Units == Seq(WirePieces)
DecodeQueues ==
  /\ inDecoder \in Seq(Units) /\ decodedFrames \in Seq(Units) /\ shownFrames \in Seq(Units)
  /\ Range(inDecoder) \cup Range(decodedFrames) \cup Range(shownFrames) \subseteq fedUnits

DecodePhases ==
  /\ decodePhase \in {"waiting", "starting", "reading", "ended"}
  /\ decodedFrames # <<>> => decodePhase = "reading"
DecodeFlags ==
  /\ (decoderMade \in BOOLEAN) /\ (sinkSet \in BOOLEAN)
DecodeShows == shownFrames # <<>> => sinkSet

LEMMA DecodeQueuesKept ==
  ASSUME DecodeQueues, DecodeInv, [DecodeNext]_decodeVars PROVE DecodeQueues'
<1> USE DEF DecodeQueues
<1>1. ASSUME UNCHANGED <<inDecoder, decodedFrames, shownFrames>>, fedUnits \subseteq fedUnits' PROVE DecodeQueues'
  BY <1>1
<1>2. ASSUME NEW pieces \in Units, FeedDecoder(pieces), UNCHANGED shownFrames PROVE DecodeQueues'
  <2>1. fedUnits' = fedUnits \cup {pieces}
    BY <1>2 DEF FeedDecoder
  <2>2. CASE UNCHANGED <<decodedFrames, inDecoder>>
    BY <1>1, <1>2, <2>1, <2>2
  <2>3. ASSUME NEW n \in 0 .. Len(inDecoder) + 1, DrainedFrames(Append(inDecoder, pieces), n) PROVE DecodeQueues'
    <3> DEFINE all == Append(inDecoder, pieces)
    <3>1. all \in Seq(Units) /\ Len(all) = Len(inDecoder) + 1 /\ Len(inDecoder) \in Nat
          /\ Range(all) = Range(inDecoder) \cup {pieces}
      BY AppendFacts, AppendRange
    <3>2. decodedFrames' = SubSeq(all, 1, n) /\ inDecoder' = SubSeq(all, n + 1, Len(all))
      BY <2>3 DEF DrainedFrames
    <3> HIDE DEF all
    <3>3. /\ 1 \in 1 .. Len(all) + 1 /\ n \in 0 .. Len(all) /\ n + 1 \in 1 .. Len(all) + 1 /\ Len(all) \in 0 .. Len(all)
          /\ 1 .. n \subseteq 1 .. Len(all) /\ n + 1 .. Len(all) \subseteq 1 .. Len(all)
      BY <3>1
    <3>4. /\ decodedFrames' \in Seq(Units) /\ Range(decodedFrames') = {all[i] : i \in 1 .. n}
          /\ inDecoder' \in Seq(Units) /\ Range(inDecoder') = {all[i] : i \in n + 1 .. Len(all)}
      <4>1. SubSeq(all, 1, n) \in Seq(Units) /\ Range(SubSeq(all, 1, n)) = {all[i] : i \in 1 .. n}
        BY <3>1, <3>3, PartOfQueue
      <4>2. /\ SubSeq(all, n + 1, Len(all)) \in Seq(Units)
            /\ Range(SubSeq(all, n + 1, Len(all))) = {all[i] : i \in n + 1 .. Len(all)}
        BY <3>1, <3>3, PartOfQueue, SMTT(30)
      <4> QED
        BY <3>2, <4>1, <4>2
    <3>5. Range(all) = {all[i] : i \in 1 .. Len(all)}
      BY <3>1, RangeOfQueue
    <3>6. Range(decodedFrames') \subseteq Range(all) /\ Range(inDecoder') \subseteq Range(all)
      BY <3>3, <3>4, <3>5
    <3> QED
      BY <1>2, <2>1, <3>1, <3>4, <3>6
  <2> QED
    BY <1>2, <2>2, <2>3 DEF FeedDecoder
<1>3. CASE ReadFragment
  <2>1. PICK packet \in (1 .. WireUnits) \X {"start", "middle", "end"} :
          /\ Taken(packet) /\ auBuffer' = PieceJoined(auBuffer, packet)
          /\ IF packet[2] = "end" THEN FeedDecoder(auBuffer') ELSE UNCHANGED <<decodedFrames, inDecoder, fedUnits>>
    BY <1>3 DEF ReadFragment
  <2>2. packet \in WirePieces
    BY DEF WirePieces, Places
  <2>3. auBuffer' \in Units
    BY <2>1, <2>2 DEF PieceJoined, Units, DecodeInv
  <2> QED
    BY <1>1, <1>2, <1>3, <2>1, <2>3 DEF ReadFragment
<1>4. CASE ReadSingle
  <2>1. PICK u \in 1 .. WireUnits : FeedDecoder(<< <<u, "single">> >>)
    BY <1>4 DEF ReadSingle
  <2>2. << <<u, "single">> >> \in Units
    BY DEF Units, WirePieces, Places
  <2> QED
    BY <1>2, <1>4, <2>1, <2>2 DEF ReadSingle
<1>5. CASE DrainFrame
  <2>1. /\ decodedFrames # <<>> /\ decodedFrames' = Front(decodedFrames) /\ UNCHANGED <<inDecoder, fedUnits>>
        /\ shownFrames' = IF sinkSet THEN Append(shownFrames, Last(decodedFrames)) ELSE shownFrames
    BY <1>5 DEF DrainFrame
  <2>2. Len(decodedFrames) \in Nat \ {0} /\ Range(decodedFrames) = {decodedFrames[i] : i \in 1 .. Len(decodedFrames)}
    BY <2>1, QueueDomain, RangeOfQueue
  <2>3. /\ 1 \in 1 .. Len(decodedFrames) + 1 /\ Len(decodedFrames) - 1 \in 0 .. Len(decodedFrames)
        /\ 1 .. Len(decodedFrames) - 1 \subseteq 1 .. Len(decodedFrames) /\ Len(decodedFrames) \in 1 .. Len(decodedFrames)
    BY <2>2
  <2>4. decodedFrames' \in Seq(Units) /\ Range(decodedFrames') \subseteq Range(decodedFrames)
    BY <2>1, <2>2, <2>3, PartOfQueue DEF Front
  <2>5. Last(decodedFrames) \in Units /\ Last(decodedFrames) \in fedUnits
    BY <2>2, <2>3 DEF Last
  <2>6. shownFrames' \in Seq(Units) /\ Range(shownFrames') \subseteq fedUnits
    BY <2>1, <2>5, AppendFacts, AppendRange
  <2> QED
    BY <2>1, <2>4, <2>6
<1>6. CASE \/ TrackArrives \/ MakeDecoder \/ SinkIsSet \/ LosePacket \/ OvertakePacket \/ ReadShort \/ TrackEnds
           \/ UNCHANGED decodeVars
  BY <1>1, <1>6 DEF TrackArrives, MakeDecoder, SinkIsSet, LosePacket, OvertakePacket, ReadShort, TrackEnds, decodeVars
<1> QED
  BY <1>3, <1>4, <1>5, <1>6 DEF DecodeNext

LEMMA DecodeStep ==
  ASSUME DecodeInv, [DecodeNext]_decodeVars PROVE DecodeInv'
<1>1. ASSUME UNCHANGED <<heardPieces, auBuffer>>, fedUnits \subseteq fedUnits' PROVE DecodeInv'
  BY <1>1 DEF DecodeInv
<1>2. CASE ReadFragment
  <2>1. PICK packet \in (1 .. WireUnits) \X {"start", "middle", "end"} :
          /\ auBuffer' = PieceJoined(auBuffer, packet) /\ heardPieces' = Append(heardPieces, packet)
          /\ IF packet[2] = "end" THEN FeedDecoder(auBuffer') ELSE UNCHANGED <<decodedFrames, inDecoder, fedUnits>>
    BY <1>2 DEF ReadFragment
  <2>2. packet \in WirePieces
    BY DEF WirePieces, Places
  <2> DEFINE n == Len(heardPieces)
             h == heardPieces
             g == heardPieces'
  <2>3. /\ g \in Seq(WirePieces) /\ Len(g) = n + 1 /\ n \in Nat /\ g[n + 1] = packet
        /\ \A i \in 1 .. n : g[i] = h[i]
    BY <2>1, <2>2, AppendFacts DEF DecodeInv
  <2>4. auBuffer' \in Seq(WirePieces) /\ auBuffer \in Seq(WirePieces)
    BY <2>1, <2>2 DEF PieceJoined, DecodeInv
  <2>5. fedUnits \subseteq fedUnits' /\ (packet[2] = "end" => auBuffer' \in fedUnits')
    BY <2>1 DEF FeedDecoder
  <2>6. packet[2] = "start" => auBuffer' = <<packet>>
    BY <2>1 DEF PieceJoined
  <2>7. packet[2] # "start" => auBuffer' = Append(auBuffer, packet)
    BY <2>1 DEF PieceJoined
  <2>8. ASSUME n > 0, h[n][2] = "start", packet[2] = "middle" PROVE auBuffer' = <<h[n], packet>>
    <3>1. auBuffer = <<h[n]>>
      BY <2>8 DEF DecodeInv
    <3>2. auBuffer' = Append(auBuffer, packet)
      BY <2>7, <2>8
    <3> HIDE DEF n, h
    <3> QED
      BY <3>1, <3>2, PiecesAppended
  <2>9. ASSUME n > 1, h[n - 1][2] = "start", h[n][2] = "middle", packet[2] = "end"
        PROVE  <<h[n - 1], h[n], packet>> \in fedUnits'
    <3>1. auBuffer = <<h[n - 1], h[n]>>
      BY <2>9 DEF DecodeInv
    <3>2. auBuffer' = Append(auBuffer, packet) /\ auBuffer' \in fedUnits'
      BY <2>5, <2>7, <2>9
    <3> HIDE DEF n, h
    <3> QED
      BY <3>1, <3>2, PiecesAppended
  <2>10. ASSUME NEW i \in 1 .. Len(g) - 2, g[i][2] = "start", g[i + 1][2] = "middle", g[i + 2][2] = "end"
         PROVE  <<g[i], g[i + 1], g[i + 2]>> \in fedUnits'
    <3>1. CASE i \in 1 .. n - 2
      <4>1. g[i] = h[i] /\ g[i + 1] = h[i + 1] /\ g[i + 2] = h[i + 2]
        BY <2>3, <3>1
      <4> QED
        BY <2>5, <2>10, <3>1, <4>1 DEF DecodeInv
    <3>2. CASE i = n - 1 /\ n > 1
      <4>1. g[i] = h[n - 1] /\ g[i + 1] = h[n] /\ g[i + 2] = packet
        BY <2>3, <3>2
      <4> QED
        BY <2>9, <2>10, <3>2, <4>1
    <3> QED
      BY <2>3, <3>1, <3>2
  <2>11. Len(g) > 0 /\ g[Len(g)][2] = "start" => auBuffer' = <<g[Len(g)]>>
    BY <2>3, <2>6
  <2>12. Len(g) > 1 /\ g[Len(g) - 1][2] = "start" /\ g[Len(g)][2] = "middle" => auBuffer' = <<g[Len(g) - 1], g[Len(g)]>>
    <3>1. Len(g) - 1 = n /\ (Len(g) > 1 => n > 0 /\ n \in 1 .. n)
      BY <2>3
    <3> QED
      BY <2>3, <2>8, <3>1
  <2> QED
    BY <2>3, <2>4, <2>10, <2>11, <2>12 DEF DecodeInv
<1>3. CASE ReadSingle \/ DrainFrame
  BY <1>1, <1>3 DEF ReadSingle, FeedDecoder, DrainFrame
<1>4. CASE \/ TrackArrives \/ MakeDecoder \/ SinkIsSet \/ LosePacket \/ OvertakePacket \/ ReadShort \/ TrackEnds
           \/ UNCHANGED decodeVars
  BY <1>1, <1>4 DEF TrackArrives, MakeDecoder, SinkIsSet, LosePacket, OvertakePacket, ReadShort, TrackEnds, decodeVars
<1> QED
  BY <1>2, <1>3, <1>4 DEF DecodeNext

LEMMA DecodeWhole == DecodeInv => WholeUnitsFed
<1> SUFFICES ASSUME DecodeInv, NEW i \in 1 .. Len(heardPieces) - 2,
                    SubSeq(heardPieces, i, i + 2) = PiecesOf(heardPieces[i][1])
             PROVE  SubSeq(heardPieces, i, i + 2) \in fedUnits
  BY DEF WholeUnitsFed
<1> DEFINE unit == SubSeq(heardPieces, i, i + 2)
           u == heardPieces[i][1]
<1>1. heardPieces \in Seq(WirePieces) /\ Len(heardPieces) \in Nat
  BY DEF DecodeInv
<1>2. \A k \in i .. i + 2 : heardPieces[k] \in WirePieces
  BY <1>1
<1>3. /\ unit \in Seq(WirePieces) /\ Len(unit) = 3
      /\ \A k \in 1 .. 3 : unit[k] = heardPieces[i + k - 1]
  <2>1. /\ i + 2 - i + 1 = 3 /\ i \in 1 .. Len(heardPieces) + 1 /\ i + 2 \in 0 .. Len(heardPieces) /\ i <= i + 2
        /\ i \in Int /\ i + 2 \in Int
    BY <1>1
  <2> QED
    BY <1>1, <1>2, <2>1, SubSeqProperties
<1>4. unit[1] = heardPieces[i] /\ unit[2] = heardPieces[i + 1] /\ unit[3] = heardPieces[i + 2]
  BY <1>3
<1>5. unit = << <<u, "start">>, <<u, "middle">>, <<u, "end">> >>
  <2>1. unit = PiecesOf(u)
    OBVIOUS
  <2> HIDE DEF unit, u
  <2> QED
    BY <1>3, <2>1 DEF PiecesOf
<1>6. heardPieces[i][2] = "start" /\ heardPieces[i + 1][2] = "middle" /\ heardPieces[i + 2][2] = "end"
  <2> HIDE DEF unit, u
  <2> QED
    BY <1>4, <1>5
<1>7. <<heardPieces[i], heardPieces[i + 1], heardPieces[i + 2]>> \in fedUnits
  BY <1>6 DEF DecodeInv
<1>8. unit = <<heardPieces[i], heardPieces[i + 1], heardPieces[i + 2]>>
  <2> HIDE DEF unit, u
  <2> QED
    BY <1>4, <1>5
<1> QED
  BY <1>7, <1>8

LEMMA DecodePhasesKept ==
  /\ DecodeInit => DecodePhases /\ DecodeFlags /\ DecodeShows
  /\ DecodePhases /\ [DecodeNext]_decodeVars => DecodePhases'
  /\ DecodeFlags /\ [DecodeNext]_decodeVars => DecodeFlags'
  /\ DecodeFlags /\ DecodeShows /\ [DecodeNext]_decodeVars => DecodeShows'
<1>1. DecodeInit => DecodePhases /\ DecodeFlags /\ DecodeShows
  BY DEF DecodeInit, DecodePhases, DecodeFlags, DecodeShows
<1>2. ASSUME DecodePhases, [DecodeNext]_decodeVars PROVE DecodePhases'
  <2>1. CASE DrainFrame
    BY <1>2, <2>1 DEF DrainFrame, DecodePhases
  <2>2. CASE ReadFragment \/ ReadSingle
    BY <1>2, <2>2 DEF ReadFragment, ReadSingle, CanRead, DecodePhases
  <2>3. CASE \/ TrackArrives \/ MakeDecoder \/ SinkIsSet \/ LosePacket \/ OvertakePacket \/ ReadShort \/ TrackEnds
           \/ UNCHANGED decodeVars
    BY <1>2, <2>3 DEF DecodePhases, TrackArrives, MakeDecoder, SinkIsSet, LosePacket, OvertakePacket, ReadShort, TrackEnds,
       CanRead, decodeVars
  <2> QED
    BY <1>2, <2>1, <2>2, <2>3 DEF DecodeNext
<1>3. ASSUME [DecodeNext]_decodeVars
      PROVE  /\ UNCHANGED decoderMade \/ (decoderMade' \in BOOLEAN)
             /\ UNCHANGED sinkSet \/ sinkSet' = TRUE
             /\ UNCHANGED shownFrames \/ (sinkSet /\ UNCHANGED sinkSet)
  BY <1>3 DEF DecodeNext, TrackArrives, MakeDecoder, SinkIsSet, LosePacket, OvertakePacket, ReadShort, TrackEnds,
     ReadFragment, ReadSingle, DrainFrame, decodeVars
<1>4. ASSUME DecodeFlags, [DecodeNext]_decodeVars PROVE DecodeFlags'
  BY <1>3, <1>4 DEF DecodeFlags
<1>5. ASSUME DecodeFlags, DecodeShows, [DecodeNext]_decodeVars PROVE DecodeShows'
  BY <1>3, <1>5 DEF DecodeShows
<1> QED
  BY <1>1, <1>2, <1>4, <1>5

(* A unit whose fragments arrive one after the other is fed whole and alone   *)
(* (webrtc_rs.rs, run_decode_pipeline): for any units, fragmented or not, and *)
(* any losses and reorderings before, between and after it.                   *)
THEOREM UnitsReassembled == DecodeSpec => [](DecodeTypeOK /\ WholeUnitsFed)
<1>1. DecodeInit => DecodeInv /\ DecodeQueues
  <2> SUFFICES ASSUME DecodeInit PROVE DecodeInv /\ DecodeQueues
    OBVIOUS
  <2>1. /\ heardPieces = <<>> /\ auBuffer = <<>> /\ inDecoder = <<>> /\ decodedFrames = <<>> /\ shownFrames = <<>>
    BY DEF DecodeInit
  <2>2. Range(<<>>) = {}
    BY EmptyQueue DEF Range
  <2>3. <<>> \in Seq(WirePieces) /\ <<>> \in Seq(Units) /\ Len(<<>>) = 0
    BY EmptyQueue
  <2> QED
    BY <2>1, <2>2, <2>3 DEF DecodeInv, DecodeQueues
<1>2. DecodeInv /\ DecodeQueues /\ DecodePhases /\ DecodeFlags /\ DecodeShows => DecodeTypeOK
  BY DEF DecodeInv, DecodeQueues, DecodePhases, DecodeFlags, DecodeShows, DecodeTypeOK, WirePieces
<1>3. DecodeInv /\ [DecodeNext]_decodeVars => DecodeInv'
  BY DecodeStep
<1>4. DecodeQueues /\ DecodeInv /\ [DecodeNext]_decodeVars => DecodeQueues'
  BY DecodeQueuesKept
<1> QED
  BY DecodeWhole, DecodePhasesKept, <1>1, <1>2, <1>3, <1>4, PTL DEF DecodeSpec

-----------------------------------------------------------------------------
(* The engine of the media crate.                                             *)

EngineFlags == engineRunning \in BOOLEAN /\ shutdownSent \in BOOLEAN

(* A chain has one task exactly when its nodes were moved out; no two ids     *)
(* share a chain, and a number not given out yet belongs to nothing.          *)
EngineInv ==
  /\ nChains \in Nat /\ nChains <= MaxChains
  /\ chainAt \in [ChainIds -> 0 .. nChains]
  /\ \A i, j \in ChainIds : i # j /\ chainAt[i] # 0 => chainAt[i] # chainAt[j]
  /\ nodesTaken \subseteq 1 .. nChains /\ taskAborted \subseteq 1 .. nChains
  /\ watching \subseteq nodesTaken /\ taskHandles \subseteq nodesTaken /\ taskHandles \subseteq Registered
  /\ taskAborted \cap Registered = {}
  /\ nTasks = [c \in Chains |-> IF c \in nodesTaken THEN 1 ELSE 0]
  /\ chainTask \in [Chains -> {"none", "run", "ended"}]
  /\ enginePc \in [EngineCallers -> {"idle", "spawn", "list", "each", "send", "collect", "wait"}]
  /\ spawning \in [EngineCallers -> SUBSET ChainIds] /\ awaited \in [EngineCallers -> SUBSET Chains]
  /\ \A k \in EngineCallers : enginePc[k] = "spawn" => \E id \in ChainIds : spawning[k] = {id}

LEMMA EngineFlagsKept ==
  /\ EngineInit => EngineFlags
  /\ EngineFlags /\ [EngineNext]_engineVars => EngineFlags'
<1>1. EngineInit => EngineFlags
  BY DEF EngineInit, EngineFlags
<1>2. ASSUME EngineFlags, [EngineNext]_engineVars PROVE EngineFlags'
  BY <1>2 DEF EngineFlags, EngineNext, engineVars, AddSpawns, StartEngine, ListChains, SpawnNext, StopEngine,
     SendShutdown, CollectTasks, StopReturns, AddChain, RemoveChain, SeesShutdown, AbortTakesEffect,
     TaskEnd, Process
<1> QED
  BY <1>1, <1>2

LEMMA EngineInitInv == EngineInit => EngineInv
BY PipelineEngineAssumption DEF EngineInit, EngineInv, Registered, Chains

LEMMA MakeTaskInv ==
  ASSUME EngineInv, NEW id \in ChainIds, SpawnChain(id), UNCHANGED <<chainAt, nChains>>
  PROVE  /\ nodesTaken' \subseteq 1 .. nChains /\ taskAborted' \subseteq 1 .. nChains
         /\ watching' \subseteq nodesTaken' /\ taskHandles' \subseteq nodesTaken' /\ taskHandles' \subseteq Registered'
         /\ taskAborted' \cap Registered' = {}
         /\ nTasks' = [c \in Chains |-> IF c \in nodesTaken' THEN 1 ELSE 0]
         /\ chainTask' \in [Chains -> {"none", "run", "ended"}]
<1>1. CASE Spawnable(id)
  <2> DEFINE c == chainAt[id]
  <2>1. /\ c \in Chains /\ c \in 1 .. nChains /\ c \notin nodesTaken /\ c \in Registered /\ nTasks[c] = 0
    BY <1>1, PipelineEngineAssumption DEF Spawnable, EngineInv, Chains, Registered
  <2>2. /\ nodesTaken' = nodesTaken \cup {c} /\ chainTask' = [chainTask EXCEPT ![c] = "run"]
        /\ watching' = watching \cup {c} /\ nTasks' = [nTasks EXCEPT ![c] = @ + 1]
        /\ taskHandles' = taskHandles \cup {c} /\ UNCHANGED taskAborted
    BY <1>1 DEF SpawnChain, MakeTask
  <2>3. Registered' = Registered
    BY DEF Registered
  <2> HIDE DEF c
  <2>4. nTasks' = [d \in Chains |-> IF d \in nodesTaken' THEN 1 ELSE 0]
    <3>1. nTasks = [d \in Chains |-> IF d \in nodesTaken THEN 1 ELSE 0]
      BY DEF EngineInv
    <3> QED
      <4>1. DOMAIN nTasks = Chains /\ DOMAIN nTasks' = Chains
        BY <2>2, <3>1
      <4>2. \A d \in Chains : nTasks'[d] = IF d \in nodesTaken' THEN 1 ELSE 0
        BY <2>1, <2>2, <3>1
      <4>3. nTasks' = [d \in Chains |-> nTasks'[d]]
        BY <2>2, <4>1
      <4> QED
        BY <4>2, <4>3
  <2> QED
    BY <2>1, <2>2, <2>3, <2>4 DEF EngineInv
<1>2. CASE ~Spawnable(id)
  <2>1. UNCHANGED <<nodesTaken, chainTask, taskAborted, taskHandles, watching, nTasks>>
    BY <1>2 DEF SpawnChain, taskState
  <2>2. Registered' = Registered
    BY DEF Registered
  <2> QED
    BY <2>1, <2>2 DEF EngineInv
<1> QED
  BY <1>1, <1>2

LEMMA EngineStep == EngineInv /\ [EngineNext]_engineVars => EngineInv'
<1> SUFFICES ASSUME EngineInv, [EngineNext]_engineVars PROVE EngineInv'
  OBVIOUS
<1> USE PipelineEngineAssumption
<1>1. ASSUME NEW k \in EngineCallers, AddSpawns(k) PROVE EngineInv'
  <2>1. PICK id \in ChainIds : spawning[k] = {id}
    BY <1>1 DEF AddSpawns, Steps, EngineInv
  <2>2. SpawnChain(id) /\ UNCHANGED <<chainAt, nChains>>
    BY <1>1, <2>1 DEF AddSpawns
  <2>3. enginePc' = [enginePc EXCEPT ![k] = "idle"] /\ UNCHANGED <<spawning, awaited>>
    BY <1>1 DEF AddSpawns, Steps
  <2> QED
    BY <2>2, <2>3, MakeTaskInv DEF EngineInv
<1>2. ASSUME NEW k \in EngineCallers, SpawnNext(k) PROVE EngineInv'
  <2>1. CASE spawning[k] = {}
    <3>1. /\ enginePc' = [enginePc EXCEPT ![k] = "idle"]
          /\ UNCHANGED <<chainAt, nodesTaken, chainTask, taskAborted, taskHandles, watching, nTasks,
                         spawning, awaited, nChains>>
      BY <1>2, <2>1 DEF SpawnNext, Steps, taskState
    <3>2. Registered' = Registered
      BY <3>1 DEF Registered
    <3> QED
      BY <3>1, <3>2 DEF EngineInv
  <2>2. ASSUME NEW id \in spawning[k], SpawnChain(id),
               spawning' = [spawning EXCEPT ![k] = IF Spawnable(id) THEN @ \ {id} ELSE {}],
               Steps(k, "each", IF Spawnable(id) THEN "each" ELSE "idle")
        PROVE  EngineInv'
    <3>1. id \in ChainIds
      BY DEF EngineInv
    <3>2. UNCHANGED <<chainAt, nChains, awaited>>
      BY <1>2 DEF SpawnNext
    <3>3. spawning' \in [EngineCallers -> SUBSET ChainIds]
      BY <2>2 DEF EngineInv
    <3>4. /\ enginePc' \in [EngineCallers -> {"idle", "spawn", "list", "each", "send", "collect", "wait"}]
          /\ \A j \in EngineCallers : enginePc'[j] = "spawn" => enginePc[j] = "spawn" /\ spawning'[j] = spawning[j]
      BY <2>2 DEF EngineInv, Steps
    <3> QED
      BY <2>2, <3>1, <3>2, <3>3, <3>4, MakeTaskInv DEF EngineInv
  <2> QED
    BY <1>2, <2>1, <2>2 DEF SpawnNext
<1>3. ASSUME NEW k \in EngineCallers, NEW id \in ChainIds, AddChain(k, id) PROVE EngineInv'
  <2>1. /\ chainAt[id] = 0 /\ nChains < MaxChains /\ nChains' = nChains + 1
        /\ chainAt' = [chainAt EXCEPT ![id] = nChains + 1] /\ spawning' = [spawning EXCEPT ![k] = {id}]
        /\ enginePc' = [enginePc EXCEPT ![k] = IF engineRunning THEN "spawn" ELSE "idle"]
        /\ UNCHANGED <<nodesTaken, chainTask, taskAborted, taskHandles, watching, nTasks, awaited>>
    BY <1>3 DEF AddChain, Steps, taskState
  <2>2. /\ chainAt' \in [ChainIds -> 0 .. nChains'] /\ nChains' \in Nat /\ nChains' <= MaxChains
        /\ \A i, j \in ChainIds : i # j /\ chainAt'[i] # 0 => chainAt'[i] # chainAt'[j]
    BY <2>1 DEF EngineInv
  <2>3. Registered' = Registered \cup {nChains + 1}
    BY <2>1 DEF Registered, EngineInv
  <2>4. nodesTaken \subseteq 1 .. nChains' /\ taskAborted \subseteq 1 .. nChains' /\ nChains + 1 \notin taskAborted
    BY <2>1 DEF EngineInv
  <2>5. /\ enginePc' \in [EngineCallers -> {"idle", "spawn", "list", "each", "send", "collect", "wait"}]
        /\ spawning' \in [EngineCallers -> SUBSET ChainIds]
        /\ \A j \in EngineCallers : enginePc'[j] = "spawn" => \E i \in ChainIds : spawning'[j] = {i}
    BY <2>1 DEF EngineInv
  <2> QED
    BY <2>1, <2>2, <2>3, <2>4, <2>5 DEF EngineInv
<1>4. ASSUME NEW k \in EngineCallers, NEW id \in ChainIds, RemoveChain(k, id) PROVE EngineInv'
  <2>1. /\ chainAt[id] # 0 /\ chainAt' = [chainAt EXCEPT ![id] = 0]
        /\ taskAborted' = IF chainAt[id] \in taskHandles THEN taskAborted \cup {chainAt[id]} ELSE taskAborted
        /\ taskHandles' = taskHandles \ {chainAt[id]}
        /\ UNCHANGED <<nodesTaken, chainTask, watching, nTasks, enginePc, spawning, awaited, nChains>>
    BY <1>4 DEF RemoveChain
  <2>2. Registered' = Registered \ {chainAt[id]}
    BY <2>1 DEF Registered, EngineInv
  <2>3. chainAt[id] \in 1 .. nChains
    BY <2>1 DEF EngineInv
  <2>4. /\ chainAt' \in [ChainIds -> 0 .. nChains]
        /\ \A i, j \in ChainIds : i # j /\ chainAt'[i] # 0 => chainAt'[i] # chainAt'[j]
    BY <2>1 DEF EngineInv
  <2> QED
    BY <2>1, <2>2, <2>3, <2>4 DEF EngineInv
<1>5. ASSUME NEW k \in EngineCallers,
             StartEngine(k) \/ ListChains(k) \/ StopEngine(k) \/ SendShutdown(k) \/ StopReturns(k)
      PROVE  EngineInv'
  <2>1. UNCHANGED <<chainAt, nodesTaken, chainTask, taskAborted, taskHandles, watching, nTasks, nChains>>
    BY <1>5 DEF StartEngine, ListChains, StopEngine, SendShutdown, StopReturns, taskState
  <2>2. Registered' = Registered
    BY <2>1 DEF Registered
  <2>3. /\ enginePc' \in [EngineCallers -> {"idle", "spawn", "list", "each", "send", "collect", "wait"}]
        /\ \A j \in EngineCallers : enginePc'[j] = "spawn" => j # k /\ enginePc[j] = "spawn"
    BY <1>5 DEF StartEngine, ListChains, StopEngine, SendShutdown, StopReturns, Steps, EngineInv
  <2>4. /\ spawning' \in [EngineCallers -> SUBSET ChainIds] /\ awaited' \in [EngineCallers -> SUBSET Chains]
        /\ \A j \in EngineCallers \ {k} : spawning'[j] = spawning[j]
    BY <1>5 DEF StartEngine, ListChains, StopEngine, SendShutdown, StopReturns, EngineInv
  <2> QED
    BY <2>1, <2>2, <2>3, <2>4 DEF EngineInv
<1>6. ASSUME NEW k \in EngineCallers, CollectTasks(k) PROVE EngineInv'
  <2>1. nodesTaken \subseteq Chains
    BY DEF EngineInv, Chains
  <2> QED
    <3>1. UNCHANGED <<chainAt, nodesTaken, chainTask, taskAborted, watching, nTasks, nChains, spawning>>
      BY <1>6 DEF CollectTasks, taskState
    <3>2. /\ taskHandles' = taskHandles \ Registered /\ awaited' = [awaited EXCEPT ![k] = taskHandles \cap Registered]
          /\ enginePc' = [enginePc EXCEPT ![k] = "wait"]
      BY <1>6 DEF CollectTasks, Steps
    <3>3. Registered' = Registered
      BY <3>1 DEF Registered
    <3>4. awaited' \in [EngineCallers -> SUBSET Chains]
      <4>1. awaited \in [EngineCallers -> SUBSET Chains] /\ taskHandles \subseteq nodesTaken
        BY DEF EngineInv
      <4>2. taskHandles \cap Registered \in SUBSET Chains
        BY <2>1, <4>1
      <4> QED
        BY <3>2, <4>1, <4>2
    <3>5. /\ enginePc' \in [EngineCallers -> {"idle", "spawn", "list", "each", "send", "collect", "wait"}]
          /\ \A j \in EngineCallers : enginePc'[j] = "spawn" => enginePc[j] = "spawn"
      BY <3>2 DEF EngineInv
    <3> QED
      BY <2>1, <3>1, <3>2, <3>3, <3>4, <3>5 DEF EngineInv
<1>7. ASSUME NEW c \in Chains, SeesShutdown(c) \/ AbortTakesEffect(c) \/ Process(c) PROVE EngineInv'
  <2>1. UNCHANGED <<chainAt, nodesTaken, taskAborted, taskHandles, nTasks, nChains, enginePc, spawning, awaited>>
    BY <1>7 DEF SeesShutdown, AbortTakesEffect, TaskEnd, Process
  <2>2. Registered' = Registered
    BY <2>1 DEF Registered
  <2>3. watching' \subseteq watching /\ chainTask' \in [Chains -> {"none", "run", "ended"}]
    BY <1>7 DEF SeesShutdown, AbortTakesEffect, TaskEnd, Process, EngineInv
  <2> QED
    BY <2>1, <2>2, <2>3 DEF EngineInv
<1>8. CASE UNCHANGED engineVars
  BY <1>8 DEF engineVars, EngineInv, Registered
<1> QED
  BY <1>1, <1>2, <1>3, <1>4, <1>5, <1>6, <1>7, <1>8 DEF EngineNext

(* However callers add, remove, start and stop at once, the nodes of a chain  *)
(* are run by one task, and the map holds no task that was aborted.           *)
THEOREM ChainHasOneTask == EngineSpec => [](EngineTypeOK /\ OneTaskPerChain)
<1>1. EngineInv => /\ \A id \in ChainIds : chainAt[id] \in 0 .. nChains
                   /\ \A c \in Chains : chainTask[c] \in {"none", "run", "ended"} /\ nTasks[c] <= 1
                   /\ nodesTaken \subseteq Chains
  BY PipelineEngineAssumption DEF EngineInv, Chains
<1>2. EngineInv => \A k \in EngineCallers : awaited[k] \subseteq Chains /\ spawning[k] \subseteq ChainIds
  BY DEF EngineInv
<1>3. EngineFlags /\ EngineInv => EngineTypeOK
  BY <1>1, <1>2 DEF EngineFlags, EngineInv, EngineTypeOK
<1>4. EngineInv => OneTaskPerChain
  BY <1>1 DEF EngineInv, OneTaskPerChain
<1> QED
  BY EngineInitInv, EngineStep, EngineFlagsKept, <1>3, <1>4, PTL DEF EngineSpec

-----------------------------------------------------------------------------
(* The pacing of frames, and the size they are scaled to.                     *)

PacerFlags == paced \in BOOLEAN /\ pacer \in {"live", "panicked"}

PacerInv ==
  /\ maxRate \in Nat /\ maxRate \in Rates \cup {NoLimit}
  /\ nextFrame \in Int /\ pacedFrom \in Int /\ keptAt \in Int
  /\ keptSince \in Nat /\ forcedSince \in Nat
  /\ RateHeld

LEMMA PacerFlagsKept ==
  /\ PacerInit => PacerFlags
  /\ PacerFlags /\ [PacerNext]_pacerVars => PacerFlags'
<1>1. PacerInit => PacerFlags
  BY DEF PacerInit, PacerFlags
<1>2. ASSUME PacerFlags, [PacerNext]_pacerVars PROVE PacerFlags'
  BY <1>2 DEF PacerFlags, PacerNext, pacerVars, PacerPanics, KeepAll, ResetPacer, DropFrame, KeepInTime,
     KeepAndReset, ForceFrame, SetRate
<1> QED
  BY <1>1, <1>2

LEMMA RatesAreNat == NoLimit \in Nat /\ \A r \in Rates : r \in Nat
BY FramePacingAssumption DEF NoLimit

LEMMA DistanceIsNat == ASSUME NEW r \in Nat, r \div 2 > 0 PROVE Second \div (r \div 2) \in Nat
<1>1. r \div 2 \in Nat \ {0} /\ Second \in Nat
  BY FramePacingAssumption
<1> QED
  BY <1>1

LEMMA IntervalIsNat == ASSUME maxRate \in Nat, Throttles PROVE Interval \in Nat \ {0}
<1>1. Second \in Nat /\ WholeRate \in Nat \ {0}
  BY FramePacingAssumption DEF Throttles, WholeRate
<1>2. Second \div WholeRate \in Nat
  BY <1>1
<1> QED
  BY <1>2 DEF Throttles, Interval

(* With one more frame a whole distance more has gone by.                     *)
LEMMA OneMoreDistance ==
  ASSUME NEW n \in Nat, NEW m \in Nat, NEW d \in Nat
  PROVE  /\ (n + 1 + m) * d = (n + m) * d + d /\ (n + m + 1) * d = (n + m) * d + d
         /\ n * d <= (n + m) * d /\ 0 * d = 0
<1>1. (n + m) * d = n * d + m * d
  OBVIOUS
<1>2. m * d \in Nat /\ n * d \in Nat
  OBVIOUS
<1> QED
  BY <1>1, <1>2

LEMMA PacerInitInv == PacerInit => PacerInv
<1> SUFFICES ASSUME PacerInit PROVE PacerInv
  OBVIOUS
<1>1. maxRate \in Nat
  BY RatesAreNat DEF PacerInit
<1>2. Throttles => (0 + 0) * Interval = 0
  BY <1>1, IntervalIsNat, OneMoreDistance
<1>3. RateHeld
  BY <1>2 DEF PacerInit, RateHeld
<1> QED
  BY <1>1, <1>3 DEF PacerInit, PacerInv

LEMMA PacerStep == PacerFlags /\ PacerInv /\ [PacerNext]_pacerVars => PacerInv'
<1> SUFFICES ASSUME PacerFlags, PacerInv, [PacerNext]_pacerVars PROVE PacerInv'
  OBVIOUS
<1>1. ASSUME NEW ts \in Stamps, KeepInTime(ts) PROVE PacerInv'
  <2>1. /\ Throttles /\ nextFrame <= ts /\ nextFrame' = nextFrame + Interval /\ ts \in Int
        /\ keptSince' = keptSince + 1 /\ keptAt' = ts /\ UNCHANGED <<maxRate, pacedFrom, forcedSince>>
    BY <1>1, FramePacingAssumption DEF KeepInTime, Advance
  <2>2. Interval' = Interval /\ Throttles'
    BY <2>1 DEF Interval, WholeRate, Throttles
  <2>3. Interval \in Nat /\ nextFrame - pacedFrom = (keptSince + forcedSince) * Interval
    BY <2>1, IntervalIsNat DEF PacerInv, RateHeld
  <2>4. /\ (keptSince + 1 + forcedSince) * Interval = (keptSince + forcedSince) * Interval + Interval
        /\ keptSince * Interval <= (keptSince + forcedSince) * Interval
        /\ (keptSince + forcedSince) * Interval \in Nat /\ keptSince * Interval \in Nat
    BY <2>3, OneMoreDistance DEF PacerInv
  <2>5. nextFrame' - pacedFrom' = (keptSince' + forcedSince') * Interval'
    BY <2>1, <2>2, <2>3, <2>4 DEF PacerInv
  <2>6. (keptSince' - 1) * Interval' <= keptAt' - pacedFrom'
    <3>1. keptSince' - 1 = keptSince
      BY <2>1 DEF PacerInv
    <3> QED
      BY <2>1, <2>2, <2>3, <2>4, <3>1 DEF PacerInv
  <2> QED
    BY <2>1, <2>3, <2>5, <2>6 DEF PacerInv, RateHeld
<1>2. ASSUME NEW ts \in Stamps, ForceFrame(ts) PROVE PacerInv'
  <2>1. /\ Throttles /\ nextFrame' = nextFrame + Interval /\ forcedSince' = forcedSince + 1
        /\ UNCHANGED <<maxRate, pacedFrom, keptSince, keptAt>>
    BY <1>2 DEF ForceFrame, DropsEarly, Advance
  <2>2. Interval' = Interval /\ Throttles'
    BY <2>1 DEF Interval, WholeRate, Throttles
  <2>3. Interval \in Nat /\ nextFrame - pacedFrom = (keptSince + forcedSince) * Interval
    BY <2>1, IntervalIsNat DEF PacerInv, RateHeld
  <2>4. /\ (keptSince + forcedSince + 1) * Interval = (keptSince + forcedSince) * Interval + Interval
        /\ (keptSince + forcedSince) * Interval \in Nat
    BY <2>3, OneMoreDistance DEF PacerInv
  <2>5. keptSince' + forcedSince' = keptSince + forcedSince + 1
    BY <2>1 DEF PacerInv
  <2>6. nextFrame' - pacedFrom' = (keptSince' + forcedSince') * Interval'
    BY <2>1, <2>2, <2>3, <2>4, <2>5 DEF PacerInv
  <2>7. keptSince' > 0 => (keptSince' - 1) * Interval' <= keptAt' - pacedFrom'
    BY <2>1, <2>2 DEF PacerInv, RateHeld
  <2> QED
    BY <2>1, <2>3, <2>6, <2>7 DEF PacerInv, RateHeld
<1>3. ASSUME pacedFrom' = nextFrame', keptSince' = 0, forcedSince' = 0, nextFrame' \in Int, maxRate' \in Nat,
             maxRate' \in Rates \cup {NoLimit}, keptAt' \in Int
      PROVE  PacerInv'
  <2>1. Throttles' => (0 + 0) * Interval' = 0
    <3>1. ASSUME Throttles' PROVE Interval' \in Nat
      <4>1. maxRate' \in Nat /\ maxRate' \div 2 > 0
        BY <1>3, <3>1 DEF Throttles, WholeRate
      <4>2. Second \div (maxRate' \div 2) \in Nat
        BY <4>1, DistanceIsNat
      <4> QED
        BY <4>2 DEF Interval, WholeRate
    <3> QED
      BY <3>1, OneMoreDistance
  <2>2. RateHeld'
    BY <1>3, <2>1 DEF RateHeld
  <2> QED
    BY <1>3, <2>2 DEF PacerInv
<1>4. ASSUME NEW ts \in Stamps, KeepAndReset(ts) PROVE PacerInv'
  <2>1. Throttles /\ ts \in Int /\ nextFrame' = ts + Interval \div 2
    BY <1>4, FramePacingAssumption DEF KeepAndReset
  <2>2. Interval \in Nat
    BY <2>1, IntervalIsNat DEF PacerInv
  <2>3. nextFrame' \in Int
    BY <2>1, <2>2
  <2>4. pacedFrom' = nextFrame' /\ keptSince' = 0 /\ forcedSince' = 0 /\ keptAt' = ts /\ maxRate' = maxRate
    BY <1>4 DEF KeepAndReset
  <2> QED
    BY <1>3, <2>1, <2>3, <2>4 DEF PacerInv
<1>5. ASSUME NEW r \in Rates, SetRate(r) PROVE PacerInv'
  <2>1. /\ pacedFrom' = nextFrame' /\ keptSince' = 0 /\ forcedSince' = 0 /\ keptAt' = keptAt
        /\ maxRate' = r /\ nextFrame' = nextFrame
    BY <1>5 DEF SetRate
  <2> QED
    BY <1>3, <2>1, RatesAreNat DEF PacerInv
<1>6. CASE ResetPacer
  <2>1. /\ pacedFrom' = nextFrame' /\ keptSince' = 0 /\ forcedSince' = 0 /\ keptAt' = keptAt
        /\ maxRate' = NoLimit /\ nextFrame' = nextFrame
    BY <1>6 DEF ResetPacer
  <2> QED
    BY <1>3, <2>1, RatesAreNat DEF PacerInv
<1>7. ASSUME UNCHANGED <<maxRate, nextFrame, paced, pacedFrom, keptSince, forcedSince, keptAt>> PROVE PacerInv'
  BY <1>7 DEF PacerInv, RateHeld, Throttles, Interval, WholeRate
<1>8. UNCHANGED pacerVars => UNCHANGED <<maxRate, nextFrame, paced, pacedFrom, keptSince, forcedSince, keptAt>>
  BY DEF pacerVars
<1> QED
  BY <1>1, <1>2, <1>4, <1>5, <1>6, <1>7, <1>8 DEF PacerNext, PacerPanics, KeepAll, DropFrame

(* A rounded quotient is not above a bound the exact one is not above.        *)
LEMMA QuotientBound ==
  ASSUME NEW a \in Nat, NEW b \in Nat \ {0}, NEW q \in Nat, a < b * (q + 1) PROVE a \div b <= q
<1>1. a \div b \in Nat /\ a = b * (a \div b) + (a % b) /\ a % b \in Nat
  OBVIOUS
<1>2. SUFFICES ASSUME a \div b >= q + 1 PROVE FALSE
  BY <1>1
<1>3. b * (a \div b) >= b * (q + 1)
  BY <1>1, <1>2
<1> QED
  BY <1>1, <1>3

LEMMA RoundedBound ==
  ASSUME NEW n \in Nat, NEW d \in Nat \ {0}, NEW q \in Nat, n <= q * d PROVE Rounded(n, d) <= q /\ Rounded(n, d) \in Nat
<1>1. 2 * n + d < (2 * d) * (q + 1)
  <2>1. q * d \in Nat /\ (2 * d) * (q + 1) = 2 * (q * d) + 2 * d
    OBVIOUS
  <2> QED
    BY <2>1
<1>2. 2 * n + d \in Nat /\ 2 * d \in Nat \ {0}
  OBVIOUS
<1>3. (2 * n + d) \div (2 * d) <= q
  BY <1>1, <1>2, QuotientBound
<1> QED
  BY <1>2, <1>3 DEF Rounded

(* A scaled frame is within limits of at least 2, for any sizes and limits.   *)
THEOREM ScaledWithinLimits == ScaledFits
<1> SUFFICES ASSUME NEW w \in Sizes, NEW h \in Sizes, NEW mw \in Limits, NEW mh \in Limits
             PROVE  /\ Scaled(w, h, mw, mh).w <= AtLeastTwo(mw)
                    /\ Scaled(w, h, mw, mh).h <= AtLeastTwo(mh)
  BY DEF ScaledFits
<1>1. w \in Nat \ {0} /\ h \in Nat \ {0} /\ mw \in Nat \ {0} /\ mh \in Nat \ {0}
  BY FramePacingAssumption
<1>2. /\ h * mw \in Nat /\ w * mh \in Nat /\ mw * h = h * mw /\ mh * w = w * mh
      /\ mw * h \in Nat /\ mh * w \in Nat
  BY <1>1
<1>3. \A m, n \in Nat : m <= n => AtLeastTwo(m) <= AtLeastTwo(n)
  BY DEF AtLeastTwo
<1>4. CASE mw * h <= mh * w
  <2>1. Rounded(h * mw, w) <= mh /\ Rounded(h * mw, w) \in Nat
    BY <1>1, <1>2, <1>4, RoundedBound
  <2>2. Scaled(w, h, mw, mh) = [w |-> AtLeastTwo(mw), h |-> AtLeastTwo(Rounded(h * mw, w))]
    BY <1>4 DEF Scaled
  <2> QED
    BY <1>1, <1>3, <2>1, <2>2
<1>5. CASE ~(mw * h <= mh * w)
  <2>1. w * mh <= mw * h
    BY <1>2, <1>5
  <2>2. Rounded(w * mh, h) <= mw /\ Rounded(w * mh, h) \in Nat
    BY <1>1, <1>2, <2>1, RoundedBound
  <2>3. Scaled(w, h, mw, mh) = [w |-> AtLeastTwo(Rounded(w * mh, h)), h |-> AtLeastTwo(mh)]
    BY <1>5 DEF Scaled
  <2> QED
    BY <1>1, <1>3, <2>2, <2>3
<1> QED
  BY <1>4, <1>5

(* Over any stretch without a jump the rate stays below the one asked for,    *)
(* however the stamps jitter, for any stamps and rates.                       *)
THEOREM PacedWithinRate == PacerSpec => [](PacerTypeOK /\ RateHeld)
<1>1. PacerFlags /\ PacerInv => PacerTypeOK
  BY DEF PacerFlags, PacerInv, PacerTypeOK
<1>2. PacerInv => RateHeld
  BY DEF PacerInv
<1> QED
  BY PacerInitInv, PacerStep, PacerFlagsKept, <1>1, <1>2, PTL DEF PacerSpec
=============================================================================
