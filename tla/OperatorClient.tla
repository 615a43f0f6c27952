--------------------------- MODULE OperatorClient ---------------------------
(* The operator client: a task that retries the signalling connection, its    *)
(* relay loop (one select! over the socket and the candidates of its peer     *)
(* connection), the reader of the data channel, and the decode chain, which   *)
(* the frames reach through one bounded channel from the socket and from the  *)
(* data channel.                                                              *)
EXTENDS Naturals, Sequences

CONSTANTS
  MaxAttempts,     \* MAX_RETRIES
  FrameCap,        \* capacity of the frame channel
  IceCap,          \* and of the channel of own candidates
  MaxOffers,       \* bound: offers of the vehicle
  MaxClientFrames, \* bound: frames per source
  MaxOwnIce        \* bound: own candidates per peer connection

ASSUME OperatorClientAssumption ==
  /\ MaxAttempts \in Nat \ {0} /\ FrameCap \in Nat \ {0} /\ IceCap \in Nat \ {0}
  /\ MaxOffers \in Nat /\ MaxClientFrames \in Nat /\ MaxOwnIce \in Nat

VARIABLES
  client,         \* "connect", "auth", "join", "sleep", "gaveup"; in the loop "relay", "answer"
                  \*   (in handle_offer), "give" (waits for room for a frame); "done"
  joinAttempt,
  clientIn,       \* what the server sent and the loop has not taken
  pcUsed,         \* the peer connection kept, by the number of its offer; 0 none
  pcNew,          \* the one handle_offer makes
  channelOf,      \* channelOf[g]: "none", "open", "closed"
  spooled,        \* spooled[g]: frames its data channel delivered and nobody took
  readers,        \* peer connections with a live reader task
  readerHas,      \* readerHas[g]: the frame that reader is sending on, 0 none
  frameQueue, iceQueue,
  toServer,       \* ghost: answers and candidates sent
  decoded,        \* ghost: frames the decode chain took
  addedCand,      \* ghost: <<offer a candidate belongs to, peer connection it was added to>>
  nOffers, nFrames, nIce

clientVars == <<client, joinAttempt, clientIn, pcUsed, pcNew, channelOf, spooled, readers, readerHas,
                frameQueue, iceQueue, toServer, decoded, addedCand, nOffers, nFrames, nIce>>
clientDcState == <<channelOf, spooled, readers, readerHas>>
clientCounts == <<nOffers, nFrames, nIce>>

Gens == 1 .. MaxOffers
ClientInSession == client \in {"relay", "answer", "give"}
Framed(g, n) == [gen |-> g, n |-> n]
Sent(kind, g) == [kind |-> kind, gen |-> g]

ClientTypeOK ==
  /\ client \in {"connect", "auth", "join", "sleep", "gaveup", "relay", "answer", "give", "done"}
  /\ joinAttempt \in 1 .. MaxAttempts /\ pcUsed \in 0 .. nOffers /\ pcNew \in 0 .. nOffers
  /\ Len(frameQueue) <= FrameCap /\ Len(iceQueue) <= IceCap
  /\ \A g \in Gens : channelOf[g] \in {"none", "open", "closed"} /\ readerHas[g] <= MaxClientFrames
  /\ readers \subseteq Gens

ClientInit ==
  /\ client = "connect" /\ joinAttempt = 1 /\ clientIn = <<>> /\ pcUsed = 0 /\ pcNew = 0
  /\ channelOf = [g \in Gens |-> "none"] /\ spooled = [g \in Gens |-> <<>>] /\ readers = {}
  /\ readerHas = [g \in Gens |-> 0] /\ frameQueue = <<>> /\ iceQueue = <<>> /\ toServer = <<>>
  /\ decoded = <<>> /\ addedCand = {} /\ nOffers = 0 /\ nFrames = [g \in 0 .. MaxOffers |-> 0]
  /\ nIce = [g \in Gens |-> 0]

-----------------------------------------------------------------------------
(* main: the retries, and connect up to the loop.                             *)
ClientLoopRest == <<pcUsed, pcNew, clientDcState, frameQueue, iceQueue, toServer, decoded, addedCand, clientCounts>>

ClientProceeds ==
  /\ \/ client = "connect" /\ client' = "auth"
     \/ client = "auth" /\ client' = "join"
     \/ client = "join" /\ client' = "relay"
  /\ UNCHANGED <<joinAttempt, clientIn, ClientLoopRest>>

ClientConnectFails ==
  /\ client \in {"connect", "auth", "join"} /\ client' = "sleep" /\ UNCHANGED <<joinAttempt, clientIn, ClientLoopRest>>

(* The delay passes, after the last attempt too.                              *)
ClientTriesAgain ==
  /\ client = "sleep"
  /\ \/ joinAttempt < MaxAttempts /\ joinAttempt' = joinAttempt + 1 /\ client' = "connect"
     \/ joinAttempt = MaxAttempts /\ client' = "gaveup" /\ UNCHANGED joinAttempt
  /\ UNCHANGED <<clientIn, ClientLoopRest>>

(* The loop ends, however it was left, with Ok: main does not connect again.  *)
(* The transport is dropped with it: the peer connection is closed and the    *)
(* reader aborted.                                                            *)
LoopEnds ==
  /\ client' = "done" /\ pcUsed' = 0 /\ pcNew' = 0 /\ readers' = {} /\ readerHas' = [g \in Gens |-> 0]
  /\ channelOf' = [g \in Gens |-> IF channelOf[g] = "open" THEN "closed" ELSE channelOf[g]]
  /\ UNCHANGED spooled

ClientLosesLink ==
  /\ client = "relay" /\ LoopEnds
  /\ UNCHANGED <<joinAttempt, clientIn, frameQueue, iceQueue, toServer, decoded, addedCand, clientCounts>>

-----------------------------------------------------------------------------
(* The server: offers, candidates for the last offer, and frames.             *)
OfferComes ==
  /\ ClientInSession /\ nOffers < MaxOffers /\ nOffers' = nOffers + 1
  /\ clientIn' = Append(clientIn, Sent("offer", nOffers'))
  /\ UNCHANGED <<client, joinAttempt, pcUsed, pcNew, clientDcState, frameQueue, iceQueue, toServer, decoded,
                 addedCand, nFrames, nIce>>
CandidateComes ==
  /\ ClientInSession /\ nOffers > 0 /\ \A i \in 1 .. Len(clientIn) : clientIn[i] # Sent("cand", nOffers)
  /\ ~\E c \in addedCand : c[1] = nOffers
  /\ clientIn' = Append(clientIn, Sent("cand", nOffers))
  /\ UNCHANGED <<client, joinAttempt, ClientLoopRest>>
FrameComes ==
  /\ ClientInSession /\ nFrames[0] < MaxClientFrames /\ nFrames' = [nFrames EXCEPT ![0] = @ + 1]
  /\ clientIn' = Append(clientIn, [kind |-> "frame", gen |-> 0, n |-> nFrames'[0]])
  /\ UNCHANGED <<client, joinAttempt, pcUsed, pcNew, clientDcState, frameQueue, iceQueue, toServer, decoded,
                 addedCand, nOffers, nIce>>

Takes(kind) ==
  client = "relay" /\ clientIn # <<>> /\ Head(clientIn).kind = kind /\ clientIn' = Tail(clientIn)

(* handle_offer up to set_local_description, from which the candidates come.  *)
(* A refused offer leaves the peer connection that was there.                 *)
TakeOffer ==
  /\ Takes("offer")
  /\ \/ client' = "answer" /\ pcNew' = Head(clientIn).gen
     \/ UNCHANGED <<client, pcNew>>
  /\ UNCHANGED <<joinAttempt, pcUsed, clientDcState, frameQueue, iceQueue, toServer, decoded, addedCand, clientCounts>>

(* The old peer connection is closed, the new one kept, and the answer sent.  *)
FinishOffer ==
  /\ client = "answer"
  /\ \/ /\ client' = "relay" /\ pcUsed' = pcNew /\ pcNew' = 0
        /\ channelOf' = [g \in Gens |-> IF g = pcUsed THEN "closed" ELSE channelOf[g]]
        /\ toServer' = Append(toServer, Sent("answer", pcNew)) /\ UNCHANGED <<spooled, readers, readerHas>>
     \/ LoopEnds /\ UNCHANGED toServer
  /\ UNCHANGED <<joinAttempt, clientIn, frameQueue, iceQueue, decoded, addedCand, clientCounts>>

(* handle_ice: added to the peer connection kept, lost when there is none.    *)
TakeCandidate ==
  /\ Takes("cand")
  /\ addedCand' = IF pcUsed = 0 THEN addedCand ELSE addedCand \cup {<<Head(clientIn).gen, pcUsed>>}
  /\ UNCHANGED <<client, joinAttempt, pcUsed, pcNew, clientDcState, frameQueue, iceQueue, toServer, decoded, clientCounts>>

(* A frame off the socket: the loop waits until the frame channel has room.   *)
TakeFrameMessage ==
  /\ client = "relay" /\ clientIn # <<>> /\ Head(clientIn).kind = "frame"
  /\ IF Len(frameQueue) < FrameCap
     THEN /\ frameQueue' = Append(frameQueue, Framed(0, Head(clientIn).n)) /\ clientIn' = Tail(clientIn)
          /\ UNCHANGED client
     ELSE client' = "give" /\ UNCHANGED <<frameQueue, clientIn>>
  /\ UNCHANGED <<joinAttempt, pcUsed, pcNew, clientDcState, iceQueue, toServer, decoded, addedCand, clientCounts>>

RoomForFrame ==
  /\ client = "give" /\ Len(frameQueue) < FrameCap /\ client' = "relay"
  /\ frameQueue' = Append(frameQueue, Framed(0, Head(clientIn).n)) /\ clientIn' = Tail(clientIn)
  /\ UNCHANGED <<joinAttempt, pcUsed, pcNew, clientDcState, iceQueue, toServer, decoded, addedCand, clientCounts>>

SendIce ==
  /\ client = "relay" /\ iceQueue # <<>> /\ iceQueue' = Tail(iceQueue)
  /\ \/ toServer' = Append(toServer, Sent("cand", Head(iceQueue)))
        /\ UNCHANGED <<client, pcUsed, pcNew, clientDcState>>
     \/ LoopEnds /\ UNCHANGED toServer
  /\ UNCHANGED <<joinAttempt, clientIn, frameQueue, decoded, addedCand, clientCounts>>

-----------------------------------------------------------------------------
(* The peer connection: on_ice_candidate, which drops what finds the channel  *)
(* full, and on_data_channel, which aborts the reader there was.              *)
OwnCandidate(g) ==
  /\ g \in {pcUsed, pcNew} /\ g # 0 /\ nIce[g] < MaxOwnIce /\ nIce' = [nIce EXCEPT ![g] = @ + 1]
  /\ iceQueue' = IF Len(iceQueue) < IceCap THEN Append(iceQueue, g) ELSE iceQueue
  /\ UNCHANGED <<client, joinAttempt, clientIn, pcUsed, pcNew, clientDcState, frameQueue, toServer, decoded,
                 addedCand, nOffers, nFrames>>

ReadInstead(g) == readers' = {g} /\ readerHas' = [h \in Gens |-> 0]

ClientChannelOpens(g) ==
  /\ g = pcUsed /\ ClientInSession /\ channelOf[g] = "none" /\ channelOf' = [channelOf EXCEPT ![g] = "open"]
  /\ ReadInstead(g)
  /\ UNCHANGED <<client, joinAttempt, clientIn, pcUsed, pcNew, spooled, frameQueue, iceQueue, toServer,
                 decoded, addedCand, clientCounts>>

ChannelDelivers(g) ==
  /\ channelOf[g] = "open" /\ nFrames[g] < MaxClientFrames /\ nFrames' = [nFrames EXCEPT ![g] = @ + 1]
  /\ spooled' = [spooled EXCEPT ![g] = Append(@, nFrames'[g])]
  /\ UNCHANGED <<client, joinAttempt, clientIn, pcUsed, pcNew, channelOf, readers, readerHas, frameQueue,
                 iceQueue, toServer, decoded, addedCand, nOffers, nIce>>

(* The reader task: what was spooled before the close still comes.            *)
ReaderTakes(g) ==
  /\ g \in readers /\ readerHas[g] = 0
  /\ \/ /\ spooled[g] # <<>> /\ readerHas' = [readerHas EXCEPT ![g] = Head(spooled[g])]
        /\ spooled' = [spooled EXCEPT ![g] = Tail(@)] /\ UNCHANGED readers
     \/ /\ spooled[g] = <<>> /\ channelOf[g] = "closed" /\ readers' = readers \ {g}
        /\ UNCHANGED <<readerHas, spooled>>
  /\ UNCHANGED <<client, joinAttempt, clientIn, pcUsed, pcNew, channelOf, frameQueue, iceQueue, toServer,
                 decoded, addedCand, clientCounts>>

ReaderGives(g) ==
  /\ g \in readers /\ readerHas[g] # 0 /\ Len(frameQueue) < FrameCap
  /\ frameQueue' = Append(frameQueue, Framed(g, readerHas[g])) /\ readerHas' = [readerHas EXCEPT ![g] = 0]
  /\ UNCHANGED <<client, joinAttempt, clientIn, pcUsed, pcNew, channelOf, spooled, readers, iceQueue,
                 toServer, decoded, addedCand, clientCounts>>

(* The decode chain: FrameSource and DecodeSink.                              *)
DecodeFrame ==
  /\ frameQueue # <<>> /\ frameQueue' = Tail(frameQueue) /\ decoded' = Append(decoded, Head(frameQueue))
  /\ UNCHANGED <<client, joinAttempt, clientIn, pcUsed, pcNew, clientDcState, iceQueue, toServer, addedCand, clientCounts>>

ClientNext ==
  \/ ClientProceeds \/ ClientConnectFails \/ ClientTriesAgain \/ ClientLosesLink \/ OfferComes \/ CandidateComes \/ FrameComes
  \/ TakeOffer \/ FinishOffer \/ TakeCandidate \/ TakeFrameMessage \/ RoomForFrame \/ SendIce \/ DecodeFrame
  \/ \E g \in Gens : \/ OwnCandidate(g) \/ ClientChannelOpens(g) \/ ChannelDelivers(g)
                     \/ ReaderTakes(g) \/ ReaderGives(g)

ClientSpec == ClientInit /\ [][ClientNext]_clientVars

-----------------------------------------------------------------------------
(* No candidate of a peer connection leaves before its answer; the frames of  *)
(* each source are decoded in the order they were sent, and none of an older  *)
(* peer connection after one of a newer.                                      *)
ClientInOrder ==
  /\ \A i \in 1 .. Len(toServer) : toServer[i].kind = "cand" =>
       \E j \in 1 .. i : toServer[j] = Sent("answer", toServer[i].gen)
  /\ \A i, j \in 1 .. Len(decoded) : i < j /\ (decoded[i].gen = 0 <=> decoded[j].gen = 0) =>
       \/ decoded[i].gen < decoded[j].gen
       \/ decoded[i].gen = decoded[j].gen /\ decoded[i].n < decoded[j].n

(* A candidate is added to the peer connection of its own offer.  Does not    *)
(* hold: that of a refused offer goes to the one there was.                   *)
CandidatesReachTheirOffer == \A c \in addedCand : c[1] = c[2]
=============================================================================
