------------------------------ MODULE RtcPeer ------------------------------
(* A peer connection of mediaservo-webrtc on its webrtc-sys backend: the      *)
(* table of tracks the program sees, and the senders and receivers libwebrtc  *)
(* has.  A media track is made and staged, and attached by whichever call     *)
(* takes it from the stage; libwebrtc names it after its kind, whatever the   *)
(* program calls it.  Several threads may use the connection: the table's     *)
(* lock is held over the whole of add_track, and over nothing else that makes *)
(* or attaches a track.                                                       *)
EXTENDS Naturals, Sequences, FiniteSets, SequencesExt

CONSTANTS
  TrackIds,       \* names the program gives its tracks
  TrackKinds,     \* {"video", "audio"}: the names libwebrtc knows
  MaxTracks,      \* MAX_TRACKS of the table
  MaxMedia,       \* bound: media tracks made
  MaxTransceivers \* bound: transceivers without a track, and remote tracks

ASSUME RtcAssumption == MaxTracks \in Nat /\ MaxMedia \in Nat /\ MaxTransceivers \in Nat

VARIABLES
  rtcState,       \* signalling: "stable", "offered", "answering", "closed"
  rtcLocal,       \* local_sdp has a description
  rtcMedia,       \* kind of each media track made
  rtcTable,       \* track table: the media track behind each name; 0 for none
  rtcStaged,      \* media tracks that wait to be attached
  rtcAdding,      \* the name add_track is at work on, and keeps the lock for
  rtcSenders,     \* libwebrtc's senders: media track (0 for none), the track
                  \* its transceiver was asked for (0 for none), tuned or not
  rtcOnTrack,     \* an on_track callback is set
  rtcReceivers    \* remote tracks: a frame sink is set, libwebrtc feeds it

rtcVars == <<rtcState, rtcLocal, rtcMedia, rtcTable, rtcStaged, rtcAdding, rtcSenders,
             rtcOnTrack, rtcReceivers>>

RtcTypeOK ==
  /\ rtcState \in {"stable", "offered", "answering", "closed"} /\ rtcLocal \in BOOLEAN
  /\ rtcMedia \in Seq(TrackKinds) /\ Len(rtcMedia) <= MaxMedia
  /\ rtcTable \in [TrackIds -> 0 .. Len(rtcMedia)]
  /\ rtcAdding \subseteq TrackIds
  /\ Cardinality({i \in TrackIds : rtcTable[i] # 0}) <= MaxTracks
  /\ \A i \in DOMAIN rtcStaged : rtcStaged[i] \in DOMAIN rtcMedia
  /\ \A i \in DOMAIN rtcSenders :
       rtcSenders[i] \in [media : 0 .. MaxMedia, asked : 0 .. MaxMedia, tuned : BOOLEAN]
  /\ rtcReceivers \in Seq([sink : BOOLEAN, fed : BOOLEAN]) /\ rtcOnTrack \in BOOLEAN

RtcInit ==
  /\ rtcState = "stable" /\ rtcLocal = FALSE /\ rtcMedia = <<>>
  /\ rtcTable = [i \in TrackIds |-> 0] /\ rtcStaged = <<>> /\ rtcAdding = {}
  /\ rtcSenders = <<>> /\ rtcOnTrack = FALSE /\ rtcReceivers = <<>>

Sender(media, asked) == [media |-> media, asked |-> asked, tuned |-> FALSE]

-----------------------------------------------------------------------------
(* Tracks to send.                                                            *)

(* create_track_sender: a media track on the stage; no lock, no name.         *)
Stage(kind) ==
  /\ Len(rtcMedia) < MaxMedia
  /\ rtcMedia' = Append(rtcMedia, kind)
  /\ rtcStaged' = Append(rtcStaged, Len(rtcMedia'))

MakeSender(kind) ==
  /\ Stage(kind)
  /\ UNCHANGED <<rtcState, rtcLocal, rtcTable, rtcAdding, rtcSenders, rtcOnTrack, rtcReceivers>>

(* Wrong variant: one track more than the table may have.                     *)
AddTrackTooMany(id, kind) ==
  /\ rtcAdding = {} /\ rtcAdding' = {id}
  /\ Cardinality({i \in TrackIds : rtcTable[i] # 0}) <= MaxTracks
  /\ Stage(kind)
  /\ rtcTable' = [rtcTable EXCEPT ![id] = Len(rtcMedia')]
  /\ UNCHANGED <<rtcState, rtcLocal, rtcSenders, rtcOnTrack, rtcReceivers>>

(* A name that is taken is given the new track.                               *)
AddTrack(id, kind) ==
  /\ rtcAdding = {} /\ rtcAdding' = {id}
  /\ Cardinality({i \in TrackIds : rtcTable[i] # 0}) < MaxTracks
  /\ Stage(kind)
  /\ rtcTable' = [rtcTable EXCEPT ![id] = Len(rtcMedia')]
  /\ UNCHANGED <<rtcState, rtcLocal, rtcSenders, rtcOnTrack, rtcReceivers>>

(* The call goes on: register_track takes all that is staged by now, the last *)
(* first, whose ever it is; a connection that refuses them says nothing.      *)
RegisterTrack ==
  /\ rtcAdding # {} /\ rtcAdding' = {} /\ rtcStaged' = <<>>
  /\ rtcSenders' = IF rtcState = "closed" THEN rtcSenders
                   ELSE rtcSenders \o [i \in DOMAIN rtcStaged |-> Sender(Reverse(rtcStaged)[i], 0)]
  /\ UNCHANGED <<rtcState, rtcLocal, rtcMedia, rtcTable, rtcOnTrack, rtcReceivers>>

(* The sender libwebrtc has for it stays.                                     *)
RemoveTrack(id) ==
  /\ rtcAdding = {} /\ rtcTable[id] # 0 /\ rtcTable' = [rtcTable EXCEPT ![id] = 0]
  /\ UNCHANGED <<rtcState, rtcLocal, rtcMedia, rtcStaged, rtcAdding, rtcSenders, rtcOnTrack,
                 rtcReceivers>>

(* A transceiver for media track m, which a caller made or had from the       *)
(* table: it takes the track staged last, whichever that is.  With nothing    *)
(* staged it fails; when the connection is closed too, and the track is lost. *)
AddTransceiverWithTrack(m) ==
  /\ m \in DOMAIN rtcMedia /\ \A id \in rtcAdding : rtcTable[id] # m
  /\ rtcStaged # <<>> /\ rtcStaged' = Front(rtcStaged)
  /\ rtcSenders' = IF rtcState = "closed" THEN rtcSenders
                   ELSE Append(rtcSenders, Sender(Last(rtcStaged), m))
  /\ UNCHANGED <<rtcState, rtcLocal, rtcMedia, rtcTable, rtcAdding, rtcOnTrack, rtcReceivers>>

AddTransceiver ==
  /\ rtcState # "closed" /\ Len(SelectSeq(rtcSenders, LAMBDA s : s.media = 0)) < MaxTransceivers
  /\ rtcSenders' = Append(rtcSenders, Sender(0, 0))
  /\ UNCHANGED <<rtcState, rtcLocal, rtcMedia, rtcTable, rtcStaged, rtcAdding, rtcOnTrack,
                 rtcReceivers>>

(* Bit rate, encoder, codecs or a key frame for a named track: libwebrtc's    *)
(* first sender of that name; all before it must have a track.                *)
Tune(id) ==
  LET named == {i \in DOMAIN rtcSenders :
                  rtcSenders[i].media # 0 /\ rtcMedia[rtcSenders[i].media] = id}
      first == CHOOSE i \in named : \A j \in named : i <= j
  IN /\ named # {} /\ \A j \in 1 .. first : rtcSenders[j].media # 0
     /\ rtcSenders' = [rtcSenders EXCEPT ![first].tuned = TRUE]
     /\ UNCHANGED <<rtcState, rtcLocal, rtcMedia, rtcTable, rtcStaged, rtcAdding, rtcOnTrack,
                    rtcReceivers>>

-----------------------------------------------------------------------------
(* Descriptions: libwebrtc answers through a callback, once, and a context    *)
(* dropped unanswered is an error.  A local description is kept even when     *)
(* libwebrtc refused it.                                                      *)
SetLocalDescription ==
  /\ rtcLocal' = TRUE
  /\ rtcState' \in {rtcState} \cup (CASE rtcState = "stable" -> {"offered"}
                                      [] rtcState = "answering" -> {"stable"}
                                      [] OTHER -> {})
  /\ UNCHANGED <<rtcMedia, rtcTable, rtcStaged, rtcAdding, rtcSenders, rtcOnTrack, rtcReceivers>>

SetRemoteDescription ==
  /\ rtcState' \in {rtcState} \cup (CASE rtcState = "stable" -> {"answering"}
                                      [] rtcState = "offered" -> {"stable"}
                                      [] OTHER -> {})
  /\ UNCHANGED <<rtcLocal, rtcMedia, rtcTable, rtcStaged, rtcAdding, rtcSenders, rtcOnTrack,
                 rtcReceivers>>

CloseConnection ==
  /\ rtcState' = "closed"
  /\ UNCHANGED <<rtcLocal, rtcMedia, rtcTable, rtcStaged, rtcAdding, rtcSenders, rtcOnTrack,
                 rtcReceivers>>

-----------------------------------------------------------------------------
(* Tracks received.  Only a sink the callback sets while it runs is fed.      *)

SetOnTrack ==
  /\ rtcOnTrack' = TRUE
  /\ UNCHANGED <<rtcState, rtcLocal, rtcMedia, rtcTable, rtcStaged, rtcAdding, rtcSenders,
                 rtcReceivers>>

OnTrack(sets) ==
  /\ rtcState = "answering" /\ Len(rtcReceivers) < MaxTransceivers /\ (sets => rtcOnTrack)
  /\ rtcReceivers' = Append(rtcReceivers, [sink |-> sets, fed |-> sets])
  /\ UNCHANGED <<rtcState, rtcLocal, rtcMedia, rtcTable, rtcStaged, rtcAdding, rtcSenders,
                 rtcOnTrack>>

SetFrameSink(i) ==
  /\ i \in DOMAIN rtcReceivers /\ rtcReceivers' = [rtcReceivers EXCEPT ![i].sink = TRUE]
  /\ UNCHANGED <<rtcState, rtcLocal, rtcMedia, rtcTable, rtcStaged, rtcAdding, rtcSenders,
                 rtcOnTrack>>

-----------------------------------------------------------------------------
RtcNext ==
  \/ \E id \in TrackIds, kind \in TrackKinds : AddTrack(id, kind)
  \/ \E id \in TrackIds : RemoveTrack(id) \/ Tune(id)
  \/ \E kind \in TrackKinds : MakeSender(kind)
  \/ RegisterTrack \/ AddTransceiver
  \/ \E m \in 1 .. MaxMedia : AddTransceiverWithTrack(m)
  \/ SetLocalDescription \/ SetRemoteDescription \/ CloseConnection
  \/ SetOnTrack \/ (\E sets \in BOOLEAN : OnTrack(sets))
  \/ \E i \in 1 .. MaxTransceivers : SetFrameSink(i)

-----------------------------------------------------------------------------
(* A media track is sent by one sender at most and by none while it is        *)
(* staged, whichever calls attach what others staged; and a track add_track   *)
(* has put in the table is sent, whoever took it from the stage, unless the   *)
(* connection was closed.                                                     *)
OnSender(m) == \E i \in DOMAIN rtcSenders : rtcSenders[i].media = m

AttachedOnce ==
  /\ \A i, j \in DOMAIN rtcSenders :
       i # j /\ rtcSenders[i].media # 0 => rtcSenders[i].media # rtcSenders[j].media
  /\ \A i \in DOMAIN rtcStaged : ~OnSender(rtcStaged[i])
  /\ rtcState # "closed" =>
       \A id \in TrackIds \ rtcAdding : rtcTable[id] # 0 => OnSender(rtcTable[id])

(* A transceiver carries the track it was made for.  It does not hold: two    *)
(* senders made before either is placed are given each other's track, and a   *)
(* call of add_track takes what a maker of a sender has staged.               *)
TransceiverCarriesItsTrack ==
  \A i \in DOMAIN rtcSenders :
    rtcSenders[i].asked # 0 => rtcSenders[i].media = rtcSenders[i].asked
=============================================================================
