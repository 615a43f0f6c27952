----------------------------- MODULE DecodePath -----------------------------
(* Receiving video over the webrtc-rs backend: run_decode_pipeline reads RTP  *)
(* packets, puts the fragments of a unit together, feeds the unit to          *)
(* GstDecoder and hands what comes out to the sink, once there is one.        *)
EXTENDS Naturals, Sequences, SequencesExt, FiniteSets

CONSTANTS
  WireUnits,        \* number of units the sender cuts into packets
  Fragmented,       \* those it cuts into three fragments
  MaxPacketsLost,   \* bound: packets lost on the way
  MaxTooShort       \* bound: packets with less than two bytes of payload

ASSUME DecodePathAssumption ==
  WireUnits \in Nat /\ Fragmented \subseteq 1 .. WireUnits /\ MaxPacketsLost \in Nat /\ MaxTooShort \in Nat

Places == {"start", "middle", "end", "single"}
PiecesOf(u) == IF u \in Fragmented THEN << <<u, "start">>, <<u, "middle">>, <<u, "end">> >>
                                   ELSE << <<u, "single">> >>

VARIABLES
  decodePhase,     \* "waiting" (for a track), "starting", "reading", "ended"
  decoderMade,     \* the factory made a decoder and it could be configured
  sinkSet,         \* the application set a sink on the receiver
  toCome,          \* packets still on the way, in order
  overtaken,       \* packet that others have overtaken, or <<>>
  auBuffer,        \* au_buffer: the pieces in it
  inDecoder,       \* units in the decoder's pipeline
  decodedFrames,   \* its buffer of frames
  shownFrames,     \* frames the sink was given
  lostPackets, shortPackets,
  heardPieces,     \* ghost: fragments that arrived, in order
  fedUnits         \* ghost: units fed

decodeVars == <<decodePhase, decoderMade, sinkSet, toCome, overtaken, auBuffer, inDecoder, decodedFrames,
                shownFrames, lostPackets, shortPackets, heardPieces, fedUnits>>

DecodeTypeOK ==
  /\ decodePhase \in {"waiting", "starting", "reading", "ended"} /\ decoderMade \in BOOLEAN /\ sinkSet \in BOOLEAN
  /\ auBuffer \in Seq((1 .. WireUnits) \X Places) /\ Range(inDecoder) \cup Range(decodedFrames) \subseteq fedUnits
  /\ decodedFrames # <<>> => decodePhase = "reading"
  /\ Range(shownFrames) \subseteq fedUnits /\ (shownFrames # <<>> => sinkSet)

DecodeInit ==
  /\ decodePhase = "waiting" /\ decoderMade = FALSE /\ sinkSet = FALSE
  /\ toCome = FlattenSeq([u \in 1 .. WireUnits |-> PiecesOf(u)]) /\ overtaken = <<>>
  /\ auBuffer = <<>> /\ inDecoder = <<>> /\ decodedFrames = <<>> /\ shownFrames = <<>>
  /\ lostPackets = 0 /\ shortPackets = 0 /\ heardPieces = <<>> /\ fedUnits = {}

-----------------------------------------------------------------------------
(* on_track: the application's callback gets the receiver, and a task starts. *)
TrackArrives ==
  /\ decodePhase = "waiting" /\ decodePhase' = "starting"
  /\ UNCHANGED <<decoderMade, sinkSet, toCome, overtaken, auBuffer, inDecoder, decodedFrames, shownFrames,
                 lostPackets, shortPackets, heardPieces, fedUnits>>

(* The task makes a decoder of its own; without one it ends at once.          *)
MakeDecoder ==
  /\ decodePhase = "starting" /\ decoderMade' \in BOOLEAN
  /\ decodePhase' = IF decoderMade' THEN "reading" ELSE "ended"
  /\ UNCHANGED <<sinkSet, toCome, overtaken, auBuffer, inDecoder, decodedFrames, shownFrames, lostPackets,
                 shortPackets, heardPieces, fedUnits>>

SinkIsSet ==
  /\ decodePhase # "waiting" /\ ~sinkSet /\ sinkSet' = TRUE
  /\ UNCHANGED <<decodePhase, decoderMade, toCome, overtaken, auBuffer, inDecoder, decodedFrames, shownFrames,
                 lostPackets, shortPackets, heardPieces, fedUnits>>

-----------------------------------------------------------------------------
(* The way: packets get lost, and one may be overtaken by those behind it.    *)
LosePacket ==
  /\ toCome # <<>> /\ lostPackets < MaxPacketsLost /\ lostPackets' = lostPackets + 1 /\ toCome' = Tail(toCome)
  /\ UNCHANGED <<decodePhase, decoderMade, sinkSet, overtaken, auBuffer, inDecoder, decodedFrames, shownFrames,
                 shortPackets, heardPieces, fedUnits>>

OvertakePacket ==
  /\ Len(toCome) > 1 /\ overtaken = <<>> /\ overtaken' = Head(toCome) /\ toCome' = Tail(toCome)
  /\ UNCHANGED <<decodePhase, decoderMade, sinkSet, auBuffer, inDecoder, decodedFrames, shownFrames, lostPackets,
                 shortPackets, heardPieces, fedUnits>>

Taken(packet) ==
  \/ toCome # <<>> /\ packet = Head(toCome) /\ toCome' = Tail(toCome) /\ UNCHANGED overtaken
  \/ overtaken # <<>> /\ packet = overtaken /\ overtaken' = <<>> /\ UNCHANGED toCome

CanRead == decodePhase = "reading" /\ decodedFrames = <<>>

-----------------------------------------------------------------------------
(* The start of a unit empties the buffer, which the end leaves as it is.     *)
(* Wrong variant: the start adds to what is there.                            *)
PieceJoinedNoClear(buffer, packet) == Append(buffer, packet)

PieceJoined(buffer, packet) == IF packet[2] = "start" THEN <<packet>> ELSE Append(buffer, packet)

(* drain_appsink_frames: what came out within 5 ms of each other.             *)
DrainedFrames(units, n) == decodedFrames' = SubSeq(units, 1, n) /\ inDecoder' = SubSeq(units, n + 1, Len(units))

(* push_packet: a decoder that refuses the unit gets the next one all the     *)
(* same.                                                                      *)
FeedDecoder(pieces) ==
  /\ fedUnits' = fedUnits \cup {pieces}
  /\ \/ \E n \in 0 .. Len(inDecoder) + 1 : DrainedFrames(Append(inDecoder, pieces), n)
     \/ UNCHANGED <<decodedFrames, inDecoder>>

ReadFragment ==
  /\ CanRead
  /\ \E packet \in (1 .. WireUnits) \X {"start", "middle", "end"} :
       /\ Taken(packet) /\ heardPieces' = Append(heardPieces, packet) /\ auBuffer' = PieceJoined(auBuffer, packet)
       /\ IF packet[2] = "end" THEN FeedDecoder(auBuffer') ELSE UNCHANGED <<decodedFrames, inDecoder, fedUnits>>
  /\ UNCHANGED <<decodePhase, decoderMade, sinkSet, shownFrames, lostPackets, shortPackets>>

ReadSingle ==
  /\ CanRead /\ \E u \in 1 .. WireUnits : Taken(<<u, "single">>) /\ FeedDecoder(<< <<u, "single">> >>)
  /\ UNCHANGED <<decodePhase, decoderMade, sinkSet, auBuffer, shownFrames, lostPackets, shortPackets, heardPieces>>

(* Padding and the like: passed over.                                         *)
ReadShort ==
  /\ CanRead /\ shortPackets < MaxTooShort /\ shortPackets' = shortPackets + 1
  /\ UNCHANGED <<decodePhase, decoderMade, sinkSet, toCome, overtaken, auBuffer, inDecoder, decodedFrames,
                 shownFrames, lostPackets, heardPieces, fedUnits>>

(* feed_and_drain pulls until there is nothing left, the newest frame first;  *)
(* without a sink the frame is gone.                                          *)
DrainFrame ==
  /\ decodedFrames # <<>> /\ decodedFrames' = Front(decodedFrames)
  /\ shownFrames' = IF sinkSet THEN Append(shownFrames, Last(decodedFrames)) ELSE shownFrames
  /\ UNCHANGED <<decodePhase, decoderMade, sinkSet, toCome, overtaken, auBuffer, inDecoder, lostPackets,
                 shortPackets, heardPieces, fedUnits>>

(* read_rtp fails: the track was closed.                                      *)
TrackEnds ==
  /\ CanRead /\ decodePhase' = "ended"
  /\ UNCHANGED <<decoderMade, sinkSet, toCome, overtaken, auBuffer, inDecoder, decodedFrames, shownFrames,
                 lostPackets, shortPackets, heardPieces, fedUnits>>

DecodeNext ==
  \/ TrackArrives \/ MakeDecoder \/ SinkIsSet \/ LosePacket \/ OvertakePacket \/ ReadFragment \/ ReadSingle \/ ReadShort
  \/ DrainFrame \/ TrackEnds

DecodeSpec == DecodeInit /\ [][DecodeNext]_decodeVars

-----------------------------------------------------------------------------
(* A unit whose fragments all arrive one after the other is fed whole and     *)
(* alone, whatever was lost or out of order before it, and whatever unit in   *)
(* one piece comes between its fragments: the reassembly recovers at the next *)
(* start (webrtc_rs.rs:332-347).                                              *)
WholeUnitsFed == \A i \in 1 .. Len(heardPieces) - 2 :
  LET unit == SubSeq(heardPieces, i, i + 2) IN
    unit = PiecesOf(heardPieces[i][1]) => unit \in fedUnits

(* No unit mixes the fragments of two.  Does not hold: when the start is lost *)
(* the fragments are added to the unit before, which is still in the buffer.  *)
UnitsUnmixed == \A f \in fedUnits : \A i, j \in DOMAIN f : f[i][1] = f[j][1]
=============================================================================
