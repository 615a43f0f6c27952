----------------------------- MODULE VideoTrack -----------------------------
(* Sending raw frames over the webrtc-rs backend: WebrtcRsTrack makes its     *)
(* encoder at the first frame, pushes each frame under the lock and takes the *)
(* packets out one lock at a time; GstEncoder keeps frames in its pipeline    *)
(* and what came out of it in a vector.                                       *)
EXTENDS Naturals, Sequences, SequencesExt, FiniteSets

CONSTANTS
  TrackWriters,    \* tasks that write to the track
  MaxRawFrames,    \* bound: frames
  MaxSendFaults    \* bound: packets the transport refuses

ASSUME VideoTrackAssumption == MaxRawFrames \in Nat /\ MaxSendFaults \in Nat

VARIABLES
  encoderUp,       \* there is an encoder
  inPipeline,      \* frames in its pipeline, oldest first
  encoded,         \* its buffer of packets, named by their frame
  writerPc,        \* writerPc[w]: "idle", "init", "push", "pull", "send"
  frameInHand,     \* frameInHand[w]: frame, then packet in hand
  samplesWritten,  \* packets given to the transport
  refusedPackets, nRawFrames,
  pushedFrames     \* ghost: frames the encoder took

videoTrackVars == <<encoderUp, inPipeline, encoded, writerPc, frameInHand, samplesWritten, refusedPackets,
                    nRawFrames, pushedFrames>>

VideoTrackTypeOK ==
  /\ inPipeline \in Seq(1 .. nRawFrames) /\ encoded \in Seq(1 .. nRawFrames) /\ samplesWritten \in Seq(1 .. nRawFrames)
  /\ ~encoderUp => inPipeline = <<>> /\ encoded = <<>>
  /\ \A w \in TrackWriters : writerPc[w] \in {"idle", "init", "push", "pull", "send"}
                             /\ frameInHand[w] \in 0 .. nRawFrames

VideoTrackInit ==
  /\ encoderUp = FALSE /\ inPipeline = <<>> /\ encoded = <<>> /\ samplesWritten = <<>>
  /\ writerPc = [w \in TrackWriters |-> "idle"] /\ frameInHand = [w \in TrackWriters |-> 0]
  /\ refusedPackets = {} /\ nRawFrames = 0 /\ pushedFrames = {}

WriterGoes(w, from, to) == writerPc[w] = from /\ writerPc' = [writerPc EXCEPT ![w] = to]

-----------------------------------------------------------------------------
(* write_raw_i420_with_ts: the lock is let go between the look and the init.  *)
WriteRaw(w) ==
  /\ nRawFrames < MaxRawFrames /\ nRawFrames' = nRawFrames + 1
  /\ frameInHand' = [frameInHand EXCEPT ![w] = nRawFrames']
  /\ WriterGoes(w, "idle", IF encoderUp THEN "push" ELSE "init")
  /\ UNCHANGED <<encoderUp, inPipeline, encoded, samplesWritten, refusedPackets, pushedFrames>>

(* init_encoder puts the new encoder in the place of whichever is there.      *)
InitEncoder(w) ==
  /\ encoderUp' = TRUE /\ inPipeline' = <<>> /\ encoded' = <<>> /\ WriterGoes(w, "init", "push")
  /\ UNCHANGED <<frameInHand, samplesWritten, refusedPackets, nRawFrames, pushedFrames>>

(* configure could not build the pipeline: the track stays without encoder    *)
(* and the frame is refused.                                                  *)
EncoderRefused(w) ==
  /\ WriterGoes(w, "init", "idle")
  /\ UNCHANGED <<encoderUp, inPipeline, encoded, frameInHand, samplesWritten, refusedPackets, nRawFrames, pushedFrames>>

(* Data shorter than the format asks for, or a pipeline that takes no more:   *)
(* refused, by now with an encoder.                                           *)
PushRefused(w) ==
  /\ WriterGoes(w, "push", "idle")
  /\ UNCHANGED <<encoderUp, inPipeline, encoded, frameInHand, samplesWritten, refusedPackets, nRawFrames, pushedFrames>>

(* drain_appsink_packets: whatever comes out within 5 ms of each other, which *)
(* may be nothing, or several frames at once.                                 *)
DrainPackets(pipeline, n) ==
  /\ encoded' = encoded \o SubSeq(pipeline, 1, n) /\ inPipeline' = SubSeq(pipeline, n + 1, Len(pipeline))

PushFrame(w) ==
  /\ WriterGoes(w, "push", "pull") /\ pushedFrames' = pushedFrames \cup {frameInHand[w]}
  /\ \E n \in 0 .. Len(inPipeline) + 1 : DrainPackets(Append(inPipeline, frameInHand[w]), n)
  /\ UNCHANGED <<encoderUp, frameInHand, samplesWritten, refusedPackets, nRawFrames>>

(* A sample that cannot be read ends the draining and the call; it is gone.   *)
DrainFails(w) ==
  /\ Cardinality(refusedPackets) < MaxSendFaults /\ WriterGoes(w, "push", "idle")
  /\ pushedFrames' = pushedFrames \cup {frameInHand[w]}
  /\ \E n \in 0 .. Len(inPipeline) : LET all == Append(inPipeline, frameInHand[w]) IN
       /\ refusedPackets' = refusedPackets \cup {all[n + 1]}
       /\ encoded' = encoded \o SubSeq(all, 1, n) /\ inPipeline' = SubSeq(all, n + 2, Len(all))
  /\ UNCHANGED <<encoderUp, frameInHand, samplesWritten, nRawFrames>>

(* pull_packet takes the packet pushed last.                                  *)
PullPacket(w) ==
  /\ encoded # <<>> /\ frameInHand' = [frameInHand EXCEPT ![w] = Last(encoded)] /\ encoded' = Front(encoded)
  /\ WriterGoes(w, "pull", "send")
  /\ UNCHANGED <<encoderUp, inPipeline, samplesWritten, refusedPackets, nRawFrames, pushedFrames>>

PulledAll(w) ==
  /\ encoded = <<>> /\ WriterGoes(w, "pull", "idle")
  /\ UNCHANGED <<encoderUp, inPipeline, encoded, frameInHand, samplesWritten, refusedPackets, nRawFrames, pushedFrames>>

(* write_frame.  A transport that fails ends the call: packets left in the    *)
(* buffer wait for the next frame.                                            *)
SendSample(w) ==
  /\ WriterGoes(w, "send", "pull") /\ samplesWritten' = Append(samplesWritten, frameInHand[w])
  /\ UNCHANGED <<encoderUp, inPipeline, encoded, frameInHand, refusedPackets, nRawFrames, pushedFrames>>

SampleRefused(w) ==
  /\ Cardinality(refusedPackets) < MaxSendFaults /\ WriterGoes(w, "send", "idle")
  /\ refusedPackets' = refusedPackets \cup {frameInHand[w]}
  /\ UNCHANGED <<encoderUp, inPipeline, encoded, frameInHand, samplesWritten, nRawFrames, pushedFrames>>

VideoTrackNext == \E w \in TrackWriters :
  \/ WriteRaw(w) \/ InitEncoder(w) \/ EncoderRefused(w) \/ PushRefused(w) \/ PushFrame(w) \/ DrainFails(w)
  \/ PullPacket(w) \/ PulledAll(w) \/ SendSample(w) \/ SampleRefused(w)

VideoTrackSpec == VideoTrackInit /\ [][VideoTrackNext]_videoTrackVars

-----------------------------------------------------------------------------
InHand == {frameInHand[w] : w \in {x \in TrackWriters : writerPc[x] = "send"}}

(* A frame the encoder took is in its pipeline, in its buffer, in a writer's  *)
(* hand, with the transport or refused by it, and in one of these alone: no   *)
(* failed call of write_raw makes another frame vanish or be sent again       *)
(* (webrtc_rs.rs:548-593).  Holds for one writer; two that meet at the first  *)
(* frame both make an encoder, and the later one takes the frames of the      *)
(* earlier with it.                                                           *)
FramesAccountedFor ==
  /\ pushedFrames = Range(inPipeline) \cup Range(encoded) \cup InHand \cup Range(samplesWritten) \cup refusedPackets
  /\ IsInjective(inPipeline \o encoded \o samplesWritten)
  /\ refusedPackets \cap Range(inPipeline \o encoded \o samplesWritten) = {}

(* Packets come out in the order of their frames ("30 frame encode, PTS       *)
(* monotonic", docs/modules/18-codec-crate.md:238).  Does not hold: packets   *)
(* drained together are pulled last first (gstreamer.rs:296).                 *)
PtsMonotonic == \A i, j \in 1 .. Len(samplesWritten) : i < j => samplesWritten[i] < samplesWritten[j]
=============================================================================
