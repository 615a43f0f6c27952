----------------------------- MODULE TrackSink -----------------------------
(* The bridge from a frame source to a WebRTC track: the source's thread puts *)
(* copies of its frames into a short channel, and a task of its own writes    *)
(* them to the track.  What the channel has no room for is dropped; a track   *)
(* that refuses MaxErrors frames in a row ends the task, and the source,      *)
(* told so by its next frame, takes the bridge off its list.                  *)
EXTENDS Naturals, Sequences

CONSTANTS
  Capacity,       \* CHANNEL_CAPACITY
  MaxErrors,      \* MAX_CONSECUTIVE_ERRORS
  MaxSourced      \* bound: frames the source makes

ASSUME TrackSinkAssumption == Capacity \in Nat \ {0} /\ MaxErrors \in Nat \ {0} /\ MaxSourced \in Nat

VARIABLES
  sinkWanted,     \* the source still has the bridge on its list
  sinkFrames,     \* frames in the channel
  sinkTask,       \* "idle", "writing", "ended"
  sinkErrors,     \* consecutive_errors
  sinkSourced,    \* frames the source made
  sinkTaken,      \* the frame being written
  sinkWritten,    \* frames the track accepted
  sinkRefused     \* frames refused since the last it accepted

sinkVars == <<sinkWanted, sinkFrames, sinkTask, sinkErrors, sinkSourced, sinkTaken, sinkWritten,
              sinkRefused>>

SinkTypeOK ==
  /\ sinkWanted \in BOOLEAN /\ sinkTask \in {"idle", "writing", "ended"}
  /\ Len(sinkFrames) <= Capacity /\ sinkErrors \in 0 .. MaxErrors
  /\ sinkSourced <= MaxSourced /\ sinkTaken \in 0 .. sinkSourced

SinkInit ==
  /\ sinkWanted = TRUE /\ sinkFrames = <<>> /\ sinkTask = "idle" /\ sinkErrors = 0
  /\ sinkSourced = 0 /\ sinkTaken = 0 /\ sinkWritten = <<>> /\ sinkRefused = 0

-----------------------------------------------------------------------------
(* on_frame, on the source's thread: try_send.                                *)
OnFrame ==
  /\ sinkWanted /\ sinkSourced < MaxSourced /\ sinkSourced' = sinkSourced + 1
  /\ IF sinkTask = "ended"
     THEN sinkWanted' = FALSE /\ UNCHANGED sinkFrames
     ELSE /\ UNCHANGED sinkWanted
          /\ IF Len(sinkFrames) < Capacity
             THEN sinkFrames' = Append(sinkFrames, sinkSourced') ELSE UNCHANGED sinkFrames
  /\ UNCHANGED <<sinkTask, sinkErrors, sinkTaken, sinkWritten, sinkRefused>>

(* The source lets the bridge go: its channel closes once it is empty.        *)
SourceDrops ==
  /\ sinkWanted /\ sinkWanted' = FALSE
  /\ UNCHANGED <<sinkFrames, sinkTask, sinkErrors, sinkSourced, sinkTaken, sinkWritten, sinkRefused>>

SinkTake ==
  /\ sinkTask = "idle"
  /\ \/ /\ sinkFrames # <<>> /\ sinkTaken' = Head(sinkFrames) /\ sinkFrames' = Tail(sinkFrames)
        /\ sinkTask' = "writing"
     \/ /\ sinkFrames = <<>> /\ ~sinkWanted /\ sinkTask' = "ended"
        /\ UNCHANGED <<sinkTaken, sinkFrames>>
  /\ UNCHANGED <<sinkWanted, sinkErrors, sinkSourced, sinkWritten, sinkRefused>>

TrackAccepts ==
  /\ sinkTask = "writing" /\ sinkTask' = "idle" /\ sinkErrors' = 0
  /\ sinkWritten' = Append(sinkWritten, sinkTaken) /\ sinkRefused' = 0
  /\ UNCHANGED <<sinkWanted, sinkFrames, sinkSourced, sinkTaken>>

(* What is still in the channel goes with the task.                           *)
TrackRefuses ==
  /\ sinkTask = "writing" /\ sinkErrors' = sinkErrors + 1 /\ sinkRefused' = sinkRefused + 1
  /\ sinkTask' = IF sinkErrors' >= MaxErrors THEN "ended" ELSE "idle"
  /\ sinkFrames' = IF sinkErrors' >= MaxErrors THEN <<>> ELSE sinkFrames
  /\ UNCHANGED <<sinkWanted, sinkSourced, sinkTaken, sinkWritten>>

SinkStep == SinkTake \/ TrackAccepts \/ TrackRefuses
SinkNext == OnFrame \/ SourceDrops \/ SinkStep

-----------------------------------------------------------------------------
(* Frames reach the track in the order they were made, and the task gives up  *)
(* a track that is still wanted only after MaxErrors refusals with no frame   *)
(* accepted in between.                                                       *)
GivesUpInOrder ==
  /\ \A i, j \in DOMAIN sinkWritten : i < j => sinkWritten[i] < sinkWritten[j]
  /\ sinkTask = "ended" /\ sinkWanted => sinkRefused >= MaxErrors
=============================================================================
