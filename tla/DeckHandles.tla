---------------------------- MODULE DeckHandles ----------------------------
(* The C interface to cameras, recorders and players (mediaservo-deck-c): a   *)
(* camera's pump thread hands every frame to a callback and to the recording  *)
(* task bridged to it, a player's pump decodes its file, and each close waits *)
(* for what it started before it frees the handle.  One thread of the         *)
(* application owns all handles; it gives each of them up once.               *)
EXTENDS Naturals

CONSTANTS
  Recorders,      \* recorder handles
  NoRecorder,     \* the camera feeds no recorder
  MaxDeckFrames,  \* bound: frames the camera yields
  MaxDecoded      \* bound: frames of the file

ASSUME DeckAssumption ==
  NoRecorder \notin Recorders /\ MaxDeckFrames \in Nat /\ MaxDecoded \in Nat

VARIABLES
  camera,         \* "none", "open", "started", "closed"
  camStop,        \* the camera's stop flag
  camPump,        \* what its pump thread does
  camCb,          \* a callback is registered
  bridge,         \* the recorder that rec_tx leads to
  yielded,        \* frames the camera has yielded
  recorder,       \* of a recorder: "none", "ready", "taken", "closed"
  takeTask,       \* its recording task: "none", "spawned", "running", "ended"
  live,           \* the running flag of its Recorder
  takeSignal,     \* its StopSignal has not been used
  player,         \* "none", "open", "taken", "closed"
  plPump,         \* what the player's pump thread does
  undecoded,      \* frames of the file left, the decoder's included
  inCall          \* the close call the application waits in

camVars == <<camera, camStop, camPump, camCb, bridge, yielded>>
takeVars == <<recorder, takeTask, live, takeSignal>>
plVars == <<player, plPump, undecoded>>
deckVars == <<camera, camStop, camPump, camCb, bridge, yielded, recorder, takeTask, live, takeSignal,
              player, plPump, undecoded, inCall>>

DeckTypeOK ==
  /\ camera \in {"none", "open", "started", "closed"}
  /\ camPump \in {"none", "polling", "callback", "bridge", "stuck", "done"}
  /\ camStop \in BOOLEAN /\ camCb \in BOOLEAN
  /\ bridge \in Recorders \cup {NoRecorder}
  /\ recorder \in [Recorders -> {"none", "ready", "taken", "closed"}]
  /\ takeTask \in [Recorders -> {"none", "spawned", "running", "ended"}]
  /\ \A r \in Recorders : bridge = r => takeTask[r] # "none"
  /\ player \in {"none", "open", "taken", "closed"}
  /\ plPump \in {"none", "decoding", "callback", "done"}
  /\ inCall \in {"none", "camera", "player"} \cup Recorders

DeckInit ==
  /\ camera = "none" /\ camStop = FALSE /\ camPump = "none" /\ camCb = FALSE
  /\ bridge = NoRecorder /\ yielded = 0
  /\ recorder = [r \in Recorders |-> "none"] /\ takeTask = [r \in Recorders |-> "none"]
  /\ live = [r \in Recorders |-> FALSE] /\ takeSignal = [r \in Recorders |-> FALSE]
  /\ player = "none" /\ plPump = "none" /\ undecoded \in 0 .. MaxDecoded
  /\ inCall = "none"

-----------------------------------------------------------------------------
(* Calls on a camera; a call that fails changes nothing.                      *)

Free == inCall = "none"

CameraOpen ==
  /\ Free /\ camera = "none" /\ camera' = "open"
  /\ UNCHANGED <<camStop, camPump, camCb, bridge, yielded, takeVars, plVars, inCall>>

(* The stop flag is not looked at: a camera stopped before it is started      *)
(* starts, and its pump ends at once.                                         *)
CameraStart ==
  /\ Free /\ camera = "open"
  /\ camera' = "started" /\ camPump' = "polling"
  /\ UNCHANGED <<camStop, camCb, bridge, yielded, takeVars, plVars, inCall>>

CameraFramesCb ==
  /\ Free /\ camera \in {"open", "started"} /\ camCb' = TRUE
  /\ UNCHANGED <<camera, camStop, camPump, bridge, yielded, takeVars, plVars, inCall>>

CameraStop ==
  /\ Free /\ camera \in {"open", "started"} /\ camStop' = TRUE
  /\ UNCHANGED <<camera, camPump, camCb, bridge, yielded, takeVars, plVars, inCall>>

CameraClose ==
  /\ Free /\ camera \in {"open", "started"}
  /\ camStop' = TRUE /\ inCall' = "camera"
  /\ UNCHANGED <<camera, camPump, camCb, bridge, yielded, takeVars, plVars>>

(* The pump has been joined: the handle goes, and with it rec_tx.             *)
CameraFreed ==
  /\ inCall = "camera" /\ camPump \in {"none", "done"}
  /\ camera' = "closed" /\ bridge' = NoRecorder /\ inCall' = "none"
  /\ UNCHANGED <<camStop, camPump, camCb, yielded, takeVars, plVars>>

(* The pump: at most 50 ms after the stop flag it has left its loop.          *)
PumpPoll ==
  /\ camPump = "polling"
  /\ \/ /\ camStop /\ camPump' = "done" /\ UNCHANGED yielded
     \/ /\ ~camStop /\ yielded < MaxDeckFrames /\ yielded' = yielded + 1
        /\ camPump' = IF camCb THEN "callback" ELSE "bridge"
  /\ UNCHANGED <<camera, camStop, camCb, bridge, takeVars, plVars, inCall>>

CallbackReturns ==
  /\ camPump = "callback" /\ camPump' = "bridge"
  /\ UNCHANGED <<camera, camStop, camCb, bridge, yielded, takeVars, plVars, inCall>>

(* The frame goes to the recording task.  When that has ended its receiver is *)
(* gone, and the pump locks rec_tx, which it still holds, to clear it.        *)
PumpBridge ==
  /\ camPump = "bridge"
  /\ camPump' = IF bridge # NoRecorder /\ takeTask[bridge] = "ended" THEN "stuck" ELSE "polling"
  /\ UNCHANGED <<camera, camStop, camCb, bridge, yielded, takeVars, plVars, inCall>>

-----------------------------------------------------------------------------
(* Calls on a recorder, and its task.                                         *)

RecorderNew(r) ==
  /\ Free /\ recorder[r] = "none" /\ recorder' = [recorder EXCEPT ![r] = "ready"]
  /\ UNCHANGED <<camVars, takeTask, live, takeSignal, plVars, inCall>>

(* It waits for rec_tx, for ever once the pump is stuck with it.              *)
RecorderRecord(r) ==
  /\ Free /\ recorder[r] = "ready"
  /\ camera = "started" /\ ~camStop /\ camPump # "stuck"
  /\ recorder' = [recorder EXCEPT ![r] = "taken"] /\ bridge' = r
  /\ takeTask' = [takeTask EXCEPT ![r] = "spawned"] /\ takeSignal' = [takeSignal EXCEPT ![r] = TRUE]
  /\ UNCHANGED <<camera, camStop, camPump, camCb, yielded, live, plVars, inCall>>

RecorderStop(r) ==
  /\ Free /\ recorder[r] \in {"ready", "taken"} /\ takeSignal[r]
  /\ takeSignal' = [takeSignal EXCEPT ![r] = FALSE] /\ live' = [live EXCEPT ![r] = FALSE]
  /\ UNCHANGED <<camVars, recorder, takeTask, plVars, inCall>>

RecorderClose(r) ==
  /\ Free /\ recorder[r] \in {"ready", "taken"} /\ inCall' = r
  /\ UNCHANGED <<camVars, takeVars, plVars>>

(* Wrong variant: the handle goes without waiting for the recording task.     *)
RecorderFreedAtOnce(r) ==
  /\ inCall = r
  /\ recorder' = [recorder EXCEPT ![r] = "closed"] /\ inCall' = "none"
  /\ UNCHANGED <<camVars, takeTask, live, takeSignal, plVars>>

RecorderFreed(r) ==
  /\ inCall = r /\ takeTask[r] \in {"none", "ended"}
  /\ recorder' = [recorder EXCEPT ![r] = "closed"] /\ inCall' = "none"
  /\ UNCHANGED <<camVars, takeTask, live, takeSignal, plVars>>

(* Recorder::record sets its running flag first, then records until the flag  *)
(* is gone, the camera's sender is gone, or the encoder fails.                *)
TaskStep(r) ==
  /\ \/ /\ takeTask[r] = "spawned"
        /\ takeTask' = [takeTask EXCEPT ![r] = "running"] /\ live' = [live EXCEPT ![r] = TRUE]
     \/ /\ takeTask[r] = "running" /\ (~live[r] \/ bridge # r)
        /\ takeTask' = [takeTask EXCEPT ![r] = "ended"] /\ UNCHANGED live
  /\ UNCHANGED <<camVars, recorder, takeSignal, plVars, inCall>>

EncoderFails(r) ==
  /\ takeTask[r] = "running" /\ live[r]
  /\ takeTask' = [takeTask EXCEPT ![r] = "ended"] /\ live' = [live EXCEPT ![r] = FALSE]
  /\ UNCHANGED <<camVars, recorder, takeSignal, plVars, inCall>>

-----------------------------------------------------------------------------
(* Calls on a player, and its pump.                                           *)

PlayerOpen ==
  /\ Free /\ player = "none" /\ player' = "open"
  /\ UNCHANGED <<camVars, takeVars, plPump, undecoded, inCall>>

PlayerFramesCb ==
  /\ Free /\ player = "open"
  /\ player' = "taken" /\ plPump' = "decoding"
  /\ UNCHANGED <<camVars, takeVars, undecoded, inCall>>

PlayerClose ==
  /\ Free /\ player \in {"open", "taken"} /\ inCall' = "player"
  /\ UNCHANGED <<camVars, takeVars, plVars>>

PlayerFreed ==
  /\ inCall = "player" /\ plPump \in {"none", "done"}
  /\ player' = "closed" /\ inCall' = "none"
  /\ UNCHANGED <<camVars, takeVars, plPump, undecoded>>

(* The end of the file ends the pump; so does an error, which drops the rest. *)
DecodeNextFrame ==
  /\ plPump = "decoding"
  /\ \/ /\ undecoded > 0 /\ undecoded' = undecoded - 1 /\ plPump' = "callback"
     \/ /\ undecoded' = 0 /\ plPump' = "done"
  /\ UNCHANGED <<camVars, takeVars, player, inCall>>

PlayerCallbackReturns ==
  /\ plPump = "callback" /\ plPump' = "decoding"
  /\ UNCHANGED <<camVars, takeVars, player, undecoded, inCall>>

-----------------------------------------------------------------------------
CameraCalls == CameraOpen \/ CameraStart \/ CameraFramesCb \/ CameraStop \/ CameraClose
                \/ CameraFreed
CameraPump == PumpPoll \/ CallbackReturns \/ PumpBridge
RecorderCalls ==
  \E r \in Recorders : RecorderNew(r) \/ RecorderRecord(r) \/ RecorderStop(r) \/ RecorderClose(r)
                        \/ RecorderFreed(r)
RecordingTasks == \E r \in Recorders : TaskStep(r) \/ EncoderFails(r)
PlayerCalls == PlayerOpen \/ PlayerFramesCb \/ PlayerClose \/ PlayerFreed
PlayerPump == DecodeNextFrame \/ PlayerCallbackReturns

DeckNext == CameraCalls \/ CameraPump \/ RecorderCalls \/ RecordingTasks \/ PlayerCalls
             \/ PlayerPump

(* Threads run, callbacks return, and a close that has nothing to wait for    *)
(* returns; what the application calls is up to it.                           *)
DeckFairness ==
  /\ WF_deckVars(CameraPump) /\ WF_deckVars(PlayerPump)
  /\ \A r \in Recorders : WF_deckVars(TaskStep(r)) /\ WF_deckVars(RecorderFreed(r))
  /\ WF_deckVars(CameraFreed) /\ WF_deckVars(PlayerFreed)

DeckSpec == DeckInit /\ [][DeckNext]_deckVars /\ DeckFairness

-----------------------------------------------------------------------------
(* Once a close has returned, nothing of what the handle started goes on: no  *)
(* callback runs any more, whose user data the application now frees; the     *)
(* recording has been flushed; a player's pump has seen the end of the file.  *)
CloseIsFinal ==
  /\ camera = "closed" => camPump \in {"none", "done"} /\ bridge = NoRecorder
  /\ \A r \in Recorders : recorder[r] = "closed" => takeTask[r] \in {"none", "ended"}
  /\ player = "closed" => plPump \in {"none", "done"} /\ (plPump = "done" => undecoded = 0)

(* Closing a camera returns: its pump leaves at most 50 ms after the flags,   *)
(* and a bridge whose recording has ended is cleared by the pump.             *)
(* Does not hold: deliver_frame locks rec_tx twice after a recording ended.   *)
CameraCloseReturns == inCall = "camera" ~> inCall # "camera"
=============================================================================
