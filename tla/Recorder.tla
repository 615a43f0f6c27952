------------------------------ MODULE Recorder ------------------------------
(* host-recorder and the Recorder of mediaservo-deck: main() creates one      *)
(* recording per camera, a signal stops them all. In each recording a task    *)
(* pumps frames into a channel and a blocking thread encodes and muxes them;  *)
(* both look at one `running` flag.                                           *)
EXTENDS Naturals, Sequences, SequencesExt

CONSTANTS
  Cameras,        \* the cameras of host.toml
  MaxFrames       \* bound: frames a camera delivers

ASSUME RecorderAssumption == MaxFrames \in Nat

VARIABLES
  recMain,        \* main(): "create", "ready", "finish", "drop", "exited", "killed"
  recTask,        \* recTask[c]: the task of record()
  recRunning,     \* recRunning[c]: the shared flag
  recStopped,     \* ghost: recStopped[c]: stop() was called
  recWorker,      \* recWorker[c]: the thread of mux_worker
  recQueue,       \* recQueue[c]: the unbounded channel between them
  recTaken,       \* ghost: recTaken[c]: frames the pump put into it
  recFile,        \* recFile[c]: frames in the file
  recDry          \* ghost: recDry[c]: the frame source ended

recVars == <<recMain, recTask, recRunning, recStopped, recWorker, recQueue, recTaken, recFile,
             recDry>>
pumpVars == <<recMain, recRunning, recStopped, recWorker, recFile>>
workerVars == <<recMain, recTask, recRunning, recStopped, recTaken, recDry>>

Created == {c \in Cameras : recTask[c] # "none"}
TaskEnded(c) == recTask[c] \in {"done", "dropped"}
WorkerEnded(c) == recWorker[c] \in {"none", "closed", "failed"}
ChannelClosed(c) == recTask[c] \in {"join", "done", "dropped"}

RecorderTypeOK ==
  /\ recMain \in {"create", "ready", "finish", "drop", "exited", "killed"}
  /\ recTask \in [Cameras -> {"none", "spawned", "check", "poll", "join", "done", "dropped"}]
  /\ recRunning \in [Cameras -> BOOLEAN] /\ recStopped \in [Cameras -> BOOLEAN]
  /\ recDry \in [Cameras -> BOOLEAN]
  /\ recWorker \in [Cameras -> {"none", "first", "top", "next", "flush", "closed", "failed"}]
  /\ \A c \in Cameras : /\ recTaken[c] \in Seq(1 .. MaxFrames)
                        /\ recTask[c] = "done" => WorkerEnded(c)

RecorderInit ==
  /\ recMain = "create"
  /\ recTask = [c \in Cameras |-> "none"] /\ recWorker = [c \in Cameras |-> "none"]
  /\ recRunning = [c \in Cameras |-> FALSE] /\ recStopped = [c \in Cameras |-> FALSE]
  /\ recDry = [c \in Cameras |-> FALSE]
  /\ recQueue = [c \in Cameras |-> <<>>] /\ recTaken = [c \in Cameras |-> <<>>]
  /\ recFile = [c \in Cameras |-> <<>>]
----------------------------------------------------------------------------
(* main(). A camera that cannot be subscribed to, or whose recorder cannot be *)
(* made, stops the recordings there are and ends the process.                 *)
SpawnRecording == \E c \in Cameras :
  /\ recMain = "create" /\ recTask[c] = "none"
  /\ recTask' = [recTask EXCEPT ![c] = "spawned"]
  /\ UNCHANGED <<pumpVars, recQueue, recTaken, recDry>>

AllCreated ==
  /\ recMain = "create" /\ Created = Cameras
  /\ recMain' = "ready"
  /\ UNCHANGED <<recTask, recRunning, recStopped, recWorker, recQueue, recTaken, recFile, recDry>>

StopAll ==
  /\ recMain' = "finish"
  /\ recRunning' = [c \in Cameras |-> IF c \in Created THEN FALSE ELSE recRunning[c]]
  /\ recStopped' = [c \in Cameras |-> c \in Created \/ recStopped[c]]
  /\ UNCHANGED <<recTask, recWorker, recQueue, recTaken, recFile, recDry>>

CreationFails == recMain = "create" /\ Created # Cameras /\ StopAll
Sigterm == recMain = "ready" /\ StopAll

(* The handler is installed by the wait itself: a signal before that kills.   *)
SigtermEarly ==
  /\ recMain = "create" /\ recMain' = "killed"
  /\ UNCHANGED <<recTask, recRunning, recStopped, recWorker, recQueue, recTaken, recFile, recDry>>

AllFinished ==
  /\ recMain = "finish" /\ \A c \in Created : recTask[c] = "done"
  /\ recMain' = "exited"
  /\ UNCHANGED <<recTask, recRunning, recStopped, recWorker, recQueue, recTaken, recFile, recDry>>

(* After 30 s main() returns all the same. The runtime drops the tasks at     *)
(* their next await and waits for the threads.                                *)
FinishTimeout ==
  /\ recMain = "finish" /\ \E c \in Created : recTask[c] # "done"
  /\ recMain' = "drop"
  /\ UNCHANGED <<recTask, recRunning, recStopped, recWorker, recQueue, recTaken, recFile, recDry>>

DropTask(c) ==
  /\ recMain = "drop" /\ recTask[c] \in {"spawned", "check", "poll", "join"}
  /\ recTask' = [recTask EXCEPT ![c] = "dropped"]
  /\ UNCHANGED <<pumpVars, recQueue, recTaken, recDry>>

RuntimeDown ==
  /\ recMain = "drop" /\ \A c \in Created : TaskEnded(c) /\ WorkerEnded(c)
  /\ recMain' = "exited"
  /\ UNCHANGED <<recTask, recRunning, recStopped, recWorker, recQueue, recTaken, recFile, recDry>>
----------------------------------------------------------------------------
(* record(): set the flag, start the thread, pump until the flag is cleared,  *)
(* the source ends or the thread is gone; then wait for the thread.           *)
PumpAt(c, here) == recMain \notin {"drop", "exited", "killed"} /\ recTask[c] = here
PumpGoes(c, there) == recTask' = [recTask EXCEPT ![c] = there]

BeginRecord(c) ==
  /\ PumpAt(c, "spawned") /\ PumpGoes(c, "check")
  /\ recRunning' = [recRunning EXCEPT ![c] = TRUE]
  /\ recWorker' = [recWorker EXCEPT ![c] = "first"]
  /\ UNCHANGED <<recMain, recStopped, recQueue, recTaken, recFile, recDry>>

(* Wrong variant: the flag is not looked at.                                 *)
CheckUnstoppable(c) ==
  /\ PumpAt(c, "check") /\ PumpGoes(c, "poll")
  /\ UNCHANGED <<pumpVars, recQueue, recTaken, recDry>>

CheckRunning(c) ==
  /\ PumpAt(c, "check") /\ PumpGoes(c, IF recRunning[c] THEN "poll" ELSE "join")
  /\ UNCHANGED <<pumpVars, recQueue, recTaken, recDry>>

PollFrame(c) ==
  /\ PumpAt(c, "poll") /\ Len(recTaken[c]) < MaxFrames
  /\ IF WorkerEnded(c)
       THEN PumpGoes(c, "join") /\ UNCHANGED <<recQueue, recTaken>>
       ELSE /\ PumpGoes(c, "check")
            /\ recTaken' = [recTaken EXCEPT ![c] = Append(@, Len(@) + 1)]
            /\ recQueue' = [recQueue EXCEPT ![c] = Append(@, Len(recTaken[c]) + 1)]
  /\ UNCHANGED <<pumpVars, recDry>>

PollTick(c) ==
  /\ PumpAt(c, "poll") /\ PumpGoes(c, "check")
  /\ UNCHANGED <<pumpVars, recQueue, recTaken, recDry>>

SourceEnds(c) ==
  /\ PumpAt(c, "poll") /\ PumpGoes(c, "join")
  /\ recDry' = [recDry EXCEPT ![c] = TRUE]
  /\ UNCHANGED <<pumpVars, recQueue, recTaken>>

(* record() returns Ok whatever became of the thread.                         *)
JoinWorker(c) ==
  /\ PumpAt(c, "join") /\ WorkerEnded(c) /\ PumpGoes(c, "done")
  /\ recRunning' = [recRunning EXCEPT ![c] = FALSE]
  /\ UNCHANGED <<recMain, recStopped, recWorker, recFile, recQueue, recTaken, recDry>>
----------------------------------------------------------------------------
(* mux_worker: the first frame opens the encoder and the file; each later one *)
(* is taken as long as the flag is up; then flush and trailer.                *)
WorkerAt(c, here) == recMain \notin {"exited", "killed"} /\ recWorker[c] = here
WorkerGoes(c, there) == recWorker' = [recWorker EXCEPT ![c] = there]

MuxFrame(c) == \E here \in {"first", "next"} :
  /\ WorkerAt(c, here) /\ recQueue[c] # <<>>
  /\ WorkerGoes(c, "top")
  /\ recQueue' = [recQueue EXCEPT ![c] = Tail(@)]
  /\ recFile' = [recFile EXCEPT ![c] = Append(@, Head(recQueue[c]))]
  /\ UNCHANGED workerVars

LoopTop(c) ==
  /\ WorkerAt(c, "top") /\ WorkerGoes(c, IF recRunning[c] THEN "next" ELSE "flush")
  /\ UNCHANGED <<workerVars, recQueue, recFile>>

(* No frame, and none to come: before the first one there is no file at all.  *)
NoMoreFrames(c) == \E here \in {"first", "next"} :
  /\ WorkerAt(c, here) /\ recQueue[c] = <<>>
  /\ ~recRunning[c] \/ ChannelClosed(c)
  /\ WorkerGoes(c, IF here = "first" THEN "failed" ELSE "flush")
  /\ UNCHANGED <<workerVars, recQueue, recFile>>

WriteTrailer(c) ==
  /\ WorkerAt(c, "flush") /\ WorkerGoes(c, "closed")
  /\ UNCHANGED <<workerVars, recQueue, recFile>>

(* Opening, encoding or writing fails: the file is left without a trailer.    *)
MuxFails(c) ==
  /\ recMain \notin {"exited", "killed"} /\ recWorker[c] \in {"first", "next", "flush"}
  /\ WorkerGoes(c, "failed")
  /\ UNCHANGED <<workerVars, recQueue, recFile>>

PumpStep(c) ==
  \/ BeginRecord(c) \/ CheckRunning(c) \/ PollFrame(c) \/ PollTick(c) \/ JoinWorker(c)
  \/ DropTask(c)
WorkerStep(c) == MuxFrame(c) \/ LoopTop(c) \/ NoMoreFrames(c) \/ WriteTrailer(c)
RecorderMain ==
  \/ SpawnRecording \/ AllCreated \/ CreationFails \/ Sigterm \/ SigtermEarly
  \/ AllFinished \/ FinishTimeout \/ RuntimeDown

RecorderNext ==
  \/ RecorderMain
  \/ \E c \in Cameras : PumpStep(c) \/ WorkerStep(c) \/ SourceEnds(c) \/ MuxFails(c)
RecorderSpec == RecorderInit /\ [][RecorderNext]_recVars
----------------------------------------------------------------------------
(* The file holds the frames in the order they came, from the first on; and   *)
(* when the source ended the recording, without stop() or an error, all of    *)
(* them: the frames still in the channel are not cut off.                     *)
FileKeepsFrames == \A c \in Cameras :
  /\ IsPrefix(recFile[c], recTaken[c])
  /\ recDry[c] /\ ~recStopped[c] /\ recTask[c] = "done" /\ recWorker[c] = "closed"
       => recFile[c] = recTaken[c]

(* main() returns, finishing in time or not, only when each recording's task  *)
(* has ended and its thread has closed its file or failed: the process never  *)
(* takes a file that is being written down with it.                           *)
ExitsWhenWritten == recMain = "exited" => \A c \in Created : TaskEnded(c) /\ WorkerEnded(c)

(* A recording under way whose flag is cleared ends, with its thread: when    *)
(* main() waits for it, and also when its task is dropped.                    *)
Begun(c) == recTask[c] \notin {"none", "spawned"} /\ recMain # "killed"
StopEndsRecording == \A c \in Cameras :
  []<>(Begun(c) /\ ~recRunning[c] => TaskEnded(c) /\ WorkerEnded(c))

(* Once stop() was called the recording stays stopped (record.rs, stop():     *)
(* the flag is cleared and the worker leaves at its next tick).               *)
(* Does not hold: the task sets the flag once more if stop came first.        *)
StopIsHeeded == \A c \in Cameras : recStopped[c] => ~recRunning[c]
=============================================================================
