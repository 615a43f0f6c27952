----------------------------- MODULE BusHandles -----------------------------
(* The C interface to the frame bus (mediaservo-link-c): a bus handle, the    *)
(* stream handles subscribed from it, and a thread per stream that calls      *)
(* recv, while other threads subscribe and close.  No call begins on a handle *)
(* that has been closed: the contract of the interface asks for that.         *)
EXTENDS Naturals

CONSTANT Readers                \* streams, each with the thread that reads it

VARIABLES
  busHandle,      \* "none", "open", "closed" (the flag is set), "taken" (the
                  \* bus has left the handle), "freed"
  subscribing,    \* the subscription under way, which holds the handle's lock
  busStreams,     \* FrameBus.streams
  stHandle,       \* of a reader's stream handle: "none", "open", "freed"
  stDown,         \* streams that were shut down
  stFrame,        \* streams with a frame in their slot
  reader          \* "out" or "in" recv

busVars == <<busHandle, subscribing, busStreams, stHandle, stDown, stFrame, reader>>

BusTypeOK ==
  /\ busHandle \in {"none", "open", "closed", "taken", "freed"}
  /\ subscribing \subseteq Readers /\ stDown \subseteq busStreams /\ busStreams \subseteq Readers
  /\ stHandle \in [Readers -> {"none", "open", "freed"}] /\ stFrame \subseteq Readers
  /\ \A r \in Readers : reader[r] = "in" => stHandle[r] # "none"

BusInit ==
  /\ busHandle = "none" /\ subscribing = {} /\ busStreams = {}
  /\ stHandle = [r \in Readers |-> "none"] /\ stDown = {} /\ stFrame = {}
  /\ reader = [r \in Readers |-> "out"]

BusAttach ==
  /\ busHandle = "none" /\ busHandle' = "open"
  /\ UNCHANGED <<subscribing, busStreams, stHandle, stDown, stFrame, reader>>

(* A frame, published on this bus or by another process, is put into the slot *)
(* of a stream, over one that nobody has taken; a stream that was shut down   *)
(* is still given them.                                                       *)
BusPublish(r) ==
  /\ r \in busStreams \cup subscribing /\ stFrame' = stFrame \cup {r}
  /\ UNCHANGED <<busHandle, subscribing, busStreams, stHandle, stDown, reader>>

(* A call that found the flag down goes through until the bus is taken.       *)
BusSubscribe(r) ==
  /\ busHandle \in {"open", "closed"} /\ subscribing = {} /\ stHandle[r] = "none"
  /\ subscribing' = {r}
  /\ UNCHANGED <<busHandle, busStreams, stHandle, stDown, stFrame, reader>>

(* It enters the stream into the list, then hands it out and lets go.         *)
BusSubscribed(r) ==
  /\ r \in subscribing /\ subscribing' = {}
  /\ busStreams' = busStreams \cup {r} /\ stHandle' = [stHandle EXCEPT ![r] = "open"]
  /\ UNCHANGED <<busHandle, stDown, stFrame, reader>>

RecvEnter(r) ==
  /\ stHandle[r] = "open" /\ reader[r] = "out" /\ reader' = [reader EXCEPT ![r] = "in"]
  /\ UNCHANGED <<busHandle, subscribing, busStreams, stHandle, stDown, stFrame>>

RecvReturns(r) ==
  /\ reader[r] = "in" /\ stHandle[r] = "open" /\ reader' = [reader EXCEPT ![r] = "out"]
  /\ r \in stFrame \cup stDown /\ stFrame' = stFrame \ {r}
  /\ UNCHANGED <<busHandle, subscribing, busStreams, stHandle, stDown>>

(* stream_close frees the handle, with a recv inside it too.                  *)
StreamClose(r) ==
  /\ stHandle[r] = "open" /\ stHandle' = [stHandle EXCEPT ![r] = "freed"]
  /\ UNCHANGED <<busHandle, subscribing, busStreams, stDown, stFrame, reader>>

(* A recv whose handle is gone: what it does is undefined, and it may return. *)
RecvOnFreed(r) ==
  /\ reader[r] = "in" /\ stHandle[r] = "freed" /\ reader' = [reader EXCEPT ![r] = "out"]
  /\ UNCHANGED <<busHandle, subscribing, busStreams, stHandle, stDown, stFrame>>

BusClose ==
  /\ busHandle = "open" /\ busHandle' = "closed"
  /\ UNCHANGED <<subscribing, busStreams, stHandle, stDown, stFrame, reader>>

(* Under the lock, so not while a subscription is under way.                  *)
BusTaken ==
  /\ busHandle = "closed" /\ subscribing = {} /\ busHandle' = "taken"
  /\ UNCHANGED <<subscribing, busStreams, stHandle, stDown, stFrame, reader>>

StreamDown(r) ==
  /\ busHandle = "taken" /\ r \in busStreams \ stDown /\ stDown' = stDown \cup {r}
  /\ UNCHANGED <<busHandle, subscribing, busStreams, stHandle, stFrame, reader>>

(* The loop has been through the list.                                        *)
BusFreed ==
  /\ busHandle = "taken" /\ busStreams \subseteq stDown /\ busHandle' = "freed"
  /\ UNCHANGED <<subscribing, busStreams, stHandle, stDown, stFrame, reader>>

BusCloses == BusTaken \/ BusFreed \/ \E r \in Readers : StreamDown(r)

BusNext ==
  \/ BusAttach \/ BusClose \/ BusCloses
  \/ \E r \in Readers : BusPublish(r) \/ BusSubscribe(r) \/ BusSubscribed(r)
  \/ \E r \in Readers : RecvEnter(r) \/ RecvReturns(r) \/ RecvOnFreed(r) \/ StreamClose(r)

-----------------------------------------------------------------------------
(* When bus_close has returned, a reader inside recv of any stream of the bus *)
(* has been told: also of a stream whose subscription was under way when the  *)
(* bus was closed.                                                            *)
ReadersReleased == \A r \in Readers : busHandle = "freed" /\ reader[r] = "in" => r \in stDown

(* A thread blocked in recv comes back once the bus is being closed, unless   *)
(* its stream was closed while it was inside.                                 *)
RecvEndsWithBus ==
  \A r \in Readers :
    []<>(busHandle \in {"closed", "taken", "freed"} => reader[r] = "out" \/ stHandle[r] = "freed")

(* stream_close lets a blocked recv go, says its comment.  It does not hold:  *)
(* the handle is freed while recv is at work on it, and nothing says that it  *)
(* still hears the notification.                                              *)
StreamCloseWakes == \A r \in Readers : []<>(stHandle[r] = "freed" => reader[r] = "out")
=============================================================================
