---------------------------- MODULE LinkHandles ----------------------------
(* The C interface to a signalling session (mediaservo-link-c): the pump      *)
(* thread that the first registration starts makes up a "connected" event and *)
(* then hands the session's events to the callback registered at the time;    *)
(* close ends the session, waits for the pump and frees the handle.  One      *)
(* thread of the application owns the handle and closes it once.              *)
EXTENDS Naturals, Sequences

CONSTANTS
  MaxHeard,       \* bound: events the session posts
  EventsBuffered  \* events the session's channel keeps for a slow receiver

ASSUME LinkHandleAssumption == MaxHeard \in Nat /\ EventsBuffered \in Nat \ {0}

VARIABLES
  sigState,       \* the handle: "none", "open", "closing", "freed"
  sigEnded,       \* the session's event sender is gone
  sigCb,          \* a callback is registered
  sigPump,        \* the pump: "none", "greet", "loop", "call", "done"
  sigHeld,        \* the event the pump delivers; 0 is the made-up "connected"
  sigInbox,       \* events in the receiver that connect() subscribed
  sigPosted,      \* events the session has posted
  sigHeard,       \* events the callback was given
  sigOpened,      \* there has been a callback ever since the first registration
  sigCallback     \* the callback is running

sigVars == <<sigState, sigEnded, sigCb, sigPump, sigHeld, sigInbox, sigPosted, sigHeard,
             sigOpened, sigCallback>>

SigTypeOK ==
  /\ sigState \in {"none", "open", "closing", "freed"}
  /\ sigPump \in {"none", "greet", "loop", "call", "done"}
  /\ sigEnded \in BOOLEAN /\ sigCb \in BOOLEAN /\ sigOpened \in BOOLEAN
  /\ sigCallback => sigPump \in {"greet", "call"}
  /\ Len(sigInbox) <= EventsBuffered /\ sigPosted <= MaxHeard

SigInit ==
  /\ sigState = "none" /\ sigEnded = FALSE /\ sigCb = FALSE /\ sigPump = "none"
  /\ sigHeld = 0 /\ sigInbox = <<>> /\ sigPosted = 0 /\ sigHeard = <<>>
  /\ sigOpened = FALSE /\ sigCallback = FALSE

-----------------------------------------------------------------------------
(* A connection that fails leaves no handle.                                  *)
SigConnect ==
  /\ sigState = "none" /\ sigState' = "open"
  /\ UNCHANGED <<sigEnded, sigCb, sigPump, sigHeld, sigInbox, sigPosted, sigHeard,
                 sigOpened, sigCallback>>

(* The session posts an event; a receiver that is behind loses its oldest.    *)
SessionPosts ==
  /\ sigState \in {"open", "closing"} /\ ~sigEnded /\ sigPosted < MaxHeard
  /\ sigPosted' = sigPosted + 1
  /\ LET all == Append(sigInbox, sigPosted')
     IN sigInbox' = IF Len(all) > EventsBuffered THEN Tail(all) ELSE all
  /\ UNCHANGED <<sigState, sigEnded, sigCb, sigPump, sigHeld, sigHeard, sigOpened, sigCallback>>

(* The session ends of itself; its sender goes with its task.                 *)
SessionEnds ==
  /\ sigState = "open" /\ ~sigEnded /\ sigEnded' = TRUE
  /\ UNCHANGED <<sigState, sigCb, sigPump, sigHeld, sigInbox, sigPosted, sigHeard,
                 sigOpened, sigCallback>>

(* A NULL callback takes the registration back, and starts the pump as well.  *)
OnEvent(given) ==
  /\ sigState = "open" /\ sigCb' = given
  /\ sigOpened' = (given /\ (sigPump = "none" \/ sigOpened))
  /\ IF sigPump = "none" THEN sigPump' = "greet" /\ sigHeld' = 0
     ELSE UNCHANGED <<sigPump, sigHeld>>
  /\ UNCHANGED <<sigState, sigEnded, sigInbox, sigPosted, sigHeard, sigCallback>>

(* close: the flag, then the session; the receiver then finds it closed.      *)
SigClose ==
  /\ sigState = "open" /\ sigState' = "closing" /\ sigEnded' = TRUE
  /\ UNCHANGED <<sigCb, sigPump, sigHeld, sigInbox, sigPosted, sigHeard, sigOpened, sigCallback>>

SigFreed ==
  /\ sigState = "closing" /\ sigPump \in {"none", "done"} /\ sigState' = "freed"
  /\ UNCHANGED <<sigEnded, sigCb, sigPump, sigHeld, sigInbox, sigPosted, sigHeard,
                 sigOpened, sigCallback>>

-----------------------------------------------------------------------------
(* The pump.  deliver_event copies the registration and lets the lock go: a   *)
(* callback replaced meanwhile is still the one that is called.               *)

SigDeliver ==
  /\ sigPump \in {"greet", "call"} /\ ~sigCallback
  /\ IF sigCb THEN sigCallback' = TRUE /\ sigHeard' = Append(sigHeard, sigHeld) /\ UNCHANGED sigPump
     ELSE sigPump' = "loop" /\ UNCHANGED <<sigCallback, sigHeard>>
  /\ UNCHANGED <<sigState, sigEnded, sigCb, sigHeld, sigInbox, sigPosted, sigOpened>>

UserReturns ==
  /\ sigCallback /\ sigCallback' = FALSE /\ sigPump' = "loop"
  /\ UNCHANGED <<sigState, sigEnded, sigCb, sigHeld, sigInbox, sigPosted, sigHeard, sigOpened>>

(* The closed flag is looked at before each event, so what is queued at close *)
(* may be lost; a closed channel still yields what it holds.                  *)
TakeEvent ==
  /\ sigPump = "loop"
  /\ IF sigState # "open" \/ (sigInbox = <<>> /\ sigEnded)
     THEN sigPump' = "done" /\ UNCHANGED <<sigHeld, sigInbox>>
     ELSE /\ sigInbox # <<>>
          /\ sigHeld' = Head(sigInbox) /\ sigInbox' = Tail(sigInbox) /\ sigPump' = "call"
  /\ UNCHANGED <<sigState, sigEnded, sigCb, sigPosted, sigHeard, sigOpened, sigCallback>>

-----------------------------------------------------------------------------
SigCalls == SigConnect \/ (\E given \in BOOLEAN : OnEvent(given)) \/ SigClose \/ SigFreed
SigSession == SessionPosts \/ SessionEnds
SigPumpStep == SigDeliver \/ UserReturns \/ TakeEvent
SigNext == SigCalls \/ SigSession \/ SigPumpStep

SigSpec == SigInit /\ [][SigNext]_sigVars /\ WF_sigVars(SigPumpStep) /\ WF_sigVars(SigFreed)

-----------------------------------------------------------------------------
(* The pump thread uses the handle through a raw pointer: it has ended before *)
(* the handle is freed, and no callback runs after close has returned.        *)
PumpEndsFirst == sigState = "freed" => sigPump \in {"none", "done"} /\ ~sigCallback

(* The callback hears the session's events in the order they were posted,     *)
(* each at most once, and "connected" before them all if it was there at once *)
(* and has stayed.                                                            *)
HeardInOrder ==
  /\ \A i, j \in DOMAIN sigHeard : i < j => sigHeard[i] < sigHeard[j]
  /\ sigOpened /\ sigHeard # <<>> => sigHeard[1] = 0
=============================================================================
