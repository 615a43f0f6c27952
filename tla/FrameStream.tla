---------------------------- MODULE FrameStream ----------------------------
(* mediaservo-link's frame bus, the subscribing side of one topic: the        *)
(* subscriber's buffer of one sample, the background thread that moves it     *)
(* into the stream's slot, and the tasks that wait in recv() on clones of it. *)
EXTENDS Naturals, Sequences

CONSTANTS
  Receivers,      \* tasks with a clone of the stream
  MaxSent,        \* bound: frames published
  MaxBroken       \* bound: connections lost

ASSUME StreamAssumption == MaxSent \in Nat /\ MaxBroken \in Nat

NoFrame == 0

VARIABLES
  sent,           \* frames published so far; the newest one's number
  sample,         \* the subscriber's buffer of one sample
  connection,     \* the subscriber: "ok", "stale", "broken"
  thread,         \* the background thread runs
  latest,         \* StreamInner.slot
  shutdown,       \* StreamInner.shutdown
  recv,           \* recv[r]: how far recv() is
  woken,          \* woken[r]: its Notified has been notified since it was enabled
  got,            \* got[r]: frames it has been given
  broken          \* counter for the bound

threadVars == <<sent, sample, connection, thread, broken>>
streamVars == <<threadVars, latest, shutdown, recv, woken, got>>

StreamTypeOK ==
  /\ sent \in 0 .. MaxSent /\ sample \in 0 .. sent /\ latest \in 0 .. sent
  /\ connection \in {"ok", "stale", "broken"} /\ thread \in BOOLEAN /\ shutdown \in BOOLEAN
  /\ recv \in [Receivers -> {"idle", "enabled", "empty", "waiting", "none"}]
  /\ woken \in [Receivers -> BOOLEAN] /\ broken \in 0 .. MaxBroken
  /\ got \in [Receivers -> Seq(1 .. MaxSent)]

StreamInit ==
  /\ sent = 0 /\ sample = NoFrame /\ connection = "ok" /\ thread = TRUE /\ broken = 0
  /\ latest = NoFrame /\ shutdown = FALSE
  /\ recv = [r \in Receivers |-> "idle"] /\ woken = [r \in Receivers |-> FALSE]
  /\ got = [r \in Receivers |-> <<>>]
----------------------------------------------------------------------------
(* iceoryx2: a sample replaces one not yet received; a publisher that starts  *)
(* again may not be connected to, or the subscriber may break.                *)
FramePublished ==
  /\ sent < MaxSent /\ sent' = sent + 1
  /\ sample' = IF connection = "ok" THEN sent' ELSE sample
  /\ UNCHANGED <<connection, thread, broken, latest, shutdown, recv, woken, got>>

ConnectionLost ==
  /\ broken < MaxBroken /\ broken' = broken + 1
  /\ connection = "ok" /\ connection' \in {"stale", "broken"}
  /\ sample' = NoFrame
  /\ UNCHANGED <<sent, thread, latest, shutdown, recv, woken, got>>
----------------------------------------------------------------------------
(* The background thread: a sample goes into the slot, over one not yet       *)
(* taken, and every recv() that has enabled its Notified is woken.            *)
WakeWaiting == woken' = [r \in Receivers |-> woken[r] \/ recv[r] = "waiting"]
WakeAll == woken' = [r \in Receivers |-> woken[r] \/ recv[r] \in {"enabled", "empty", "waiting"}]

DeliverLatest ==
  /\ thread /\ sample # NoFrame
  /\ latest' = sample /\ sample' = NoFrame
  /\ WakeAll
  /\ UNCHANGED <<sent, connection, thread, broken, shutdown, recv, got>>

(* After 5 s without a frame, or on an error, a new subscriber is made. On an *)
(* error that cannot be repaired the thread ends, and nobody is told.         *)
Rebuild ==
  /\ thread /\ connection # "ok"
  /\ connection' = "ok"
  /\ UNCHANGED <<sent, sample, thread, broken, latest, shutdown, recv, woken, got>>

RebuildFails ==
  /\ thread /\ connection = "broken"
  /\ thread' = FALSE
  /\ UNCHANGED <<sent, sample, connection, broken, latest, shutdown, recv, woken, got>>

(* The subscribing bus closes: recv() of all streams is to return None.       *)
Shutdown ==
  /\ ~shutdown /\ shutdown' = TRUE
  /\ WakeAll
  /\ UNCHANGED <<threadVars, latest, recv, got>>
----------------------------------------------------------------------------
(* recv(): enable the Notified, look into the slot, look at shutdown, await.  *)
RecvGoes(r, there) == recv' = [recv EXCEPT ![r] = there]

Enable(r) ==
  /\ recv[r] = "idle" \/ (recv[r] = "waiting" /\ woken[r])
  /\ RecvGoes(r, "enabled")
  /\ woken' = [woken EXCEPT ![r] = FALSE]
  /\ UNCHANGED <<threadVars, latest, shutdown, got>>

TakeFrame(r) ==
  /\ recv[r] = "enabled"
  /\ IF latest = NoFrame
       THEN RecvGoes(r, "empty") /\ UNCHANGED <<latest, got>>
       ELSE /\ RecvGoes(r, "idle")
            /\ latest' = NoFrame /\ got' = [got EXCEPT ![r] = Append(@, latest)]
  /\ UNCHANGED <<threadVars, shutdown, woken>>

LookShutdown(r) ==
  /\ recv[r] = "empty"
  /\ RecvGoes(r, IF shutdown THEN "none" ELSE "waiting")
  /\ UNCHANGED <<threadVars, latest, shutdown, woken, got>>

RecvStep(r) == Enable(r) \/ TakeFrame(r) \/ LookShutdown(r)
StreamStep == DeliverLatest \/ Rebuild \/ RebuildFails \/ Shutdown
StreamNext ==
  \/ \E r \in Receivers : RecvStep(r)
  \/ StreamStep \/ FramePublished \/ ConnectionLost
StreamSpec == StreamInit /\ [][StreamNext]_streamVars
----------------------------------------------------------------------------
(* Frames are skipped, never repeated or turned back, however many tasks      *)
(* share the stream.                                                          *)
Given(r, i) == r \in Receivers /\ i \in DOMAIN got[r]
NewestFirst == \A r, q \in Receivers, i, j \in 1 .. sent :
  Given(r, i) /\ Given(q, j) =>
    /\ (q = r /\ j > i) => got[q][j] > got[r][i]
    /\ q # r => got[q][j] # got[r][i]
    /\ latest # NoFrame => latest > got[r][i]

(* No wake-up is lost: whoever found the slot empty, and has not been notified*)
(* since, has no frame to take, and does not wait on a stream that was shut   *)
(* down (frame.rs: Notified is enabled before the slot is looked at).         *)
SleepersWoken == \A r \in Receivers : ~woken[r] =>
  /\ recv[r] \in {"empty", "waiting"} => latest = NoFrame
  /\ recv[r] = "waiting" => ~shutdown

(* In the end: a frame does not stay in the slot while somebody is in         *)
(* recv(), and after close() nobody stays there.                              *)
StreamWakes ==
  LET Inside == {r \in Receivers : recv[r] \notin {"idle", "none"}}
  IN  []<>(Inside # {} => latest = NoFrame /\ ~shutdown)
=============================================================================
