----------------------------- MODULE LinkClient -----------------------------
(* One user of mediaservo-link: SignalClient::connect with its retries, the   *)
(* session's background task, its events, its disconnect callback and close().*)
EXTENDS Naturals, Sequences

CONSTANTS
  Outgoing,       \* messages the user sends
  MaxRetries,     \* RetryConfig.max_retries
  MaxEvents       \* bound: messages the server sends

ASSUME LinkAssumption == MaxRetries \in Nat /\ MaxEvents \in Nat

VARIABLES
  gateway,        \* the client talks to a gateway: envelopes, no PSK challenge
  step,           \* how far connect_with_retry is
  attempt,        \* failed attempts so far
  task,           \* the session's task: "none", "running", "ended"
  why,            \* ghost: what ended it
  sendOpen,       \* send_tx is not dropped
  sending,        \* the send channel
  given, written, \* ghosts: what the user handed over, what the task wrote
  slot,           \* the callback slot: "none", "set", "taken"
  early,          \* ghost: the callback was registered while the task ran
  fired,          \* how often the callback ran
  subscribed,     \* the user has a receiver of the events
  heard,          \* ghost: the events that receiver was given
  spoken          \* messages of the server after the join, for the bound

connectVars == <<gateway, step, attempt>>
taskVars == <<task, why, sending, written>>
userVars == <<sendOpen, given, slot, early, fired, subscribed>>
linkVars == <<connectVars, taskVars, userVars, heard, spoken>>

LinkTypeOK ==
  /\ gateway \in BOOLEAN
  /\ step \in {"idle", "dial", "auth", "join", "sleep", "open", "failed"}
  /\ attempt \in 0 .. MaxRetries
  /\ task \in {"none", "running", "ended"} /\ (task = "none" <=> step # "open")
  /\ why \in {"none", "closed", "peer", "read", "write"} /\ (why # "none" <=> task = "ended")
  /\ sendOpen \in BOOLEAN /\ subscribed \in BOOLEAN /\ early \in BOOLEAN
  /\ sending \in Seq(Outgoing) /\ given \in Seq(Outgoing) /\ written \in Seq(Outgoing)
  /\ slot \in {"none", "set", "taken"} /\ fired \in Nat
  /\ heard \in Seq({"message", "bad", "disconnected", "error"})
  /\ spoken \in 0 .. MaxEvents

LinkInit ==
  /\ gateway \in BOOLEAN /\ step = "idle" /\ attempt = 0
  /\ task = "none" /\ why = "none"
  /\ sendOpen = FALSE /\ sending = <<>> /\ given = <<>> /\ written = <<>>
  /\ slot = "none" /\ early = FALSE /\ fired = 0
  /\ subscribed = FALSE /\ heard = <<>> /\ spoken = 0
----------------------------------------------------------------------------
(* connect(): dial, PSK challenge unless the other end is a gateway, join.    *)
ConnectWithRetry ==
  /\ step = "idle" /\ step' = "dial"
  /\ UNCHANGED <<gateway, attempt, taskVars, userVars, heard, spoken>>

Dialled ==
  /\ step = "dial"
  /\ step' = IF gateway THEN "join" ELSE "auth"
  /\ UNCHANGED <<gateway, attempt, taskVars, userVars, heard, spoken>>

AuthAccepted ==
  /\ step = "auth"
  /\ step' = "join"
  /\ UNCHANGED <<gateway, attempt, taskVars, userVars, heard, spoken>>

Joined ==
  /\ step = "join"
  /\ step' = "open" /\ task' = "running" /\ sendOpen' = TRUE
  /\ UNCHANGED <<gateway, attempt, why, sending, written, given, slot, early, fired,
                 subscribed, heard, spoken>>

(* Any failure on the way ends the attempt; the next one starts from the dial.*)
AttemptFails ==
  /\ step \in {"dial", "auth", "join"}
  /\ step' = IF attempt < MaxRetries THEN "sleep" ELSE "failed"
  /\ UNCHANGED <<gateway, attempt, taskVars, userVars, heard, spoken>>

Retry ==
  /\ step = "sleep"
  /\ step' = "dial" /\ attempt' = attempt + 1
  /\ UNCHANGED <<gateway, taskVars, userVars, heard, spoken>>
----------------------------------------------------------------------------
(* The session's task. A broadcast event reaches a receiver that exists.      *)
Emitted(e) == heard' = IF subscribed THEN Append(heard, e) ELSE heard
Running == task = "running"

(* A message, or a text that is none; the session goes on either way.         *)
ReadText == \E e \in {"message", "bad"} :
  /\ Running /\ spoken < MaxEvents
  /\ spoken' = spoken + 1
  /\ Emitted(e)
  /\ UNCHANGED <<connectVars, taskVars, userVars>>

FireDisconnect ==
  IF slot = "set" THEN slot' = "taken" /\ fired' = fired + 1 ELSE UNCHANGED <<slot, fired>>

PeerCloses ==
  /\ Running
  /\ task' = "ended" /\ why' = "peer"
  /\ Emitted("disconnected") /\ FireDisconnect
  /\ UNCHANGED <<connectVars, sending, written, sendOpen, given, early, subscribed, spoken>>

ReadFails ==
  /\ Running
  /\ task' = "ended" /\ why' = "read"
  /\ Emitted("error") /\ FireDisconnect
  /\ UNCHANGED <<connectVars, sending, written, sendOpen, given, early, subscribed, spoken>>

WriteMessage ==
  /\ Running /\ sending # <<>>
  /\ sending' = Tail(sending) /\ written' = Append(written, Head(sending))
  /\ UNCHANGED <<connectVars, task, why, userVars, heard, spoken>>

(* A failed write fires the callback, and no event says so.                   *)
WriteRefused ==
  /\ Running /\ sending # <<>>
  /\ sending' = Tail(sending)
  /\ task' = "ended" /\ why' = "write"
  /\ FireDisconnect
  /\ UNCHANGED <<connectVars, written, sendOpen, given, early, subscribed, heard, spoken>>

(* Wrong variant: what is still in the channel is cut off.                   *)
SendClosedAtOnce ==
  /\ Running /\ ~sendOpen
  /\ task' = "ended" /\ why' = "closed"
  /\ UNCHANGED <<connectVars, sending, written, userVars, heard, spoken>>

(* The channel is drained before its closing is seen.                         *)
SendClosed ==
  /\ Running /\ ~sendOpen /\ sending = <<>>
  /\ task' = "ended" /\ why' = "closed"
  /\ UNCHANGED <<connectVars, sending, written, userVars, heard, spoken>>
----------------------------------------------------------------------------
(* The user.                                                                  *)
Subscribe ==
  /\ step = "open" /\ sendOpen /\ ~subscribed
  /\ subscribed' = TRUE
  /\ UNCHANGED <<connectVars, taskVars, sendOpen, given, slot, early, fired, heard, spoken>>

OnDisconnect ==
  /\ step = "open" /\ sendOpen /\ slot = "none"
  /\ slot' = "set" /\ early' = Running
  /\ UNCHANGED <<connectVars, taskVars, sendOpen, given, fired, subscribed, heard, spoken>>

(* send() fails once the task, and with it the receiving end, is gone.        *)
Send == \E m \in Outgoing :
  /\ sendOpen /\ Running
  /\ \A i \in DOMAIN given : given[i] # m
  /\ sending' = Append(sending, m) /\ given' = Append(given, m)
  /\ UNCHANGED <<connectVars, task, why, written, sendOpen, slot, early, fired, subscribed,
                 heard, spoken>>

Close ==
  /\ step = "open" /\ sendOpen
  /\ sendOpen' = FALSE
  /\ UNCHANGED <<connectVars, taskVars, given, slot, early, fired, subscribed, heard, spoken>>

Connecting == ConnectWithRetry \/ Dialled \/ AuthAccepted \/ Joined \/ AttemptFails \/ Retry
Session == ReadText \/ PeerCloses \/ ReadFails \/ WriteMessage \/ WriteRefused \/ SendClosed
LinkUser == Subscribe \/ OnDisconnect \/ Send \/ Close
LinkNext == Connecting \/ Session \/ LinkUser
LinkSpec == LinkInit /\ [][LinkNext]_linkVars
----------------------------------------------------------------------------
(* close() does not cut off what was sent before it: a session ended by its   *)
(* user has written everything, in order, and has not called the callback. A  *)
(* session that ended otherwise has called a callback registered in time      *)
(* exactly once, whichever of the three ways it ended.                        *)
EndsAsPromised ==
  /\ why = "closed" => written = given /\ fired = 0
  /\ task = "ended" /\ why # "closed" /\ early => fired = 1
  /\ fired <= 1
  /\ written \o sending # given => why = "write"
=============================================================================
