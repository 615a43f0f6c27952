----------------------------- MODULE ServerLife -----------------------------
(* The server process: it checks its files and starts, takes connections,     *)
(* lets each through authentication and RoomJoin into its message loop, and   *)
(* after ctrl-C drains them, for as long as a deadline allows. What sessions  *)
(* do to rooms is SignalingServer's; here only whether they are there.        *)
EXTENDS Naturals, FiniteSets

CONSTANTS
  Conns,          \* connections to the server
  Tokens          \* what a connection carries: subset of TokenKinds

TokenKinds == {"none", "account", "plain", "oddRole", "invalid"}
ASSUME LifeAssumption == Tokens \subseteq TokenKinds

VARIABLES
  listener,       \* "plain" (axum) or "tls" (axum_server)
  psk, jwt,       \* MEDIASERVO_PSK and jwt_secret are set
  proc,           \* the process: "starting", "refused", "serving", "draining",
                  \* "ending" (no more connections), "exited"
  stop,           \* the shutdown watch
  timeUp,         \* the 30 s of the drain are over
  sess,           \* sess[c]: where its handler is
  there           \* ghost: sessions whose handler ran when ctrl-C came

lifeVars == <<listener, psk, jwt, proc, stop, timeUp, sess, there>>
procVars == <<listener, psk, jwt, proc, stop, timeUp, there>>

SessStates == {"away", "upgrading", "psk", "room", "relay", "leaving", "closed"}

(* active_connections: from the start of the handler to its very end.         *)
CountedInRoom == {c \in Conns : sess[c] \in {"room", "relay"}}

Counted == {c \in Conns : sess[c] \in {"psk", "room", "relay", "leaving"}}

LifeTypeOK ==
  /\ listener \in {"plain", "tls"} /\ psk \in BOOLEAN /\ jwt \in BOOLEAN
  /\ proc \in {"starting", "refused", "serving", "draining", "ending", "exited"}
  /\ stop = (proc \in {"draining", "ending", "exited"})
  /\ timeUp \in BOOLEAN /\ there \subseteq Conns
  /\ sess \in [Conns -> SessStates]

LifeInit ==
  /\ listener \in {"plain", "tls"} /\ psk \in BOOLEAN /\ jwt \in BOOLEAN
  /\ proc = "starting" /\ stop = FALSE /\ timeUp = FALSE
  /\ sess = [c \in Conns |-> "away"] /\ there = {}
----------------------------------------------------------------------------
(* run_server: a damaged account file, development accounts or two different  *)
(* secrets refuse the start, as do a worker or a port that is not to be had;  *)
(* a damaged device file or configuration is replaced by an empty one.        *)
StartServer ==
  /\ proc = "starting" /\ proc' \in {"serving", "refused"}
  /\ UNCHANGED <<listener, psk, jwt, stop, timeUp, sess, there>>

(* The plain listener takes connections until the drain is over, the TLS one  *)
(* until ctrl-C.                                                              *)
AcceptConn(c) ==
  /\ sess[c] = "away"
  /\ proc = "serving" \/ (proc = "draining" /\ listener = "plain")
  /\ sess' = [sess EXCEPT ![c] = "upgrading"]
  /\ UNCHANGED procVars

At(c, here) == proc # "exited" /\ sess[c] = here
Goes(c, there1) == sess' = [sess EXCEPT ![c] = there1] /\ UNCHANGED procVars

(* The handler begins: a token comes first. A role nobody knows is refused,   *)
(* a token that does not verify leaves the PSK; without a PSK none is asked.  *)
BeginSession(c) == \E t \in Tokens :
  /\ At(c, "upgrading")
  /\ Goes(c, IF ~psk THEN "room"
             ELSE IF ~jwt \/ t \in {"none", "invalid"} THEN "psk"
             ELSE IF t = "oddRole" THEN "closed" ELSE "room")

AnswerPsk(c) == At(c, "psk") /\ (Goes(c, "room") \/ Goes(c, "closed"))

(* The wait for a RoomJoin looks at the signal each time it begins. A message *)
(* that is none is passed over; a device that does not authenticate, or a     *)
(* join that is refused, ends the session.                                    *)
RoomMessage(c) ==
  /\ At(c, "room")
  /\ \/ Goes(c, "relay") \/ Goes(c, "closed")
     \/ stop /\ Goes(c, "closed")

(* In the message loop the signal is looked at when a message has come.       *)
RelayMessage(c) ==
  /\ At(c, "relay")
  /\ IF stop THEN Goes(c, "leaving") ELSE UNCHANGED lifeVars

Hangup(c) ==
  \/ At(c, "relay") /\ Goes(c, "leaving")
  \/ \E here \in {"upgrading", "psk", "room"} : At(c, here) /\ Goes(c, "closed")

CleanUp(c) == At(c, "leaving") /\ Goes(c, "closed")
----------------------------------------------------------------------------
(* Ctrl-C: the signal goes out; the TLS listener is shut down with the        *)
(* connections it serves, which ends the server beside the drain.             *)
CtrlC ==
  /\ proc = "serving"
  /\ stop' = TRUE /\ there' = Counted
  /\ proc' = IF listener = "tls" THEN "ending" ELSE "draining"
  /\ UNCHANGED <<listener, psk, jwt, timeUp, sess>>

Deadline ==
  /\ proc = "draining" /\ ~timeUp /\ timeUp' = TRUE
  /\ UNCHANGED <<listener, psk, jwt, proc, stop, sess, there>>

(* Wrong variant: no deadline.                                                *)
DrainPatiently ==
  /\ proc = "draining" /\ Counted = {}
  /\ proc' = "ending"
  /\ UNCHANGED <<listener, psk, jwt, stop, timeUp, sess, there>>

(* Every 250 ms: nobody left, or out of time.                                 *)
Drain250ms ==
  /\ proc = "draining" /\ (Counted = {} \/ timeUp)
  /\ proc' = "ending"
  /\ UNCHANGED <<listener, psk, jwt, stop, timeUp, sess, there>>

(* main() returns, and the runtime takes the sessions there are with it.      *)
ExitServer ==
  /\ proc = "ending" /\ proc' = "exited"
  /\ UNCHANGED <<listener, psk, jwt, stop, timeUp, sess, there>>

LifeStep == Deadline \/ Drain250ms \/ ExitServer
SessStep(c) ==
  \/ AcceptConn(c) \/ BeginSession(c) \/ AnswerPsk(c) \/ RoomMessage(c)
  \/ RelayMessage(c) \/ Hangup(c) \/ CleanUp(c)
LifeNext == StartServer \/ CtrlC \/ LifeStep \/ \E c \in Conns : SessStep(c)
LifeSpec == LifeInit /\ [][LifeNext]_lifeVars
----------------------------------------------------------------------------
(* A plain server that exits before its deadline has seen every session there *)
(* was at ctrl-C to the end of its clean-up, however many newcomers it took   *)
(* in the meantime and wherever sessions stood. (The TLS listener does not    *)
(* wait for the drain it starts.)                                             *)
NoSessionCut ==
  listener = "plain" /\ proc = "exited" /\ ~timeUp => \A c \in there : sess[c] = "closed"

(* After ctrl-C the server exits, though sessions that send nothing never     *)
(* look at the signal and newcomers keep arriving.                            *)
ServerExits == []<>(stop => proc = "exited")
=============================================================================
