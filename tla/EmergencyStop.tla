--------------------------- MODULE EmergencyStop ---------------------------
(* host-emergency: the process of PeerChild with an emergency stop behind it, *)
(* triggered by the cockpit's data channel and by SIGUSR1 on the spot. The    *)
(* latch and the count live in the process, the audit file outlives it.       *)
EXTENDS PeerChild

CONSTANTS
  MaxLocal,       \* bound: SIGUSR1s
  NoTrigger       \* no trigger under way

ASSUME StopAssumption == MaxLocal \in Nat

VARIABLES
  handler,        \* SIGUSR1 has a handler; before that it kills the process
  usr1,           \* a SIGUSR1 waits to be looked at (signals coalesce)
  latch, count,   \* StubEmergencyActuator
  trigger,        \* trigger[t]: how far task t is inside trigger()
  audit,          \* the audit file, line by line
  warned,         \* seq numbers whose acknowledgement carries the audit's error
  locals          \* counter for the bound

Tasks == {"dc", "local"}
stopVars == <<handler, usr1, latch, count, trigger, audit, warned, locals>>
emergencyVars == <<peerVars, stopVars>>

StopTypeOK ==
  /\ PeerTypeOK
  /\ handler \in BOOLEAN /\ usr1 \in BOOLEAN /\ latch \in BOOLEAN
  /\ count \in Nat
  /\ \A t \in Tasks : trigger[t] # NoTrigger => trigger[t].at \in {"counted", "latched"}
  /\ \A i \in DOMAIN audit : audit[i].life \in 1 .. lives /\ audit[i].source \in Tasks
  /\ warned \subseteq acks /\ locals \in 0 .. MaxLocal

StopInit ==
  /\ PeerInit
  /\ handler = FALSE /\ usr1 = FALSE
  /\ latch = FALSE /\ count = 0
  /\ trigger = [t \in Tasks |-> NoTrigger]
  /\ audit = <<>> /\ warned = {} /\ locals = 0

Idle(t) == trigger[t] = NoTrigger
----------------------------------------------------------------------------
(* The process: the handler is installed before the session is joined; the    *)
(* loop does nothing else while it is inside local_trigger.                   *)
RegisterHandler ==
  /\ stage = "start" /\ ~handler
  /\ handler' = TRUE
  /\ UNCHANGED <<peerVars, usr1, latch, count, trigger, audit, warned, locals>>

Starting == (handler /\ Join) \/ SendOffer \/ SubscribeEvents \/ StartFails
LoopArms == Idle("local") /\ (Loop \/ IceFailed \/ Terminate)

ProcessStep ==
  /\ Starting \/ LoopArms \/ CockpitSends \/ LinkLost \/ WriteFails \/ CommandArrives
  /\ UNCHANGED stopVars

(* Everything but the audit file is new in the next life.                     *)
NewLife ==
  /\ StartAgain
  /\ handler' = FALSE /\ usr1' = FALSE /\ latch' = FALSE /\ count' = 0
  /\ trigger' = [t \in Tasks |-> NoTrigger]
  /\ UNCHANGED <<audit, warned, locals>>

Sigusr1 ==
  /\ Alive /\ locals < MaxLocal
  /\ locals' = locals + 1
  /\ \/ handler /\ usr1' = TRUE /\ UNCHANGED peerVars
     \/ ~handler /\ Exit /\ UNCHANGED usr1
  /\ UNCHANGED <<handler, latch, count, trigger, audit, warned>>
----------------------------------------------------------------------------
(* trigger(): count, latch, append to the audit, each a step of its own, by   *)
(* the channel's task and by the loop, side by side.                          *)
BeginTrigger(t, seq) ==
  /\ Idle(t)
  /\ count' = count + 1
  /\ trigger' = [trigger EXCEPT ![t] = [at |-> "counted", seq |-> seq, n |-> count', first |-> FALSE]]
  /\ UNCHANGED <<handler, latch, audit, warned, locals>>

RemoteStop ==
  /\ Alive /\ commands # <<>>
  /\ BeginTrigger("dc", Head(commands))
  /\ commands' = Tail(commands)
  /\ UNCHANGED <<stage, link, inbox, iceVars, acks, lives, answers, usr1>>

LocalStop ==
  /\ stage = "run" /\ usr1
  /\ usr1' = FALSE
  /\ BeginTrigger("local", 0)
  /\ UNCHANGED peerVars

(* Wrong variant: reads the latch in one step, sets it in another.           *)
SwapLatchInTwo(t) ==
  /\ Alive /\ ~Idle(t) /\ trigger[t].at = "counted"
  /\ IF trigger[t].first
       THEN latch' = TRUE /\ trigger' = [trigger EXCEPT ![t].at = "latched"]
       ELSE \/ ~latch /\ trigger' = [trigger EXCEPT ![t].first = TRUE] /\ UNCHANGED latch
            \/ latch /\ trigger' = [trigger EXCEPT ![t].at = "latched"] /\ UNCHANGED latch
  /\ UNCHANGED <<peerVars, handler, usr1, count, audit, warned, locals>>

SwapLatch(t) ==
  /\ Alive /\ ~Idle(t) /\ trigger[t].at = "counted"
  /\ latch' = TRUE
  /\ trigger' = [trigger EXCEPT ![t].at = "latched", ![t].first = ~latch]
  /\ UNCHANGED <<peerVars, handler, usr1, count, audit, warned, locals>>

(* The line is appended under a lock, then the channel acknowledges.          *)
AuditLine(t) ==
  [life |-> lives, source |-> t, seq |-> trigger[t].seq, n |-> trigger[t].n,
   latched |-> trigger[t].first]

AppendAudit(t) ==
  /\ Alive /\ ~Idle(t) /\ trigger[t].at = "latched"
  /\ audit' = Append(audit, AuditLine(t))
  /\ trigger' = [trigger EXCEPT ![t] = NoTrigger]
  /\ acks' = IF t = "dc" THEN acks \cup {trigger[t].seq} ELSE acks
  /\ UNCHANGED <<stage, link, inbox, iceVars, commands, lives, answers, handler, usr1, latch,
                 count, warned, locals>>

(* The file cannot be written: the stop stands, and the acknowledgement says  *)
(* that it was not recorded.                                                  *)
AppendFails(t) ==
  /\ Alive /\ ~Idle(t) /\ trigger[t].at = "latched"
  /\ trigger' = [trigger EXCEPT ![t] = NoTrigger]
  /\ IF t = "dc"
       THEN acks' = acks \cup {trigger[t].seq} /\ warned' = warned \cup {trigger[t].seq}
       ELSE UNCHANGED <<acks, warned>>
  /\ UNCHANGED <<stage, link, inbox, iceVars, commands, lives, answers, handler, usr1, latch,
                 count, audit, locals>>

Triggering == \E t \in Tasks : SwapLatch(t) \/ AppendAudit(t) \/ AppendFails(t)
EmergencyNext ==
  \/ RegisterHandler \/ ProcessStep \/ NewLife \/ Sigusr1 \/ RemoteStop \/ LocalStop
  \/ Triggering
EmergencySpec == StopInit /\ [][EmergencyNext]_emergencyVars
----------------------------------------------------------------------------
(* In one life of the process no two triggers are recorded as the one that    *)
(* latched, and no two with the same count, however the two sources interleave*)
(* and wherever the process is killed.                                        *)
LatchedOnce == \A i, j \in DOMAIN audit :
  i # j /\ audit[i].life = audit[j].life =>
    /\ audit[i].n # audit[j].n
    /\ ~(audit[i].latched /\ audit[j].latched)

(* A stop whose acknowledgement does not report an audit error is in the      *)
(* audit file, even when the process was killed right afterwards.             *)
AckedIsAudited == \A c \in acks \ warned : \E i \in DOMAIN audit : audit[i].source = "dc" /\ audit[i].seq = c

(* A SIGUSR1 the process has taken note of leads to a trigger: the local stop *)
(* does not depend on the network (host-emergency.rs, D-H3).                  *)
(* Does not hold: one noted when the process ends is lost with it.            *)
LocalStopKept == [][usr1 /\ ~usr1' => trigger'["local"] # NoTrigger]_emergencyVars
=============================================================================
