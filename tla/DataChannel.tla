---------------------------- MODULE DataChannel ----------------------------
(* A data channel of mediaservo-webrtc (webrtc-sys backend) and the readers   *)
(* that spool it: control commands, emergency stops and vision results reach  *)
(* the host's programs this way.  libwebrtc keeps one observer per channel;   *)
(* the first spool registers it, and every spool subscribes to what it sends. *)
EXTENDS Naturals, Sequences

CONSTANTS
  Spools,         \* readers
  MaxMessages,    \* bound: messages that arrive
  Kept            \* events kept for a slow reader (256)

ASSUME DataChannelAssumption == MaxMessages \in Nat /\ Kept \in Nat \ {0}

VARIABLES
  dcState,        \* "connecting", "open", "closing", "closed"
  dcObserver,     \* number of the observer registered last; 0 for none
  dcSource,       \* of a reader: the observer it hears; 0 before it spools
  dcQueue,        \* events waiting for it
  dcLagged,       \* events it missed and has not been told of
  dcRead,         \* what its recv returned
  dcTold,         \* ghost: events that dcRead returned or reported lost
  dcSent,         \* events there have been
  dcDue           \* events since it spooled

dcVars == <<dcState, dcObserver, dcSource, dcQueue, dcLagged, dcRead, dcTold, dcSent, dcDue>>

DcTypeOK ==
  /\ dcState \in {"connecting", "open", "closing", "closed"}
  /\ dcObserver \in Nat /\ dcSource \in [Spools -> 0 .. dcObserver]
  /\ \A r \in Spools : Len(dcQueue[r]) <= Kept /\ dcDue[r] <= dcSent
  /\ dcLagged \in [Spools -> Nat] /\ dcSent <= MaxMessages + 3

DcInit ==
  /\ dcState = "connecting" /\ dcObserver = 0 /\ dcSent = 0
  /\ dcSource = [r \in Spools |-> 0] /\ dcQueue = [r \in Spools |-> <<>>]
  /\ dcLagged = [r \in Spools |-> 0] /\ dcRead = [r \in Spools |-> <<>>]
  /\ dcTold = [r \in Spools |-> 0] /\ dcDue = [r \in Spools |-> 0]

-----------------------------------------------------------------------------
(* spool(), of any clone of the channel: they share the cell.                 *)
Spool(r) ==
  /\ dcSource[r] = 0
  /\ dcObserver' = IF dcObserver = 0 THEN 1 ELSE dcObserver
  /\ dcSource' = [dcSource EXCEPT ![r] = dcObserver']
  /\ UNCHANGED <<dcState, dcQueue, dcLagged, dcRead, dcTold, dcSent, dcDue>>

(* The observer broadcasts; a reader that is Kept behind loses its oldest.    *)
Broadcast ==
  /\ dcSent' = dcSent + 1
  /\ LET hears(r) == dcSource[r] # 0 /\ dcSource[r] = dcObserver
         full(r)  == hears(r) /\ Len(dcQueue[r]) = Kept
     IN /\ dcQueue' = [r \in Spools |->
             IF hears(r) THEN Append(IF full(r) THEN Tail(dcQueue[r]) ELSE dcQueue[r], dcSent')
             ELSE dcQueue[r]]
        /\ dcLagged' = [r \in Spools |-> dcLagged[r] + IF full(r) THEN 1 ELSE 0]
        /\ dcDue' = [r \in Spools |-> dcDue[r] + IF dcSource[r] # 0 THEN 1 ELSE 0]
  /\ UNCHANGED <<dcObserver, dcSource, dcRead, dcTold>>

OnMessage ==
  /\ dcState = "open" /\ dcSent < MaxMessages /\ UNCHANGED dcState /\ Broadcast

(* Opening is told once, closing twice: as "closing" and as "closed".         *)
OnStateChange ==
  /\ dcState' \in CASE dcState = "connecting" -> {"open", "closed"}
                    [] dcState = "open" -> {"closing"}
                    [] dcState = "closing" -> {"closed"}
                    [] OTHER -> {}
  /\ Broadcast

(* recv: a reader that lagged is told so, once, before it reads on.           *)
Recv(r) ==
  /\ dcSource[r] # 0
  /\ \/ /\ dcLagged[r] > 0 /\ dcLagged' = [dcLagged EXCEPT ![r] = 0]
        /\ dcRead' = [dcRead EXCEPT ![r] = Append(@, [is |-> "lost", n |-> dcLagged[r]])]
        /\ dcTold' = [dcTold EXCEPT ![r] = @ + dcLagged[r]]
        /\ UNCHANGED dcQueue
     \/ /\ dcLagged[r] = 0 /\ dcQueue[r] # <<>>
        /\ dcRead' = [dcRead EXCEPT ![r] = Append(@, [is |-> "event", n |-> Head(dcQueue[r])])]
        /\ dcTold' = [dcTold EXCEPT ![r] = @ + 1]
        /\ dcQueue' = [dcQueue EXCEPT ![r] = Tail(@)] /\ UNCHANGED dcLagged
  /\ UNCHANGED <<dcState, dcObserver, dcSource, dcSent, dcDue>>

DcNext ==
  OnMessage \/ OnStateChange \/ \E r \in Spools : Spool(r) \/ Recv(r)

-----------------------------------------------------------------------------
(* Every event since a reader spooled is read by it, waits for it, or is told *)
(* to it as lost, however many readers spool after it; and it reads what it   *)
(* reads in the order of the events.                                          *)
SpoolsMissNothing == \A r \in Spools :
  /\ dcTold[r] + Len(dcQueue[r]) + dcLagged[r] = dcDue[r]
  /\ \A i, j \in DOMAIN dcRead[r] :
       i < j /\ dcRead[r][i].is = "event" /\ dcRead[r][j].is = "event" => dcRead[r][i].n < dcRead[r][j].n
=============================================================================
