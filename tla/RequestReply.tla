---------------------------- MODULE RequestReply ----------------------------
(***************************************************************************)
(* What the gateway promises its children about SFU requests: a request     *)
(* stays open until it is replied to, a reply goes to the child that asked  *)
(* (to nobody if that child is gone), no request is replied to twice, and   *)
(* only the loss of the remote session closes requests without a reply.     *)
(* Replies may come in any order: that the gateway replies in FIFO order is *)
(* its own way of keeping the promise.                                      *)
(***************************************************************************)
EXTENDS Naturals

CONSTANT Child

VARIABLES live,  \* the children connected
          last,  \* number of the last request of this session
          open,  \* requests not yet replied to
          given  \* replies handed over in this session

vars == <<live, last, open, given>>

Request == [child : Child, no : Nat]
Reply == [to : Child, child : Child, no : Nat]

Init ==
    /\ live = {}
    /\ last = 0
    /\ open = {}
    /\ given = {}

Arrive(c) ==
    /\ c \notin live
    /\ live' = live \cup {c}
    /\ UNCHANGED <<last, open, given>>

Leave(c) ==
    /\ c \in live
    /\ live' = live \ {c}
    /\ UNCHANGED <<last, open, given>>

Ask(c) ==
    /\ c \in live
    /\ last' = last + 1
    /\ open' = open \cup {[child |-> c, no |-> last + 1]}
    /\ UNCHANGED <<live, given>>

Answer(r) ==
    /\ r \in open
    /\ open' = open \ {r}
    /\ given' = given \cup
           {[to |-> c, child |-> r.child, no |-> r.no] : c \in live \cap {r.child}}
    /\ UNCHANGED <<live, last>>

SessionLost ==
    /\ last' = 0
    /\ open' = {}
    /\ given' = {}
    /\ UNCHANGED live

Next ==
    \/ \E c \in Child : Arrive(c) \/ Leave(c) \/ Ask(c)
    \/ \E r \in open : Answer(r)
    \/ SessionLost

Spec == Init /\ [][Next]_vars
=============================================================================
