---------------------------- MODULE RoomManager ----------------------------
(***************************************************************************)
(* The record of one room and what each operation of room.rs does to it.    *)
(* RoomManager keeps rooms in a concurrent map: an operation that takes the *)
(* map's lock more than once is one definition per critical section, and    *)
(* the caller decides what may happen in between.                           *)
(***************************************************************************)
EXTENDS Roles

NoRoom == [type |-> "none", host |-> None, remote |-> None, consumers |-> {}]

Room == [type : {"none", "p2p", "stream"}, host : Sess \cup {None},
         remote : Sess \cup {None}, consumers : SUBSET Sess]

IsDeviceStream(r) == r.type = "stream"

Members(r) == (({r.host} \cup {r.remote}) \ {None}) \cup r.consumers

IsEmpty(r) == Members(r) = {}

(* join_room, first critical section: the room is there.                    *)
IsFull(r, role) ==
    \/ role = "host" /\ r.host # None
    \/ role = "remote" /\ r.type = "p2p" /\ r.remote # None

WithPeer(r, s, role) ==
    IF role = "host" THEN [r EXCEPT !.host = s]
    ELSE IF role = "remote" /\ r.type = "p2p" THEN [r EXCEPT !.remote = s]
    ELSE [r EXCEPT !.consumers = @ \cup {s}]

(* join_room, second critical section: it was not, and is inserted.         *)
CreatedBy(s, role) ==
    [type |-> IF role = "host" THEN "p2p" ELSE "stream",
     host |-> IF role = "host" THEN s ELSE None,
     remote |-> IF role = "remote" THEN s ELSE None,
     consumers |-> IF role = "consumer" THEN {s} ELSE {}]

(* leave_room, first critical section.                                      *)
WithoutPeer(r, s) ==
    [r EXCEPT !.host = IF @ = s THEN None ELSE @,
              !.remote = IF @ = s THEN None ELSE @,
              !.consumers = @ \ {s}]

(* leave_room and disconnect_consumers: retain the rooms with a member.     *)
Retained(r) == IF IsEmpty(r) THEN NoRoom ELSE r

(* disconnect_consumers, first critical section.                            *)
WithoutConsumers(r) == [r EXCEPT !.consumers = {}]
=============================================================================
