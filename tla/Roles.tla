------------------------------- MODULE Roles -------------------------------
(***************************************************************************)
(* The names the modules of the signalling server share, and its            *)
(* authorisation matrix (roles.rs): pure decisions over the identity a      *)
(* session was given when it authenticated.                                 *)
(***************************************************************************)
CONSTANTS Sess,    \* WebSocket sessions; each is its own peer id
          Devices, \* device ids; a device id is also its vehicle's name
          None     \* the Option::None of slots, owners and bindings

PeerRoles == {"host", "remote", "consumer"}

CockpitRoles == {"viewer", "operator", "admin", "dispatcher"}

Identity == [kind : {"device", "account", "legacy"},
             device : Devices \cup {None},
             role : CockpitRoles \cup {None},
             vehicles : SUBSET Devices]

DeviceIdentity(d) ==
    [kind |-> "device", device |-> d, role |-> None, vehicles |-> {}]

AccountIdentity(r, allowed) ==
    [kind |-> "account", device |-> None, role |-> r, vehicles |-> allowed]

LegacyIdentity ==
    [kind |-> "legacy", device |-> None, role |-> None, vehicles |-> {}]

CanAccessVehicle(a, v) ==
    a.role \in {"admin", "dispatcher"} \/ v \in a.vehicles

(* join_vehicle_room: a room without an owner is open to everybody.         *)
MayJoinVehicleRoom(i, owner) ==
    \/ owner = None
    \/ i.kind = "legacy"
    \/ i.kind = "device" /\ i.device = owner
    \/ i.kind = "account" /\ CanAccessVehicle(i, owner)

MayJoinAsHost(i) == i.kind # "account"

CanControl(i) == i.kind = "account" => i.role \in {"operator", "admin"}

CanProduce(i) == i.kind # "account"

CanEmergency(i, owner) ==
    \/ i.kind = "legacy"
    \/ /\ i.kind = "account"
       /\ i.role \in {"operator", "admin"}
       /\ owner # None
       /\ CanAccessVehicle(i, owner)

(* status_report_denial_reason (signaling.rs).                              *)
MayReportStatus(i, role) == i.kind = "device" \/ role = "host"
=============================================================================
