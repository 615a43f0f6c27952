------------------------- MODULE MCSignalingServer -------------------------
(* Small instances of the signalling server for TLC.                        *)
EXTENDS SignalingServer, TLC

CONSTANTS v1, v2 \* two vehicles

Client(who, role, peer) == [who |-> who, role |-> role, peer |-> peer]

(* Two vehicles that both take the room for theirs: whichever comes second  *)
(* is refused while the first is its owner, and so is a second connection   *)
(* of the one that is in it.                                                *)
RoomClients == {Client(DeviceIdentity(v), "host", "own") : v \in {v1, v2}}

(* A vehicle and its operator, who may negotiate with it.                   *)
RelayClients ==
    {Client(DeviceIdentity(v1), "host", "own"),
     Client(AccountIdentity("operator", {v1}), "remote", "own")}

(* A vehicle whose children send SFU messages as "host", and a browser,     *)
(* which sends them under a name of its own.                                *)
SharedClients ==
    {Client(DeviceIdentity(v1), "host", "shared"),
     Client(AccountIdentity("viewer", {v1}), "consumer", "own")}

(* Hosts without a device.                                                  *)
HostClients == {Client(LegacyIdentity, "host", "own")}

Symmetric == Permutations(Sess)

(* RoomClients does not tell the vehicles apart either.                     *)
SymmetricRooms == {p @@ q : p \in Permutations(Sess), q \in Permutations(Devices)}
=============================================================================
