----------------------------- MODULE MCRequests -----------------------------
(***************************************************************************)
(* Two credentials compete for one operation slot and one credential slot  *)
(* of a lock without a door sensor: replays, reused sequence numbers, use  *)
(* limits, eviction, a policy that revokes, key rotation, reboot and the   *)
(* start of a firmware transfer, a legacy store whose table of uses is     *)
(* full; with crashes and failed commits.                                  *)
(***************************************************************************)
EXTENDS DeviceController

CONSTANTS alice, bob, credA, credB, iss

MCInfo ==
  [motor |-> TRUE, bolt_sensor |-> TRUE, door_sensor |-> FALSE, privacy_sensor |-> FALSE,
   safe_lock_without_door |-> TRUE, hold_open |-> FALSE,
   capabilities |-> {"Unlock", "Lock", "ApplyPolicy", "Operation", "SetClock", "Reboot",
                     "RotateDeviceKey", "FirmwareBegin", "FirmwareChunk", "FirmwareAbort"},
   max_action |-> 1, max_delay |-> 1, operation_capacity |-> 1, credential_capacity |-> 1]

GrantA ==
  [id |-> credA, issuer |-> iss, lock |-> TRUE, subject |-> alice, epoch |-> 0,
   rights |-> KnownRights, max_uses |-> 1]
(* The same credential signed again with more uses: a conflicting binding. *)
GrantA2 == [GrantA EXCEPT !.max_uses = 2]
GrantB ==
  [id |-> credB, issuer |-> iss, lock |-> TRUE, subject |-> bob, epoch |-> 0,
   rights |-> {"UNLOCK"}, max_uses |-> 2]
MCGrants == {GrantA, GrantA2, GrantB}

Send(g, seq, op, arg) == [grant |-> g, seq |-> seq, op |-> op, arg |-> arg]
Revoke(cs) ==
  [issuer |-> iss, lock |-> TRUE, epoch |-> 0, version |-> 1, revoked |-> cs]

MCCommands ==
  {Send(GrantA, 1, "Unlock", None), Send(GrantA, 1, "Lock", None),
   Send(GrantA, 2, "Unlock", None), Send(GrantA2, 3, "Unlock", None),
   Send(GrantA, 2, "RotateDeviceKey", None), Send(GrantA, 2, "Reboot", None),
   Send(GrantA, 2, "FirmwareBegin", None), Send(GrantA, 3, "SetClock", None),
   Send(GrantA, 3, "FirmwareChunk", None), Send(GrantA, 3, "FirmwareAbort", None),
   Send(GrantA, 3, "ApplyPolicy", Revoke({credB})),
   Send(GrantA, 3, "ApplyPolicy", Revoke({})),
   Send(GrantA, 0, "Operation", [seq |-> 1]),
   Send(GrantB, 1, "Unlock", None), Send(GrantB, 2, "Unlock", None)}

MCSamples ==
  {[bolt |-> b, door |-> "Unsupported", privacy |-> "Unsupported"] :
     b \in {"Locked", "Unlocked"}}

MCLegacy ==
  {[issuer |-> iss, epoch |-> 0, policy_version |-> 0, revoked |-> cs,
    usage |-> [c \in {credA, credB} |-> IF c \in cs THEN 1 ELSE 0]] :
     cs \in {{}, {credB}}}
=============================================================================
