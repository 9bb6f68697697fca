----------------------------- MODULE MCActuation -----------------------------
(***************************************************************************)
(* A motor lock with bolt and door sensors and one administrator: unlock,  *)
(* lock and automatic relock under crashes, failed commits, failed stops,  *)
(* a door that moves at any time and late callbacks.                       *)
(***************************************************************************)
EXTENDS DeviceController

CONSTANTS admin, cred, iss

MCInfo ==
  [motor |-> TRUE, bolt_sensor |-> TRUE, door_sensor |-> TRUE, privacy_sensor |-> FALSE,
   safe_lock_without_door |-> FALSE, hold_open |-> FALSE,
   capabilities |-> {"Unlock", "Lock", "SetConfig"},
   max_action |-> 1, max_delay |-> 1, operation_capacity |-> 1, credential_capacity |-> 1]

MCGrant ==
  [id |-> cred, issuer |-> iss, lock |-> TRUE, subject |-> admin, epoch |-> 0,
   rights |-> {"UNLOCK", "LOCK", "CONFIG"}, max_uses |-> 2]

MCGrants == {MCGrant}

MCConfig(relock) ==
  [version |-> 1, auto_relock |-> relock, delay |-> 1, action_timeout |-> 1,
   hold_open |-> FALSE, door_ajar |-> 0]

Send(seq, op, arg) == [grant |-> MCGrant, seq |-> seq, op |-> op, arg |-> arg]

MCCommands ==
  {Send(1, "SetConfig", MCConfig("AfterClose")), Send(1, "SetConfig", MCConfig("Delay")),
   Send(2, "Unlock", None), Send(3, "Lock", None)}

MCSamples ==
  {[bolt |-> b, door |-> d, privacy |-> "Unsupported"] :
     b \in {"Locked", "Unlocked"}, d \in {"Closed", "Open"}}
  \cup {[bolt |-> "Unsupported", door |-> "Closed", privacy |-> "Unsupported"]}

MCLegacy ==
  {[issuer |-> iss, epoch |-> 0, policy_version |-> 0, revoked |-> {},
    usage |-> [c \in {cred} |-> 0]]}
=============================================================================
