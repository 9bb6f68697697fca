----------------------------- MODULE MCOwnership -----------------------------
(***************************************************************************)
(* A new device is claimed, reset, claimed again, handed to another issuer *)
(* and moved to a new epoch, with relocks owed in between, confirmations   *)
(* that expire or name another command, wrong setup keys, crashes and      *)
(* failed commits, by an administrator whose session stays open throughout *)
(* and who holds a valid grant in every domain.                            *)
(***************************************************************************)
EXTENDS DeviceSessions

CONSTANTS alice, cred, iss1, iss2

MCInfo ==
  [motor |-> TRUE, bolt_sensor |-> FALSE, door_sensor |-> FALSE, privacy_sensor |-> FALSE,
   safe_lock_without_door |-> TRUE, hold_open |-> FALSE,
   capabilities |-> {"Unlock", "Lock", "SetConfig", "ApplyPolicy", "Claim",
                     "PairingStatus", "FactoryReset", "ReplaceIssuer"},
   max_action |-> 1, max_delay |-> 1, operation_capacity |-> 1, credential_capacity |-> 1]

Admin(i, e) ==
  [id |-> cred, issuer |-> i, lock |-> TRUE, subject |-> alice, epoch |-> e,
   rights |-> KnownRights, max_uses |-> Unlimited]
MCGrants == {Admin(iss1, 0), Admin(iss1, 1), Admin(iss2, 1)}

Send(g, seq, op, arg) == [grant |-> g, seq |-> seq, op |-> op, arg |-> arg]
Claim(i, e, key) ==
  [grant |-> None, seq |-> 1, op |-> "Claim",
   arg |-> [setup_key |-> key, issuer |-> i, admin |-> Admin(i, e)]]
NewPolicy(e, v) ==
  [issuer |-> iss1, lock |-> TRUE, epoch |-> e, version |-> v, revoked |-> {}]
Relock ==
  [version |-> 1, auto_relock |-> "Delay", delay |-> 1, action_timeout |-> 1,
   hold_open |-> FALSE, door_ajar |-> 0]

MCCommands ==
  {[grant |-> None, seq |-> 0, op |-> "PairingStatus", arg |-> None],
   Claim(iss1, 0, TRUE), Claim(iss1, 0, FALSE), Claim(iss1, 1, TRUE),
   Send(Admin(iss1, 0), 1, "SetConfig", Relock),
   Send(Admin(iss1, 0), 2, "Unlock", None),
   Send(Admin(iss1, 0), 3, "FactoryReset", None),
   Send(Admin(iss1, 0), 3, "ReplaceIssuer", [issuer |-> iss2]),
   Send(Admin(iss1, 0), 3, "ApplyPolicy", NewPolicy(1, 1)),
   Send(Admin(iss1, 1), 1, "Unlock", None),
   Send(Admin(iss2, 1), 1, "Unlock", None)}

MCSamples == {[bolt |-> "Unsupported", door |-> "Unsupported", privacy |-> "Unsupported"]}
=============================================================================
