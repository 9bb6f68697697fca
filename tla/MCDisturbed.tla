----------------------------- MODULE MCDisturbed -----------------------------
(***************************************************************************)
(* The controller in an environment that disturbs it a bounded number of   *)
(* times: each crash, each fault that poisons it, each change of the       *)
(* sensors the actuator did not cause and each refused request takes one   *)
(* of Disturbances.  What the device does between disturbances is finite,  *)
(* so MaxCursor need not bind.                                             *)
(***************************************************************************)
EXTENDS DeviceController

CONSTANTS admin, cred, iss, Disturbances

VARIABLE left     \* disturbances still to come

disturbedVars == <<vars, left>>

MCGrant ==
  [id |-> cred, issuer |-> iss, lock |-> TRUE, subject |-> admin, epoch |-> 0,
   rights |-> KnownRights, max_uses |-> Unlimited]
MCGrants == {MCGrant}
Send(seq, op, arg) == [grant |-> MCGrant, seq |-> seq, op |-> op, arg |-> arg]
MCLegacy ==
  {[issuer |-> iss, epoch |-> 0, policy_version |-> 0, revoked |-> {},
    usage |-> [c \in {cred} |-> 0]]}

DisturbedInit == Init /\ left = Disturbances

(* Steps of the device and its host; one that ends a running controller is *)
(* a disturbance.                                                          *)
Work ==
  /\ \/ \E l \in LegacyStates : MigrateLegacy(l)
     \/ Open
     \/ HardwareChanged
     \/ Poll
     \/ Drive
     \/ Callback
     \/ \E o \in Observations, ctx \in Contexts, c \in Commands :
          HandleDrive(o, ctx, c) \/ HandleNoChange(o, ctx, c) \/ HandleManaged(o, ctx, c)
     \/ RetryStop
     \/ MotorRests
     \/ Tick
     \/ Crash
  /\ IF ctl.mode = "ready" /\ ctl'.mode # "ready"
     THEN left > 0 /\ left' = left - 1
     ELSE UNCHANGED left

Disturb ==
  /\ left > 0 /\ left' = left - 1
  /\ \/ SensorsChange
     \/ \E o \in Observations, ctx \in Contexts, c \in Commands : HandleRefused(o, ctx, c)

DisturbedNext == Work \/ Disturb

DisturbedSpec == DisturbedInit /\ [][DisturbedNext]_disturbedVars
=============================================================================
