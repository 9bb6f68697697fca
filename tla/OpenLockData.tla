---------------------------- MODULE OpenLockData ----------------------------
(***************************************************************************)
(* The vocabulary of an OpenLock device: what its sensors read, what its   *)
(* configuration may be, which commands exist and which right each needs,  *)
(* and the durable snapshot.  Bytes, keys and signatures are abstracted:   *)
(* a grant is its own digest, a command is its own digest, and a signature *)
(* verifies exactly when the signer recorded in the object is the issuer   *)
(* it is checked against.                                                  *)
(***************************************************************************)
EXTENDS Integers, FiniteSets, Sequences

CONSTANTS
  None,           \* Option::None for an owner, a binding, a credential, a digest
  Info,           \* DeviceInfo: the immutable description of the product
  Issuers,        \* issuer keys
  Peers,          \* static keys of the mobile side of a session
  CredentialIds,
  Grants,         \* every grant any issuer has signed
  Commands,       \* every command any peer may send
  Samples         \* every reading the sensors may return

Never == -1       \* Option::None for a monotonic time

-----------------------------------------------------------------------------
(* Sensors.  "Unsupported" is the reading of an absent sensor.             *)

BoltReadings == {"Locked", "Unlocked", "Unknown", "Unsupported"}
DoorReadings == {"Closed", "Open", "Unknown", "Unsupported"}
PrivacyReadings == {"On", "Off", "Unknown", "Unsupported"}
Sample == [bolt : BoltReadings, door : DoorReadings, privacy : PrivacyReadings]

ValidSample(w) ==
  /\ (w.bolt = "Unsupported") # Info.bolt_sensor
  /\ (w.door = "Unsupported") # Info.door_sensor
  /\ (w.privacy = "Unsupported") # Info.privacy_sensor

(* What is left of a sample that failed validation.                        *)
Sanitized ==
  [bolt |-> IF Info.bolt_sensor THEN "Unknown" ELSE "Unsupported",
   door |-> IF Info.door_sensor THEN "Unknown" ELSE "Unsupported",
   privacy |-> IF Info.privacy_sensor THEN "Unknown" ELSE "Unsupported"]

CanLock(w) ==
  /\ Info.motor
  /\ \/ w.door = "Closed"
     \/ w.door = "Unsupported" /\ Info.safe_lock_without_door

PrivacyAllows(w) == w.privacy \notin {"On", "Unknown"}

Expected(target) == IF target = "Lock" THEN "Locked" ELSE "Unlocked"

-----------------------------------------------------------------------------
(* Configuration.  Times are ticks of the monotonic clock.                 *)

Config ==
  [version : Nat, auto_relock : {"Disabled", "Delay", "AfterClose"}, delay : Nat,
   action_timeout : Nat, hold_open : BOOLEAN, door_ajar : Nat]

DefaultTimeout == 10000

FactoryConfig ==
  [version |-> 0, auto_relock |-> "Disabled", delay |-> 0,
   action_timeout |-> IF Info.max_action < DefaultTimeout THEN Info.max_action
                      ELSE DefaultTimeout,
   hold_open |-> FALSE, door_ajar |-> 0]

ValidConfig(c) ==
  /\ c.action_timeout \in 1..Info.max_action
  /\ c.hold_open => Info.hold_open
  /\ c.door_ajar <= Info.max_delay
  /\ c.door_ajar # 0 => Info.door_sensor
  /\ c.auto_relock # "Disabled" =>
       /\ c.delay \in 1..Info.max_delay
       /\ "Lock" \in Info.capabilities
       /\ ~c.hold_open
       /\ Info.door_sensor \/ Info.safe_lock_without_door
  /\ c.auto_relock = "AfterClose" => Info.door_sensor

-----------------------------------------------------------------------------
(* Commands: [grant, seq, op, arg].  A query carries seq 0.                *)

Queries ==
  {"Status", "Info", "Operation", "GetConfig", "ReadLog", "FirmwareStatus",
   "CredentialStatus", "PairingStatus"}
Mutations ==
  {"Unlock", "Lock", "ApplyPolicy", "SetConfig", "SetClock", "Reboot",
   "FactoryReset", "ReplaceIssuer", "FirmwareBegin", "FirmwareChunk",
   "FirmwareFinish", "FirmwareActivate", "FirmwareAbort", "Claim",
   "RotateDeviceKey"}
Ops == Queries \cup Mutations

Right(op) ==
  CASE op = "Unlock" -> {"UNLOCK"}
    [] op = "Lock" -> {"LOCK"}
    [] op \in {"Status", "Info", "Operation", "GetConfig", "CredentialStatus"} -> {"STATUS"}
    [] op = "ApplyPolicy" -> {"CREDENTIALS"}
    [] op = "SetConfig" -> {"CONFIG"}
    [] op = "ReadLog" -> {"LOG"}
    [] op = "SetClock" -> {"CLOCK"}
    [] op = "Reboot" -> {"REBOOT"}
    [] op = "FactoryReset" -> {"RESET"}
    [] op \in {"ReplaceIssuer", "RotateDeviceKey"} -> {"TRUST"}
    [] op \in {"FirmwareBegin", "FirmwareChunk", "FirmwareFinish", "FirmwareActivate",
               "FirmwareAbort", "FirmwareStatus"} -> {"FIRMWARE"}
    [] op \in {"Claim", "PairingStatus"} -> {}

KnownRights == UNION {Right(op) : op \in Ops}

(* A grant without a use limit has max_uses 0.                             *)
Unlimited == 0

Grant ==
  [id : CredentialIds, issuer : Issuers, lock : BOOLEAN, subject : Peers,
   epoch : Nat, rights : SUBSET KnownRights, max_uses : Nat]

Policy ==
  [issuer : Issuers, lock : BOOLEAN, epoch : Nat, version : Nat,
   revoked : SUBSET CredentialIds]
ClaimArg == [setup_key : BOOLEAN, issuer : Issuers, admin : Grants]

(* A well-formed command: Command::validate and the parser of its action.  *)
WellFormed(c) ==
  /\ c.op \in Ops
  /\ c.seq \in Nat /\ (c.op \in Mutations <=> c.seq # 0)
  /\ IF c.op \in {"Claim", "PairingStatus"} THEN c.grant = None ELSE c.grant \in Grants
  /\ c.op = "SetConfig" => c.arg \in Config /\ (c.arg.auto_relock = "Disabled" => c.arg.delay = 0)
  /\ c.op = "ApplyPolicy" => c.arg \in Policy
  /\ c.op = "Claim" => c.arg \in ClaimArg
  /\ c.op = "ReplaceIssuer" => c.arg \in [issuer : Issuers]
  /\ c.op = "Operation" => c.arg \in [seq : Nat]

-----------------------------------------------------------------------------
(* The durable snapshot.  A map of the code is a total function here: a    *)
(* use count or a watermark of 0, or the binding None, is an absent key    *)
(* (the code never stores these).  The audit ring is reduced to its cursor *)
(* and to the one thing the controller reads back from it: whether its     *)
(* last event is a hardware event with code SensorConflict.                *)

Phases == {"Accepted", "Running", "Completed", "Failed", "Unknown"}
Pending == {"Accepted", "Running"}
FirmwarePhases == {"Empty", "Receiving", "Verified", "Trial", "Confirmed", "Failed"}
OperationRecord == [id : CredentialIds, seq : Nat, digest : Commands, phase : Phases]

Snapshot ==
  [format : {0, 1}, owner : Issuers \cup {None}, epoch : Nat, generation : Nat,
   policy_version : Nat, revoked : SUBSET CredentialIds,
   uses : [CredentialIds -> Nat], watermarks : [CredentialIds -> Nat],
   bindings : [CredentialIds -> Grants \cup {None}],
   operations : Seq(OperationRecord), config : Config, next_cursor : Nat \ {0},
   conflict_last : BOOLEAN, pending_relock : BOOLEAN, automatic_inflight : BOOLEAN,
   firmware : FirmwarePhases]

Factory ==
  [format |-> 1, owner |-> None, epoch |-> 0, generation |-> 0,
   policy_version |-> 0, revoked |-> {},
   uses |-> [c \in CredentialIds |-> 0], watermarks |-> [c \in CredentialIds |-> 0],
   bindings |-> [c \in CredentialIds |-> None],
   operations |-> <<>>, config |-> FactoryConfig, next_cursor |-> 1,
   conflict_last |-> FALSE, pending_relock |-> FALSE, automatic_inflight |-> FALSE,
   firmware |-> "Empty"]

(* A store that holds nothing yet.                                         *)
Absent == [Factory EXCEPT !.format = 0]

Known(f, none) == {c \in CredentialIds : f[c] # none}
RoomFor(f, none, c) ==
  f[c] # none \/ Cardinality(Known(f, none)) < Info.credential_capacity

(* DeviceSnapshot::validate: the part that a running controller can break. *)
ValidSnapshot(s) ==
  /\ s.format = 1
  /\ Len(s.operations) <= Info.operation_capacity
  /\ Cardinality(Known(s.watermarks, 0)) <= Info.credential_capacity
  /\ Cardinality(Known(s.bindings, None)) <= Info.credential_capacity
  /\ Cardinality(Known(s.uses, 0)) <= Info.credential_capacity
  /\ Cardinality(s.revoked) <= Info.credential_capacity
  /\ ValidConfig(s.config)
  /\ \A i \in 1..Len(s.operations) :
       LET op == s.operations[i] IN op.seq \in 1..s.watermarks[op.id]

-----------------------------------------------------------------------------
(* DeviceInfo::validate, and what the sets of inputs range over.           *)

InfoFields ==
  /\ Info.motor \in BOOLEAN /\ Info.bolt_sensor \in BOOLEAN
  /\ Info.door_sensor \in BOOLEAN /\ Info.privacy_sensor \in BOOLEAN
  /\ Info.safe_lock_without_door \in BOOLEAN /\ Info.hold_open \in BOOLEAN
  /\ Info.capabilities \in SUBSET Ops /\ Info.capabilities # {}
  /\ Info.max_action \in Nat \ {0} /\ Info.max_delay \in Nat \ {0}
  /\ Info.operation_capacity \in Nat \ {0} /\ Info.credential_capacity \in Nat \ {0}
  /\ "Lock" \in Info.capabilities => Info.motor

ASSUME InfoAssumption == InfoFields
ASSUME NoneAssumption == None \notin Issuers \cup Peers \cup Grants \cup Commands
ASSUME GrantsAssumption == Grants \subseteq Grant
ASSUME CommandsAssumption == \A c \in Commands : WellFormed(c)
ASSUME SamplesAssumption == Samples \subseteq Sample
=============================================================================
