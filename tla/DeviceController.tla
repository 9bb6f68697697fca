-------------------------- MODULE DeviceController --------------------------
(***************************************************************************)
(* The serialized controller of an OpenLock device                         *)
(* (crates/openlock-core/src/device.rs) with the storage, the sensors and  *)
(* the actuator it drives.                                                 *)
(*                                                                         *)
(* Every public method takes &mut self, so a call is one step here, with   *)
(* one exception.  Persistence may block while the door moves, so a drive  *)
(* is two steps: the call that durably accepts or claims it, and the step  *)
(* that samples the sensors afresh and starts the actuator.                *)
(*                                                                         *)
(* A commit that fails may or may not have taken effect.  It poisons the   *)
(* controller, and any of the snapshots the call was writing may be what   *)
(* the store holds.  A power loss between two commits of one call leaves   *)
(* the same store, so Crash needs to happen only between steps.            *)
(***************************************************************************)
EXTENDS DeviceRequests

CONSTANTS
  LegacyStates,   \* snapshots of pre-v4 devices that may be migrated
  PairingTicks,   \* length of the commissioning window (120 s)
  ConfirmTicks,   \* life of a physical confirmation (60 s)
  MaxCursor       \* bound: no call is made once this many events are audited

ASSUME TicksAssumption == PairingTicks \in Nat /\ ConfirmTicks \in Nat /\ MaxCursor \in Nat
ASSUME LegacyAssumption ==
  LegacyStates \subseteq [issuer : Issuers, epoch : Nat, policy_version : Nat,
                          revoked : SUBSET CredentialIds, usage : [CredentialIds -> Nat]]

VARIABLES
  disk,           \* the snapshot the store holds
  ctl,            \* the DeviceController value in RAM
  call,           \* the drive a call has committed to and not yet started
  motor,          \* the drive the actuator is performing
  world,          \* what the sensors read now
  drives          \* history: every start_action call ever made

vars == <<disk, ctl, call, motor, world, drives>>

NoCall == [kind |-> "None", grant |-> None, seq |-> 0, target |-> "None"]
Idle == [id |-> NoId, target |-> "None"]

Init ==
  /\ disk = Absent
  /\ ctl = Off
  /\ call = NoCall
  /\ motor = Idle
  /\ world \in Samples
  /\ drives = {}

-----------------------------------------------------------------------------
(* How a call ends.                                                        *)

(* The actuator after an observation that may have stopped it.             *)
Halted(r) == IF Busy(ctl) /\ ~Busy(r) THEN Idle ELSE motor

(* poison: a commit failed, its effect unknown, or the monotonic clock ran *)
(* backwards; a drive that is active is stopped if the actuator obeys.     *)
Poisons(r, m, writes) ==
  \E a \in {NoActive, r.active} :
    /\ ctl' = Closed(a)
    /\ motor' = IF a = r.active THEN m ELSE Idle
    /\ disk' \in {disk} \cup writes

(* The call returns with every commit durable, or poisons the controller.  *)
Returns(r, m, writes) ==
  \/ ctl' = r /\ disk' = r.state /\ motor' = m
  \/ Poisons(r, m, writes \cup {r.state})

Ready == ctl.mode = "ready" /\ call = NoCall /\ ctl.state.next_cursor <= MaxCursor

Observations ==
  {o \in {Observed(ctl, world, stops) : stops \in BOOLEAN} : o.ctl.mode = "ready"}

(* A call that only observes.  When an unsafe drive cannot be stopped the  *)
(* observation of any call poisons the controller without a commit.        *)
HardwareChanged ==
  /\ Ready
  /\ \/ \E o \in Observations : Returns(o.ctl, Halted(o.ctl), o.writes)
     \/ LET o == Observed(ctl, world, FALSE) IN
        /\ o.ctl.mode = "poisoned"
        /\ ctl' = Closed(o.ctl.active)
        /\ UNCHANGED <<disk, motor>>
  /\ UNCHANGED <<call, world, drives>>

-----------------------------------------------------------------------------
(* Constructors.  Each stops the actuator first; if that fails nothing     *)
(* happens.                                                                *)

(* open_stopped on snapshot s; "first" is what the constructor wrote       *)
(* before.  An error leaves no controller and any of the writes durable.   *)
OpenStopped(s, first) ==
  LET rs == IF ValidSample(world) /\ ValidSnapshot(s)
            THEN Reconciled(Recovered(s, world)) ELSE {}
  IN /\ ctl.mode = "off"
     /\ motor' = Idle
     /\ \/ \E r \in rs : ctl' = r /\ disk' = r.state
        \/ /\ disk' \in {disk} \cup first \cup {r.state : r \in rs}
           /\ UNCHANGED ctl
     /\ UNCHANGED <<call, world, drives>>

Provision == disk.format = 0 /\ OpenStopped(Factory, {Factory})
MigrateLegacy(l) ==
  /\ disk.format = 0
  /\ ValidSnapshot(Migrated(l))
  /\ OpenStopped(Migrated(l), {Migrated(l)})
Open == disk.format = 1 /\ OpenStopped(disk, {})

-----------------------------------------------------------------------------
(* The second half of a drive: prepare_actuation and start_action.         *)

(* The drive of the call in progress ends before it started.               *)
CallEnded(r, phase) ==
  IF call.kind = "automatic"
  THEN Audit([r EXCEPT !.state.automatic_inflight = FALSE])
  ELSE Finished(r, call.grant, call.seq, phase)

InCall == ctl.mode = "ready" /\ call # NoCall

DriveRefused ==
  /\ InCall
  /\ ~Interlock(world, call.target)
  /\ Returns(CallEnded(ctl, "Failed"), motor, {})
  /\ call' = NoCall
  /\ UNCHANGED <<world, drives>>

DriveNeedless ==
  /\ InCall
  /\ Interlock(world, call.target)
  /\ world.bolt = Expected(call.target)
  /\ LET r == [ctl EXCEPT !.sample.bolt = world.bolt, !.last_idle_bolt = world.bolt]
     IN Returns(CallEnded(r, "Completed"), motor, {})
  /\ call' = NoCall
  /\ UNCHANGED <<world, drives>>

(* start_action: it may refuse, and even then have energised the actuator. *)
DriveStarts ==
  /\ InCall
  /\ Interlock(world, call.target)
  /\ world.bolt # Expected(call.target)
  /\ \E started, energised \in BOOLEAN :
       LET automatic == call.kind = "automatic"
           id == NextActuationId(ctl.state)
           r == [ctl EXCEPT
                  !.active = [id |-> id, grant |-> call.grant, seq |-> call.seq,
                              target |-> call.target,
                              left |-> ctl.state.config.action_timeout,
                              automatic |-> automatic],
                  !.last_idle_bolt = "None",
                  !.sample.bolt = IF ~automatic /\ Info.bolt_sensor THEN "Unknown" ELSE @,
                  !.fault = IF started THEN @ ELSE "Driver"]
           done == IF automatic THEN r
                   ELSE Finished(r, call.grant, call.seq,
                                 IF started THEN "Running" ELSE "Unknown")
       IN /\ started => energised
          /\ Returns(done, IF energised THEN [id |-> id, target |-> call.target] ELSE motor, {})
          /\ drives' = drives \cup {[id |-> id, target |-> call.target,
                                     grant |-> call.grant, seq |-> call.seq]}
  /\ call' = NoCall
  /\ UNCHANGED world

-----------------------------------------------------------------------------
(* actuator_finished: the callback of the platform.  One that does not     *)
(* name the active drive is refused before anything else.                  *)

(* Mutant: a callback ends whatever drive is active.                       *)
NamesAnyDrive(id) == Busy(ctl) /\ id \in ActuationIds

NamesActive(id) == Busy(ctl) /\ ctl.active.id = id

ActuatorFinished(id, result) ==
  /\ Ready
  /\ NamesActive(id)
  /\ \E o \in Observations :
       LET e == Settled(o.ctl, ctl.active, result) IN
       IF Busy(o.ctl) THEN Returns(e.ctl, motor, o.writes \cup e.writes)
       ELSE Returns(o.ctl, Halted(o.ctl), o.writes)
  /\ UNCHANGED <<call, world, drives>>

-----------------------------------------------------------------------------
(* poll.  On a sensor conflict it returns after the observation            *)
(* (HardwareChanged).                                                      *)

Poll ==
  /\ Ready
  /\ \E o \in Observations :
       /\ ~o.conflict
       /\ \E b \in Reconciled(o.ctl) :
            LET r == Ajar(b)
                c == RelockClaimed(r)
                writes == o.writes \cup {b.state, r.state}
            IN \/ /\ ~RelockDue(r)
                  /\ Returns(r, Halted(o.ctl), writes)
                  /\ UNCHANGED call
               \/ /\ RelockDue(r)
                  /\ ctl' = c /\ disk' = c.state /\ motor' = Halted(o.ctl)
                  /\ call' = [kind |-> "automatic", grant |-> None, seq |-> 0, target |-> "Lock"]
               \/ /\ RelockDue(r)
                  /\ Poisons(c, Halted(o.ctl), writes \cup {c.state})
                  /\ UNCHANGED call
  /\ UNCHANGED <<world, drives>>

-----------------------------------------------------------------------------
(* handle: command c of context ctx; o is the observation it begins with.  *)

Contexts == [peer : Peers, generation : 0..ctl.state.generation]

HandleAnswered(o, ctx, c) ==
  /\ Ready
  /\ Supported(c) /\ Answered(o.ctl, ctx, c)
  /\ Returns(o.ctl, Halted(o.ctl), o.writes)
  /\ UNCHANGED <<call, world, drives>>

HandleClaim(o, ctx, c) ==
  /\ Ready
  /\ Supported(c) /\ Claimable(o.ctl, ctx, c)
  /\ Returns(ClaimedBy(o.ctl, c), Halted(o.ctl), o.writes)
  /\ UNCHANGED <<call, world, drives>>

HandleDomain(o, ctx, c) ==
  /\ Ready
  /\ Supported(c) /\ Acceptable(o, ctx, c) /\ ClearsDomain(o.ctl, c)
  /\ Returns(DomainReplaced(o.ctl, c), Halted(o.ctl), o.writes)
  /\ UNCHANGED <<call, world, drives>>

HandleNoChange(o, ctx, c) ==
  LET a == Accepted(o.ctl, c) IN
  /\ Ready
  /\ Slots(o, ctx, c) /\ NoChange(o.ctl, c)
  /\ Returns(Finished(a, c.grant, c.seq, "Completed"), Halted(o.ctl), o.writes \cup {a.state})
  /\ UNCHANGED <<call, world, drives>>

HandleDrive(o, ctx, c) ==
  LET a == Accepted(o.ctl, c) IN
  /\ Ready
  /\ c.op \in Targets /\ Slots(o, ctx, c) /\ ~NoChange(o.ctl, c)
  /\ \/ /\ ctl' = a /\ disk' = a.state /\ motor' = Halted(o.ctl)
        /\ call' = [kind |-> "manual", grant |-> c.grant, seq |-> c.seq, target |-> c.op]
     \/ Poisons(a, Halted(o.ctl), o.writes \cup {a.state}) /\ UNCHANGED call
  /\ UNCHANGED <<world, drives>>

HandleManaged(o, ctx, c) ==
  /\ Ready
  /\ c.op \in Managed /\ Slots(o, ctx, c)
  /\ \E ok \in Answers(c) :
       LET a == Accepted(o.ctl, c)
           e == Executed(a, c, ok)
       IN Returns(Finished(e, c.grant, c.seq, IF ok THEN "Completed" ELSE "Failed"),
                  Halted(o.ctl), o.writes \cup {a.state, e.state})
  /\ UNCHANGED <<call, world, drives>>

HandleRefused(o, ctx, c) ==
  /\ Ready
  /\ ~Served(o, ctx, c) \/ c.op \in MayRefuse
  /\ Returns(Refused(o, ctx, c), Halted(o.ctl), o.writes)
  /\ UNCHANGED <<call, world, drives>>

-----------------------------------------------------------------------------
(* Local gestures.                                                         *)

OpenPairingWindow ==
  /\ Ready
  /\ ctl.state.owner = None
  /\ ctl' = [ctl EXCEPT !.pairing = PairingTicks, !.pairing_failures = 0]
  /\ UNCHANGED <<disk, call, motor, world, drives>>

ConfirmPhysical(ctx, c) ==
  /\ Ready
  /\ c.op \in NeedsConfirmation
  /\ Authorized(ctl, ctx, c)
  /\ ctl' = [ctl EXCEPT !.confirmation = [peer |-> ctx.peer, digest |-> c, left |-> ConfirmTicks]]
  /\ UNCHANGED <<disk, call, motor, world, drives>>

(* now on a poisoned controller: every later call retries a failed stop.   *)
RetryStop ==
  /\ ctl.mode = "poisoned"
  /\ Busy(ctl)
  /\ ctl' = Closed(NoActive)
  /\ motor' = Idle
  /\ UNCHANGED <<disk, call, world, drives>>

-----------------------------------------------------------------------------
(* The platform around the controller.                                     *)

(* The actuator comes to rest by itself, at its target or not.             *)
MotorRests ==
  /\ motor # Idle
  /\ motor' = Idle
  /\ world' \in {world, [world EXCEPT !.bolt = IF Info.bolt_sensor THEN Expected(motor.target)
                                               ELSE @]}
  /\ UNCHANGED <<disk, ctl, call, drives>>

(* The callback of a drive that is over, however late; it may come twice.  *)
Callback ==
  \E d \in drives, result \in Results : d.id # motor.id /\ ActuatorFinished(d.id, result)

SensorsChange ==
  /\ world' \in Samples \ {world}
  /\ UNCHANGED <<disk, ctl, call, motor, drives>>

Sooner(t) == IF t > 0 THEN t - 1 ELSE t

Tick ==
  /\ ctl.mode = "ready"
  /\ ctl' = [ctl EXCEPT !.active.left = Sooner(@), !.relock_deadline = Sooner(@),
                        !.door_open_for = IF @ \in 0..(Info.max_delay - 1) THEN @ + 1 ELSE @,
                        !.pairing = Sooner(@), !.confirmation.left = Sooner(@)]
  /\ ctl' # ctl
  /\ UNCHANGED <<disk, call, motor, world, drives>>

(* Power is lost; the actuator keeps whatever it was doing.                *)
Crash ==
  /\ ctl.mode # "off"
  /\ ctl' = Off
  /\ call' = NoCall
  /\ UNCHANGED <<disk, motor, world, drives>>

Handle(o, ctx, c) ==
  \/ HandleAnswered(o, ctx, c)
  \/ HandleClaim(o, ctx, c)
  \/ HandleDomain(o, ctx, c)
  \/ HandleNoChange(o, ctx, c)
  \/ HandleDrive(o, ctx, c)
  \/ HandleManaged(o, ctx, c)
  \/ HandleRefused(o, ctx, c)

(* A command of context ctx, or the gesture that confirms one              *)
Asks(ctx, c) ==
  \/ \E o \in Observations : Handle(o, ctx, c)
  \/ ConfirmPhysical(ctx, c)

Drive == DriveRefused \/ DriveNeedless \/ DriveStarts

Next ==
  \/ Provision
  \/ \E l \in LegacyStates : MigrateLegacy(l)
  \/ Open
  \/ HardwareChanged
  \/ Poll
  \/ Drive
  \/ Callback
  \/ OpenPairingWindow
  \/ \E ctx \in Contexts, c \in Commands : Asks(ctx, c)
  \/ RetryStop
  \/ MotorRests
  \/ SensorsChange
  \/ Tick
  \/ Crash

Spec == Init /\ [][Next]_vars

-----------------------------------------------------------------------------
(* Properties.                                                             *)

Call ==
  [kind : {"None", "manual", "automatic"}, grant : Grants \cup {None}, seq : Nat,
   target : Targets \cup {"None"}]
DriveRecord ==
  [id : ActuationIds, target : Targets, grant : Grants \cup {None}, seq : Nat]

(* Every field of the store and of the controller holds a value of its     *)
(* declared type, whatever calls, faults and crashes happened.             *)
TypeOK ==
  /\ disk \in Snapshot
  /\ ctl \in Controller
  /\ call \in Call
  /\ motor \in [id : ActuationIds, target : Targets \cup {"None"}]
  /\ world \in Sample
  /\ drives \subseteq DriveRecord

Quiet == ctl.mode = "ready" /\ call = NoCall

(* An accepted command drives the actuator at most once: not again by a    *)
(* replay, after its record is evicted, after an ambiguous commit or after *)
(* a restart (dispatch's watermark check and open_stopped).                *)
OneDrivePerOperation ==
  \A d, e \in drives :
    /\ d.grant # None /\ e.grant # None
    /\ d.grant.id = e.grant.id /\ d.grant.epoch = e.grant.epoch /\ d.seq = e.seq
    => d = e

(* A grant limited to n uses never starts more than n unlock drives, across *)
(* failed drives, restarts and ambiguous commits: dispatch reserves the use *)
(* durably before execute starts the actuator.                             *)
UseLimitHolds ==
  \A g \in Grants :
    g.max_uses # Unlimited =>
      Cardinality({d \in drives : d.grant = g /\ d.target = "Unlock"}) <= g.max_uses

(* While a controller runs, or is poisoned, an energised actuator is the   *)
(* drive it calls active: no call, callback or failed stop loses track of  *)
(* a moving motor.                                                         *)
MotorOwned ==
  ctl.mode # "off" /\ motor # Idle => ctl.active.id = motor.id /\ ctl.active.target = motor.target

(* Every start_action gets an id no earlier start had, in any generation   *)
(* and across restarts (next_actuation_id), and finds the actuator idle.   *)
FreshActuationIds ==
  [][\A d \in drives' \ drives : motor = Idle /\ \A e \in drives : e.id # d.id]_vars

(* When start_action is called the door reads closed (or the product is    *)
(* declared safe without a door sensor) for a lock drive, privacy is off   *)
(* for an unlock drive, and no trial firmware runs, however the sensors    *)
(* moved since the command was accepted (prepare_actuation).               *)
DrivesStartSafely ==
  [][\A d \in drives' \ drives :
       /\ ValidSample(world)
       /\ d.target = "Lock" => CanLock(world)
       /\ d.target = "Unlock" => PrivacyAllows(world)
       /\ disk.firmware # "Trial"]_vars

(* Between calls the records say what the actuator does: an unfinished     *)
(* record is the active drive's, and the active manual drive has a record  *)
(* to receive its result (finish never fails with ResultUnavailable).      *)
(* automatic_inflight is set exactly while an automatic drive is active,   *)
(* and no relock is owed while one runs: after a restart the flag alone    *)
(* tells whether a relock was cut short.                                   *)
RecordsMatchDrive ==
  Quiet =>
    /\ \A i \in 1..Len(ctl.state.operations) :
         LET o == ctl.state.operations[i] IN
         o.phase \in Pending =>
           Busy(ctl) /\ ~ctl.active.automatic /\ ctl.active.grant.id = o.id /\ ctl.active.seq = o.seq
    /\ Busy(ctl) /\ ~ctl.active.automatic =>
         \E i \in Recorded(ctl, ctl.active.grant.id, ctl.active.seq) :
           ctl.state.operations[i].phase \in {"Running", "Unknown"}
    /\ ctl.state.automatic_inflight <=> (Busy(ctl) /\ ctl.active.automatic)
    /\ ctl.active.target = "Lock" => ~ctl.state.pending_relock

(* An owed relock is never forgotten: between calls it has a deadline, or  *)
(* waits for a door that does not read closed.  It is owed only under a    *)
(* configuration that asks for it.                                         *)
RelockArmed ==
  Quiet /\ ctl.state.pending_relock =>
    /\ ctl.state.config.auto_relock # "Disabled" /\ ~ctl.state.config.hold_open
    /\ \/ ctl.relock_deadline # Never
       \/ ctl.state.config.auto_relock = "AfterClose" /\ ctl.sample.door # "Closed"

(* What a running controller believes is what the store holds.             *)
CacheIsDurable == ctl.mode = "ready" => disk = ctl.state

(* Whatever a sequence of calls and failed commits leaves in the store,    *)
(* open accepts it: validate never locks a device out.                     *)
StoreReopens == disk.format = 1 => ValidSnapshot(disk)

(* The manual drive of record o may not go on: its time is up, or what the *)
(* sensors read now forbids it.                                            *)
MustStop(o) ==
  /\ ctl.mode = "ready" /\ Busy(ctl) /\ ~ctl.active.automatic
  /\ ctl.active.grant.id = o.id /\ ctl.active.seq = o.seq
  /\ ~ValidSample(world) \/ Unsafe([ctl EXCEPT !.sample = world])

(* A definite result, once durable, is never changed while its record is   *)
(* kept: not by a late or repeated callback, nor by a restart.  And a      *)
(* callback that comes when the drive must be stopped does not complete    *)
(* the operation: the stop, made by the observation inside                 *)
(* actuator_finished, decides its result.                                  *)
ResultsAreFinal ==
  [][\A i \in 1..Len(disk.operations), j \in 1..Len(disk'.operations) :
       LET o == disk.operations[i]  n == disk'.operations[j] IN
       disk'.epoch = disk.epoch /\ o.id = n.id /\ o.seq = n.seq =>
         /\ o.phase \in {"Completed", "Failed"} => n = o
         /\ MustStop(o) => n.phase # "Completed"]_vars

(* Nothing durable runs backwards: the generation and the epoch never      *)
(* fall, and within an epoch no watermark, use, revocation, binding or     *)
(* owner is lost.  Grants of an epoch left behind stay behind.             *)
DomainMonotone ==
  [][disk.format = 1 =>
       /\ disk'.format = 1
       /\ disk'.generation >= disk.generation
       /\ disk'.epoch >= disk.epoch
       /\ disk'.epoch = disk.epoch =>
            /\ disk.owner # None => disk'.owner = disk.owner
            /\ disk.revoked \subseteq disk'.revoked
            /\ disk.policy_version <= disk'.policy_version
            /\ \A c \in CredentialIds :
                 /\ disk'.watermarks[c] >= disk.watermarks[c]
                 /\ disk'.uses[c] >= disk.uses[c]
                 /\ disk.bindings[c] # None => disk'.bindings[c] = disk.bindings[c]]_vars

(* The durable replay state belongs to the current owner and epoch: a      *)
(* grant of an earlier domain keeps no slot after a reset, a replaced      *)
(* issuer or a new epoch.                                                  *)
DomainIsolated ==
  \A c \in CredentialIds :
    /\ disk.bindings[c] # None =>
         disk.bindings[c].issuer = disk.owner /\ disk.bindings[c].epoch = disk.epoch
    /\ disk.watermarks[c] # 0 => disk.bindings[c] # None

(* A device without an owner moves nothing and owes nothing.               *)
UnownedIsStill ==
  ctl.mode = "ready" /\ ctl.state.owner = None =>
    ~Busy(ctl) /\ call = NoCall /\ ~ctl.state.pending_relock /\ ctl.state.operations = <<>>

(* Ownership changes hands only with someone at the device: an unowned one *)
(* is claimed in an open pairing window, an owned one changes or loses its *)
(* owner only on the command confirmed there, unexpired, and a controller  *)
(* that goes on has used the window or the confirmation up.                *)
OwnerNeedsPresence ==
  [][disk.format = 1 /\ disk'.owner # disk.owner =>
       /\ \/ disk.owner = None /\ ctl.pairing > 0
          \/ LET c == ctl.confirmation.digest IN
             /\ disk.owner # None /\ ctl.confirmation.left > 0
             /\ IF disk'.owner = None THEN c.op = "FactoryReset"
                ELSE c.op = "ReplaceIssuer" /\ c.arg.issuer = disk'.owner
       /\ ctl'.mode = "ready" => ctl'.pairing = 0 /\ ctl'.confirmation = NoConfirmation]_vars

(* All of the controller, its store and its faults is an actuator that     *)
(* performs each operation at most once, one at a time, and never moves    *)
(* otherwise (dispatch, prepare_actuation, start_action, poll, poison).    *)
Bolt == INSTANCE OnceOnlyActuator WITH performed <- drives, moving <- motor
PerformsOnce == Bolt!Spec
=============================================================================
