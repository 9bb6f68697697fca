--------------------------- MODULE DeviceHardware ---------------------------
(***************************************************************************)
(* The DeviceController value and the methods of it that watch the sensors *)
(* and account for drives (crates/openlock-core/src/device.rs): operators  *)
(* from a controller record to the next.  Field state is the snapshot the  *)
(* method is about to commit.                                              *)
(*                                                                         *)
(* A monotonic instant is kept as the ticks left until it (0 once it is    *)
(* past), or the ticks since it for door_open_since.                       *)
(***************************************************************************)
EXTENDS OpenLockData

Targets == {"Lock", "Unlock"}
NoId == <<0, 0>>
NoActive ==
  [id |-> NoId, grant |-> None, seq |-> 0, target |-> "None", left |-> 0, automatic |-> FALSE]
NoConfirmation == [peer |-> None, digest |-> None, left |-> 0]

(* The controller before a constructor succeeds.                           *)
Off ==
  [mode |-> "off", state |-> Absent, sample |-> Sanitized, last_idle_bolt |-> "None",
   fault |-> "None", active |-> NoActive, relock_deadline |-> Never,
   door_open_for |-> Never, pairing |-> 0, pairing_failures |-> 0,
   confirmation |-> NoConfirmation]

ActuationIds == Nat \X Nat
Active ==
  [id : ActuationIds, grant : Grants \cup {None}, seq : Nat, target : Targets \cup {"None"},
   left : Nat, automatic : BOOLEAN]
Faults == {"None", "SensorConflict", "Timeout", "DoorAjar", "Jammed", "Driver"}
Controller ==
  [mode : {"off", "ready", "poisoned"}, state : Snapshot, sample : Sample,
   last_idle_bolt : {"None", "Locked", "Unlocked"}, fault : Faults, active : Active,
   relock_deadline : Nat \cup {Never}, door_open_for : Nat \cup {Never},
   pairing : Nat, pairing_failures : Nat,
   confirmation : [peer : Peers \cup {None}, digest : Commands \cup {None}, left : Nat]]

-----------------------------------------------------------------------------
(* Operators on the controller record: the private methods that edit the   *)
(* next snapshot (field state) and the volatile fields.                    *)

Busy(r) == r.active.target # "None"
KnownBolt(w) == IF w.bolt \in {"Locked", "Unlocked"} THEN w.bolt ELSE "None"

Audit(r) == [r EXCEPT !.state.next_cursor = @ + 1, !.state.conflict_last = FALSE]
AuditConflict(r) ==
  IF r.state.conflict_last THEN r
  ELSE [r EXCEPT !.state.next_cursor = @ + 1, !.state.conflict_last = TRUE]

SetPhase(ops, id, seq, phase) ==
  [i \in 1..Len(ops) |->
     IF ops[i].id = id /\ ops[i].seq = seq THEN [ops[i] EXCEPT !.phase = phase] ELSE ops[i]]

(* finish: the result of an operation and its audit event.                 *)
Finished(r, g, seq, phase) ==
  Audit([r EXCEPT !.state.operations = SetPhase(@, g.id, seq, phase)])

(* The result of drive a: the record of a manual one, an event of either.  *)
DriveEnded(r, a, phase) ==
  IF a.automatic THEN Audit(r) ELSE Finished(r, a.grant, a.seq, phase)

RelockCleared(r) == [r EXCEPT !.state.pending_relock = FALSE, !.relock_deadline = Never]

RelockScheduled(r) ==
  LET c == r.state.config IN
  IF c.hold_open \/ c.auto_relock = "Disabled" THEN r
  ELSE [r EXCEPT !.state.pending_relock = TRUE,
                 !.relock_deadline =
                    IF c.auto_relock = "Delay" \/ r.sample.door = "Closed"
                    THEN c.delay ELSE Never]

-----------------------------------------------------------------------------
(* observe_hardware: the first thing nearly every call does.  The result   *)
(* is the controller after it, the snapshots it committed, and whether the *)
(* call goes on with SensorConflict.  "stops" is what stop_action returns, *)
(* should the observation call it.                                         *)

Stuck(r) == [r EXCEPT !.mode = "poisoned"]

SensorFault(r, stops) ==
  LET bad == [r EXCEPT !.fault = "SensorConflict", !.sample = Sanitized]
      rest == [bad EXCEPT !.active = NoActive, !.state.automatic_inflight = FALSE]
      gone == IF r.active.target = "Lock" THEN RelockCleared(rest) ELSE rest
  IN IF ~Busy(r) THEN AuditConflict(bad)
     ELSE IF ~stops THEN Stuck(bad)
     ELSE AuditConflict(DriveEnded(gone, r.active, "Failed"))

(* Mutant: a drive has no timeout.                                         *)
UnsafeUntimed(r) == r.active.target = "Lock" /\ ~CanLock(r.sample)

Unsafe(r) ==
  /\ Busy(r)
  /\ r.active.left = 0 \/ (r.active.target = "Lock" /\ ~CanLock(r.sample))

UnsafeFault(r) ==
  IF r.active.target = "Lock" /\ ~CanLock(r.sample)
  THEN IF r.sample.door = "Open" THEN "DoorAjar" ELSE "SensorConflict"
  ELSE "Timeout"

(* stop_unsafe_action: a due deadline or a door that left Closed.          *)
UnsafeStopped(r, stops) ==
  LET rest == [r EXCEPT !.active = NoActive, !.last_idle_bolt = KnownBolt(r.sample),
                        !.fault = UnsafeFault(r), !.state.automatic_inflight = FALSE]
      gone == IF r.active.target = "Lock" \/ r.sample.bolt = "Locked"
              THEN RelockCleared(rest) ELSE rest
  IN IF ~Unsafe(r) THEN r
     ELSE IF ~stops THEN Stuck(r)
     ELSE DriveEnded(gone, r.active, "Failed")

(* Mutant: a closing door does not start the relock delay again.           *)
DoorNotedUnarmed(r, old) ==
  IF r.sample.door = old.door THEN r
  ELSE [r EXCEPT !.door_open_for = IF r.sample.door = "Open" THEN 0 ELSE Never,
                 !.relock_deadline = IF r.sample.door = "Closed" THEN @ ELSE Never]

(* The door timers follow a changed door reading.                          *)
DoorNoted(r, old) ==
  IF r.sample.door = old.door THEN r
  ELSE [r EXCEPT
         !.fault = IF r.sample.door = "Closed" /\ @ = "DoorAjar" THEN "None" ELSE @,
         !.door_open_for = IF r.sample.door = "Open" THEN 0 ELSE Never,
         !.relock_deadline =
            IF r.state.pending_relock /\ r.state.config.auto_relock = "AfterClose"
            THEN IF r.sample.door = "Closed" THEN r.state.config.delay ELSE Never
            ELSE @]

(* The part of observe_hardware after the interlock: r has the new sample, *)
(* before is the controller the call found.                                *)
Noted(r, before) ==
  LET was_idle == ~Busy(before)
      bolt == r.sample.bolt
      seen == IF was_idle /\ bolt \in {"Locked", "Unlocked"}
              THEN [r EXCEPT !.last_idle_bolt = bolt] ELSE r
      confirmed == bolt = "Locked" /\ r.active.target # "Unlock"
      logged == IF r.sample # before.sample THEN Audit(seen) ELSE seen
      cleared == IF confirmed THEN RelockCleared(logged) ELSE logged
      doored == DoorNoted(cleared, before.sample)
  IN IF r.sample = before.sample /\ ~(confirmed /\ r.state.pending_relock) THEN seen
     ELSE IF was_idle /\ before.last_idle_bolt = "Locked" /\ bolt = "Unlocked"
     THEN RelockScheduled(doored)
     ELSE doored

Observed(r, w, stops) ==
  IF ~ValidSample(w)
  THEN LET f == SensorFault(r, stops) IN [ctl |-> f, writes |-> {f.state}, conflict |-> TRUE]
  ELSE LET safe == UnsafeStopped([r EXCEPT !.sample = w], stops)
           note == IF safe.mode = "poisoned" THEN safe ELSE Noted(safe, r)
       IN [ctl |-> note, writes |-> {safe.state, note.state}, conflict |-> FALSE]

(* A poisoned controller reads nothing but the drive it may have to stop.  *)
Closed(a) == [Off EXCEPT !.mode = "poisoned", !.active = a]

-----------------------------------------------------------------------------
(* What a constructor makes of the stored snapshot s.  Results lost with   *)
(* the RAM become Unknown and are never driven again; a relock still owed  *)
(* is due at once.                                                         *)

(* Mutant: an operation cut short before its drive started stays Accepted. *)
InterruptedRunning(ops) ==
  [i \in 1..Len(ops) |->
     IF ops[i].phase = "Running" THEN [ops[i] EXCEPT !.phase = "Unknown"] ELSE ops[i]]

(* Mutant: recovery rewrites a failed result too.                          *)
InterruptedFailed(ops) ==
  [i \in 1..Len(ops) |->
     IF ops[i].phase # "Completed" THEN [ops[i] EXCEPT !.phase = "Unknown"] ELSE ops[i]]

Interrupted(ops) ==
  [i \in 1..Len(ops) |->
     IF ops[i].phase \in Pending THEN [ops[i] EXCEPT !.phase = "Unknown"] ELSE ops[i]]

Recovered(s, w) ==
  LET t == [s EXCEPT !.automatic_inflight = FALSE,
                     !.pending_relock = @ /\ w.bolt # "Locked",
                     !.operations = Interrupted(@)]
      r == [Off EXCEPT !.mode = "ready", !.state = t, !.sample = w,
                       !.last_idle_bolt = KnownBolt(w),
                       !.fault = IF s.automatic_inflight THEN "Driver" ELSE "None",
                       !.relock_deadline = IF t.pending_relock THEN 0 ELSE Never,
                       !.door_open_for = IF w.door = "Open" THEN 0 ELSE Never]
  IN IF s.automatic_inflight THEN Audit(r) ELSE r

(* reconcile_boot: what the bootloader says became of a trial image.       *)
Reconciled(r) ==
  {r} \cup {Audit([r EXCEPT !.state.firmware = p]) :
              p \in IF r.state.firmware = "Trial" THEN {"Confirmed", "Failed"} ELSE {}}

(* migrate_legacy: a new store from the snapshot of an older device.       *)
Migrated(l) ==
  [Factory EXCEPT !.owner = l.issuer, !.epoch = l.epoch, !.generation = 1,
                  !.policy_version = l.policy_version, !.revoked = l.revoked,
                  !.uses = l.usage]

-----------------------------------------------------------------------------
(* The last check before start_action, and the identity of the drive.     *)

(* Mutant: the sensors are trusted as they were at acceptance.             *)
InterlockUnchecked(w, target) == w \in Sample /\ target \in Targets

Interlock(w, target) ==
  /\ ValidSample(w)
  /\ target = "Lock" => w.bolt = "Locked" \/ CanLock(w)
  /\ target = "Unlock" => PrivacyAllows(w)

NextActuationId(s) == <<s.generation, s.next_cursor - 1>>

-----------------------------------------------------------------------------
(* actuator_finished: the result of a drive.                               *)

Results == {"Completed", "Jammed", "SensorConflict", "Failed"}

(* The result of drive a under the fresh sample of r.                      *)
Settled(r, a, result) ==
  LET contrary == result = "Completed" /\ KnownBolt(r.sample) \notin {"None", Expected(a.target)}
      phase == IF result = "Completed" /\ ~contrary THEN "Completed" ELSE "Failed"
      fault == CASE contrary -> "SensorConflict"
                 [] result = "Completed" /\ ~contrary -> "None"
                 [] result = "Failed" -> "Driver"
                 [] OTHER -> result
      rest == [r EXCEPT !.active = NoActive, !.last_idle_bolt = KnownBolt(r.sample),
                        !.fault = fault]
      owed == IF phase = "Completed" /\ a.target = "Unlock" THEN RelockScheduled(rest) ELSE rest
      kept == IF a.target = "Lock" \/ r.sample.bolt = "Locked"
              THEN RelockCleared([owed EXCEPT !.state.automatic_inflight = FALSE]) ELSE owed
  IN [ctl |-> DriveEnded(kept, a, phase), writes |-> {kept.state}]

-----------------------------------------------------------------------------
(* poll: firmware trial, door-ajar alarm, then a relock that is due.  On a *)
(* sensor conflict it returns after the observation (HardwareChanged).     *)

Ajar(r) ==
  LET limit == r.state.config.door_ajar IN
  IF limit > 0 /\ r.door_open_for >= limit /\ r.fault # "DoorAjar"
  THEN Audit([r EXCEPT !.fault = "DoorAjar"]) ELSE r

RelockDue(r) ==
  /\ ~Busy(r)
  /\ r.state.firmware # "Trial"
  /\ r.state.pending_relock
  /\ r.relock_deadline = 0
  /\ CanLock(r.sample)

(* Mutant: the intent is left set until the drive has ended.               *)
RelockClaimedLater(r) ==
  Audit([r EXCEPT !.state.automatic_inflight = TRUE, !.relock_deadline = Never])

(* The intent is cleared durably before the drive: a reboot in between     *)
(* finds it in flight, not pending.                                        *)
RelockClaimed(r) ==
  Audit([r EXCEPT !.state.pending_relock = FALSE, !.state.automatic_inflight = TRUE,
                  !.relock_deadline = Never])
=============================================================================
