----------------------- MODULE DeviceControllerProofs -----------------------
(***************************************************************************)
(* Theorems about DeviceController, for every product, every set of        *)
(* credentials and commands, and every behaviour of sensors, storage and   *)
(* actuator that the model allows.                                         *)
(*                                                                         *)
(* The argument: every drive lies behind the store, in the order of epochs *)
(* and watermarks and in that of generations and audit cursors, and what   *)
(* the store holds only ever gets later.  A new drive is strictly ahead of *)
(* the old ones in both orders, so it repeats neither an operation nor an  *)
(* id.                                                                     *)
(***************************************************************************)
EXTENDS DeviceController, DeviceOperatorProofs

-----------------------------------------------------------------------------
(* The inductive invariant.                                                *)

(* Drive d lies behind snapshot s.                                         *)
Behind(d, s) ==
  /\ \/ d.id[1] < s.generation
     \/ d.id[1] = s.generation /\ d.id[2] < s.next_cursor
  /\ d.grant # None =>
       \/ d.grant.epoch < s.epoch
       \/ d.grant.epoch = s.epoch /\ d.seq <= s.watermarks[d.grant.id]

(* Two drives of one operation.                                            *)
SameOperation(g, n, h, m) == g.id = h.id /\ g.epoch = h.epoch /\ n = m

(* Motor m is at rest, or performs drive a.                                *)
Moves(a, m) ==
  \/ m = Idle
  \/ /\ m \in [id : ActuationIds, target : Targets]
     /\ a.id = m.id /\ a.target = m.target

MotorInv ==
  /\ motor = Idle \/ motor \in [id : ActuationIds, target : Targets]
  /\ ctl.mode # "off" => Moves(ctl.active, motor)

(* The store before provision holds nothing, and no controller runs on it. *)
StoreInv ==
  /\ disk.format = 0 => disk = Absent
  /\ ctl.mode # "off" => disk.format = 1
  /\ Unbound(disk)

DrivesInv == \A d \in drives : Behind(d, disk)

(* Between the commitment to a drive and its start the controller is idle, *)
(* the next id is new and the operation has not been driven.               *)
CallInv ==
  call # NoCall =>
    /\ ctl.mode = "ready" /\ ~Busy(ctl)
    /\ call.target \in Targets
    /\ ctl.state.firmware # "Trial"
    /\ \A d \in drives : d.id # NextActuationId(ctl.state)
    /\ call.grant # None =>
         /\ call.grant.epoch = ctl.state.epoch
         /\ call.seq <= ctl.state.watermarks[call.grant.id]
         /\ \A d \in drives :
              d.grant # None => ~SameOperation(d.grant, d.seq, call.grant, call.seq)

IInv ==
  /\ TypeOK
  /\ CacheIsDurable
  /\ MotorInv
  /\ StoreInv
  /\ DrivesInv
  /\ CallInv
  /\ OneDrivePerOperation

(* What every step does: it keeps the invariant, and the store it leaves   *)
(* is no older.                                                            *)
Forward == IInv' /\ disk' \in Written(disk)

-----------------------------------------------------------------------------
(* How the parts of a step are put together.                               *)

(* A drive behind a snapshot is behind every later one.                    *)
LEMMA BehindLater ==
  ASSUME NEW d \in DriveRecord, NEW s \in Snapshot, Behind(d, s), NEW t \in Written(s)
  PROVE  Behind(d, t)
<1>1. t \in Snapshot /\ Later(s, t)
  BY DEF Written
<1>2. d.id[1] \in Nat /\ d.id[2] \in Nat /\ d.seq \in Nat
  BY DEF DriveRecord, ActuationIds
<1>3. d.grant # None => d.grant.epoch \in Nat /\ d.grant.id \in CredentialIds
  BY GrantsAssumption DEF DriveRecord, Grant
<1>4. \/ d.id[1] < t.generation
      \/ d.id[1] = t.generation /\ d.id[2] < t.next_cursor
  BY <1>1, <1>2, OrderedFields, SMTT(30) DEF Later, Behind
<1>5. ASSUME d.grant # None
      PROVE  \/ d.grant.epoch < t.epoch
             \/ d.grant.epoch = t.epoch /\ d.seq <= t.watermarks[d.grant.id]
  BY <1>1, <1>2, <1>3, <1>5, OrderedFields, SMTT(30) DEF Later, Behind, Retains
<1> QED BY <1>4, <1>5 DEF Behind

(* No drive is under way after the step.                                   *)
LEMMA NoCallFits ==
  ASSUME call' = NoCall
  PROVE  call' \in Call /\ CallInv'
BY DEF NoCall, Call, CallInv

(* A step keeps the invariant when the store only gets later and the motor *)
(* moves for its controller.                                               *)
LEMMA StepKeeps ==
  ASSUME IInv, call' \in Call, CallInv', world' \in Sample, ctl' \in Controller,
         disk' \in Written(disk),
         ctl'.mode = "ready" => disk' = ctl'.state,
         ctl'.mode # "off" => disk'.format = 1,
         disk'.format = 0 => disk' = Absent,
         motor' = Idle \/ motor' \in [id : ActuationIds, target : Targets],
         ctl'.mode # "off" => Moves(ctl'.active, motor'),
         drives' \subseteq DriveRecord, \A d \in drives' : Behind(d, disk),
         OneDrivePerOperation'
  PROVE  Forward
<1>1. disk \in Snapshot /\ disk' \in Snapshot /\ Later(disk, disk')
  BY DEF IInv, TypeOK, Written
<1>2. TypeOK'
  <2>1. motor' \in [id : ActuationIds, target : Targets \cup {"None"}]
    BY SMTT(30) DEF Idle, NoId, ActuationIds
  <2> QED BY <1>1, <2>1 DEF TypeOK
<1>3. CacheIsDurable' /\ MotorInv'
  BY DEF CacheIsDurable, MotorInv
<1>4. StoreInv'
  BY <1>1 DEF IInv, StoreInv, Later
<1>5. DrivesInv'
  BY <1>1, BehindLater DEF DrivesInv
<1> QED BY <1>2, <1>3, <1>4, <1>5 DEF IInv, Forward

(* A running controller holds what the store holds.                        *)
LEMMA Running ==
  ASSUME IInv, ctl.mode = "ready"
  PROVE  /\ disk = ctl.state /\ disk \in Snapshot /\ disk.format = 1
         /\ ctl \in Controller /\ Moves(ctl.active, motor)
         /\ disk \in Written(disk)
<1>1. disk \in Snapshot /\ ctl \in Controller /\ disk = ctl.state
  BY DEF IInv, TypeOK, CacheIsDurable
<1>2. disk.format = 1 /\ Moves(ctl.active, motor)
  BY DEF IInv, StoreInv, MotorInv
<1>3. disk \in Written(disk)
  BY <1>1, LeadsReflexive DEF Leads
<1> QED BY <1>1, <1>2, <1>3

(* A poisoned controller is well-typed, whatever drive it keeps.           *)
LEMMA ClosedType ==
  ASSUME NEW a \in Active
  PROVE  Closed(a) \in Controller /\ Closed(a).mode = "poisoned" /\ Closed(a).active = a
BY OffType, Zenon DEF Closed, Controller

(* A commit that failed keeps the invariant, whatever it left in the store.*)
LEMMA PoisonKeeps ==
  ASSUME IInv, ctl.mode = "ready",
         NEW r \in Controller, NEW m, Moves(r.active, m),
         NEW writes \in SUBSET Written(disk), Poisons(r, m, writes),
         call' = NoCall, world' = world,
         drives' \subseteq DriveRecord, \A d \in drives' : Behind(d, disk),
         OneDrivePerOperation'
  PROVE  Forward
<1>1. PICK a \in {NoActive, r.active} :
        /\ ctl' = Closed(a)
        /\ motor' = IF a = r.active THEN m ELSE Idle
        /\ disk' \in {disk} \cup writes
  BY DEF Poisons
<1>2. a \in Active
  BY NoActiveType DEF Controller
<1>3. ctl' \in Controller /\ ctl'.mode = "poisoned" /\ ctl'.active = a
  BY <1>1, <1>2, ClosedType
<1>4. disk' \in Written(disk) /\ disk'.format = 1
  BY <1>1, Running DEF Written, Later
<1>5. Moves(ctl'.active, motor')
  BY <1>1, <1>3 DEF Moves
<1>6. motor' = Idle \/ motor' \in [id : ActuationIds, target : Targets]
  BY <1>5 DEF Moves
<1>7. world' \in Sample
  BY DEF IInv, TypeOK
<1> QED BY <1>3, <1>4, <1>5, <1>6, <1>7, NoCallFits, StepKeeps, SMTT(30)

(* So does a call that returns.                                            *)
LEMMA ReturnKeeps ==
  ASSUME IInv, ctl.mode = "ready",
         NEW r \in Controller, r.mode = "ready", r.state \in Written(disk),
         NEW m, Moves(r.active, m),
         NEW writes \in SUBSET Written(disk), Returns(r, m, writes),
         call' = NoCall, world' = world,
         drives' \subseteq DriveRecord, \A d \in drives' : Behind(d, disk),
         OneDrivePerOperation'
  PROVE  Forward
<1>1. CASE Poisons(r, m, writes \cup {r.state})
  <2>1. writes \cup {r.state} \in SUBSET Written(disk)
    OBVIOUS
  <2> QED BY <1>1, <2>1, PoisonKeeps
<1>2. CASE ctl' = r /\ disk' = r.state /\ motor' = m
  <2>1. disk' \in Written(disk) /\ disk'.format = 1
    BY <1>2, Running DEF Written, Later
  <2>2. motor' = Idle \/ motor' \in [id : ActuationIds, target : Targets]
    BY <1>2 DEF Moves
  <2>3. world' \in Sample
    BY DEF IInv, TypeOK
  <2> QED BY <1>2, <2>1, <2>2, <2>3, NoCallFits, StepKeeps, SMTT(30)
<1> QED BY <1>1, <1>2 DEF Returns

(* Nothing is driven between calls: what the drives satisfy stays.         *)
LEMMA DrivesKept ==
  ASSUME IInv, drives' = drives
  PROVE  /\ drives' \subseteq DriveRecord /\ \A d \in drives' : Behind(d, disk)
         /\ OneDrivePerOperation'
BY DEF IInv, TypeOK, DrivesInv, OneDrivePerOperation

(* The observation of a call leads on from the controller, and a motor it  *)
(* did not stop is still that of the controller.                           *)
LEMMA Observes ==
  ASSUME IInv, Ready, NEW o \in Observations
  PROVE  /\ o.ctl \in Controller /\ o.ctl.mode = "ready"
         /\ o.ctl.state \in Written(disk)
         /\ o.writes \in SUBSET Written(disk)
         /\ Moves(o.ctl.active, Halted(o.ctl))
         /\ SameDrive(ctl.active, o.ctl.active)
<1>1. ctl.mode = "ready" /\ ctl \in Controller /\ world \in Sample /\ ctl.state = disk
        /\ Moves(ctl.active, motor)
  BY Running DEF Ready, IInv, TypeOK
<1>2. PICK stops \in BOOLEAN : o = Observed(ctl, world, stops)
  BY DEF Observations
<1>3. o.ctl.mode = "ready"
  BY DEF Observations
<1>4. Leads(ctl, o.ctl) /\ o.writes \subseteq Written(ctl.state)
  <2>1. ~StillOn(ctl, o.ctl)
    BY <1>3 DEF StillOn
  <2> QED BY <1>1, <1>2, <2>1, ObservedLeads
<1>5. Moves(o.ctl.active, Halted(o.ctl))
  <2>1. CASE Busy(ctl) /\ ~Busy(o.ctl)
    BY <2>1 DEF Halted, Moves
  <2>2. CASE ~(Busy(ctl) /\ ~Busy(o.ctl))
    <3>1. Halted(o.ctl) = motor
      BY <2>2 DEF Halted
    <3>2. ASSUME motor # Idle PROVE Moves(o.ctl.active, motor)
      <4>1. motor.target \in Targets /\ ctl.active.target = motor.target
              /\ ctl.active.id = motor.id /\ motor \in [id : ActuationIds, target : Targets]
        BY <1>1, <3>2 DEF Moves
      <4>2. Busy(ctl)
        BY <4>1 DEF Busy, Targets
      <4> QED BY <1>4, <2>2, <4>1, <4>2 DEF Moves, Leads, SameDrive, Busy
    <3> QED BY <3>1, <3>2 DEF Moves
  <2> QED BY <2>1, <2>2
<1> QED BY <1>1, <1>3, <1>4, <1>5 DEF Leads

(* What a call makes of its observation, keeping its drive, fits the store *)
(* and the motor.                                                          *)
LEMMA Continues ==
  ASSUME IInv, Ready, NEW o \in Observations, NEW r, Onward(o.ctl, r)
  PROVE  /\ r \in Controller /\ r.mode = "ready" /\ r.state \in Written(disk)
         /\ Moves(r.active, Halted(o.ctl))
<1>1. disk \in Snapshot
  BY DEF IInv, TypeOK
<1>2. /\ r \in Controller /\ r.mode = "ready" /\ r.active = o.ctl.active
      /\ r.state \in Written(o.ctl.state)
  BY Observes DEF Onward, Leads
<1>3. r.state \in Written(disk)
  BY <1>1, <1>2, Observes, LaterTransitive
<1> QED BY <1>2, <1>3, Observes

(* A call that returns what it made of its observation keeps the invariant.*)
LEMMA CallKeeps ==
  ASSUME IInv, Ready, NEW o \in Observations, NEW r, Onward(o.ctl, r),
         NEW writes \in SUBSET Written(disk), Returns(r, Halted(o.ctl), writes),
         UNCHANGED <<call, world, drives>>
  PROVE  Forward
<1>1. ctl.mode = "ready" /\ call' = NoCall /\ world' = world /\ drives' = drives
  BY DEF Ready
<1>2. /\ r \in Controller /\ r.mode = "ready" /\ r.state \in Written(disk)
      /\ Moves(r.active, Halted(o.ctl))
  BY Continues
<1> DEFINE m == Halted(o.ctl)
<1>3. Moves(r.active, m) /\ Returns(r, m, writes)
  BY <1>2
<1> HIDE DEF m
<1> QED BY <1>1, <1>2, <1>3, DrivesKept, ReturnKeeps

-----------------------------------------------------------------------------
(* The actions.                                                            *)

(* A call that only observes.                                              *)
LEMMA HardwareChangedKeeps == IInv /\ HardwareChanged => Forward
<1> SUFFICES ASSUME IInv, HardwareChanged PROVE Forward
  OBVIOUS
<1>1. Ready /\ UNCHANGED <<call, world, drives>>
  BY DEF HardwareChanged
<1>2. ASSUME NEW o \in Observations, Returns(o.ctl, Halted(o.ctl), o.writes)
      PROVE  Forward
  <2>1. Onward(o.ctl, o.ctl)
    BY <1>1, Observes, LeadsReflexive DEF Onward
  <2> QED BY <1>1, <1>2, <2>1, Observes, CallKeeps
<1>3. ASSUME Observed(ctl, world, FALSE).ctl.mode = "poisoned",
             ctl' = Closed(Observed(ctl, world, FALSE).ctl.active),
             UNCHANGED <<disk, motor>>
      PROVE  Forward
  <2> DEFINE o == Observed(ctl, world, FALSE)
  <2>1. ctl.mode = "ready" /\ call' = NoCall /\ world' = world /\ drives' = drives
    BY <1>1 DEF Ready
  <2>2. ctl \in Controller /\ world \in Sample /\ Moves(ctl.active, motor)
    BY <2>1, Running DEF IInv, TypeOK
  <2>3. o.ctl.active = ctl.active
    BY <1>3, <2>1, <2>2, ObservedLeads, Zenon DEF StillOn, Leads
  <2>4. ctl' \in Controller /\ ctl'.mode = "poisoned" /\ ctl'.active = ctl.active
    <3>1. ctl.active \in Active
      BY <2>2 DEF Controller
    <3> QED BY <1>3, <2>3, <3>1, ClosedType, Zenon
  <2>5. disk' \in Written(disk) /\ disk'.format = 1
    BY <1>3, <2>1, Running
  <2>6. Moves(ctl'.active, motor') /\ world' \in Sample
    BY <1>3, <2>1, <2>2, <2>4, Zenon
  <2>7. motor' = Idle \/ motor' \in [id : ActuationIds, target : Targets]
    BY <2>6 DEF Moves
  <2> QED BY <2>1, <2>4, <2>5, <2>6, <2>7, DrivesKept, NoCallFits, StepKeeps, SMTT(30)
<1> QED BY <1>2, <1>3, Zenon DEF HardwareChanged

(* open_stopped: the actuator is at rest and no drive is active.           *)
LEMMA OpenStoppedKeeps ==
  ASSUME IInv, NEW s \in Snapshot, s \in Written(disk), s.format = 1,
         NEW first \in SUBSET Written(disk), OpenStopped(s, first),
         \A t \in first : t.format = 1
  PROVE  Forward
<1> DEFINE rs == IF ValidSample(world) /\ ValidSnapshot(s)
                 THEN Reconciled(Recovered(s, world)) ELSE {}
<1>1. /\ ctl.mode = "off" /\ motor' = Idle /\ UNCHANGED <<call, world, drives>>
      /\ \/ \E r \in rs : ctl' = r /\ disk' = r.state
         \/ /\ disk' \in {disk} \cup first \cup {r.state : r \in rs}
            /\ UNCHANGED ctl
  BY DEF OpenStopped
<1>2. disk \in Snapshot /\ world \in Sample /\ ctl \in Controller /\ disk \in Written(disk)
  <2>1. disk \in Snapshot /\ world \in Sample /\ ctl \in Controller
    BY DEF IInv, TypeOK
  <2>2. SameDomain(disk, disk) /\ disk.next_cursor >= disk.next_cursor
    BY <2>1, OrderedFields, SMTT(30) DEF SameDomain
  <2> QED BY <2>1, <2>2, LaterKept
<1>3. call' = NoCall /\ world' \in Sample /\ drives' = drives
  BY <1>1, <1>2 DEF IInv, CallInv
<1>4. ASSUME NEW r \in rs
      PROVE  /\ r \in Controller /\ r.mode = "ready" /\ r.active = NoActive
             /\ r.state \in Written(disk) /\ r.state.format = 1
  <2> DEFINE q == Recovered(s, world)
  <2>1. /\ q \in Controller /\ q.mode = "ready" /\ q.active = NoActive
        /\ q.state \in Written(s)
    BY <1>2, RecoveredFacts
  <2>2. r \in Reconciled(q)
    OBVIOUS
  <2> HIDE DEF q
  <2>3. Leads(q, r) /\ r.active = NoActive
    BY <2>1, <2>2, ReconciledLeads
  <2>4. r.state \in Written(s)
    BY <2>1, <2>3, LaterTransitive DEF Leads
  <2>5. r.state.format = 1
    BY <2>4 DEF Written, Later
  <2> QED BY <1>2, <2>1, <2>3, <2>4, <2>5, LaterTransitive DEF Leads
<1> HIDE DEF rs
<1>5. CASE \E r \in rs : ctl' = r /\ disk' = r.state
  <2>1. PICK r \in rs : ctl' = r /\ disk' = r.state
    BY <1>5
  <2>2. Moves(ctl'.active, motor')
    BY <1>1 DEF Moves
  <2> QED BY <1>1, <1>3, <1>4, <2>1, <2>2, DrivesKept, NoCallFits, StepKeeps, SMTT(30)
<1>6. CASE UNCHANGED ctl /\ disk' \in {disk} \cup first \cup {r.state : r \in rs}
  <2>1. disk' \in Written(disk)
    BY <1>2, <1>4, <1>6
  <2>2. disk'.format = 0 => disk' = Absent
    BY <1>4, <1>6, SMTT(30) DEF IInv, StoreInv
  <2>3. ctl' \in Controller /\ ctl'.mode = "off"
    BY <1>1, <1>2, <1>6
  <2> QED BY <1>1, <1>3, <2>1, <2>2, <2>3, DrivesKept, NoCallFits, StepKeeps
<1> QED BY <1>1, <1>5, <1>6

(* An empty store is older than anything it is provisioned with.           *)
LEMMA AbsentOldest ==
  ASSUME NEW t \in Snapshot, t.bindings = Factory.bindings, t.next_cursor = 1
  PROVE  t \in Written(Absent)
<1>1. /\ Absent.format = 0 /\ Absent.owner = None /\ Absent.epoch = 0
      /\ Absent.generation = 0 /\ Absent.policy_version = 0 /\ Absent.revoked = {}
      /\ Absent.next_cursor = 1
      /\ \A c \in CredentialIds :
           Absent.uses[c] = 0 /\ Absent.watermarks[c] = 0 /\ Absent.bindings[c] = None
  BY DEF Absent, Factory
<1>2. Unbound(t)
  BY DEF Unbound, Factory
<1>3. Retains(Absent, t)
  BY <1>1, OrderedFields, SMTT(30) DEF Retains
<1>4. /\ t.epoch >= Absent.epoch
      /\ \/ t.generation > Absent.generation
         \/ t.generation = Absent.generation /\ t.next_cursor >= Absent.next_cursor
  BY <1>1, OrderedFields, SMTT(30)
<1>5. OneDomain(Absent, t)
  BY <1>1, SMTT(30) DEF OneDomain
<1> QED BY <1>1, <1>2, <1>3, <1>4, <1>5, SMTT(30) DEF Written, Later

(* The constructors.                                                       *)
LEMMA ConstructorsKeep ==
  IInv /\ (Provision \/ Open \/ \E l \in LegacyStates : MigrateLegacy(l)) => Forward
<1>1. ASSUME IInv, Provision PROVE Forward
  <2>1. disk = Absent /\ OpenStopped(Factory, {Factory})
    BY <1>1 DEF Provision, IInv, StoreInv
  <2>2. Factory.format = 1 /\ Factory.next_cursor = 1
    BY DEF Factory
  <2>3. Factory \in Snapshot /\ Factory \in Written(disk)
    BY <2>1, <2>2, FactoryType, AbsentOldest
  <2> QED BY <1>1, <2>1, <2>2, <2>3, OpenStoppedKeeps
<1>2. ASSUME IInv, NEW l \in LegacyStates, MigrateLegacy(l) PROVE Forward
  <2>1. disk = Absent /\ OpenStopped(Migrated(l), {Migrated(l)})
    BY <1>2 DEF MigrateLegacy, IInv, StoreInv
  <2>2. /\ Migrated(l).format = Factory.format /\ Migrated(l).bindings = Factory.bindings
        /\ Migrated(l).next_cursor = Factory.next_cursor
    BY FactoryType, Zenon DEF Migrated, Snapshot
  <2>3. Migrated(l) \in Snapshot
    BY LegacyAssumption, MigratedType
  <2>4. Factory.format = 1 /\ Factory.next_cursor = 1
    BY DEF Factory
  <2>5. Migrated(l) \in Written(disk)
    BY <2>1, <2>2, <2>3, <2>4, AbsentOldest
  <2> QED BY <1>2, <2>1, <2>2, <2>3, <2>4, <2>5, OpenStoppedKeeps
<1>3. ASSUME IInv, Open PROVE Forward
  <2>1. disk \in Snapshot /\ disk.format = 1 /\ OpenStopped(disk, {})
    BY <1>3 DEF Open, IInv, TypeOK
  <2>2. SameDomain(disk, disk) /\ disk.next_cursor >= disk.next_cursor
    BY <2>1, OrderedFields, SMTT(30) DEF SameDomain
  <2>3. disk \in Written(disk) /\ {} \in SUBSET Written(disk)
    BY <2>1, <2>2, LaterKept
  <2> QED BY <1>3, <2>1, <2>3, OpenStoppedKeeps
<1> QED BY <1>1, <1>2, <1>3

(* The commitment to a drive: the id it will have is new.                  *)
LEMMA CommitmentKeeps ==
  ASSUME IInv, Ready, NEW o \in Observations, NEW q, Onward(o.ctl, q),
         NEW r, Commits(q, r), ~Busy(q), q.state.firmware # "Trial",
         ctl' = r, disk' = r.state, motor' = Halted(o.ctl), UNCHANGED <<world, drives>>,
         call' \in Call, call'.target \in Targets,
         call'.grant # None =>
           /\ call'.grant.epoch = r.state.epoch
           /\ call'.seq <= r.state.watermarks[call'.grant.id]
           /\ \A d \in drives :
                d.grant # None => ~SameOperation(d.grant, d.seq, call'.grant, call'.seq)
  PROVE  Forward
<1>1. /\ r \in Controller /\ r.mode = "ready" /\ r.state \in Written(disk)
      /\ Moves(r.active, Halted(o.ctl)) /\ q.state \in Written(disk)
  <2>1. Onward(o.ctl, r)
    BY Observes, OnwardTransitive DEF Commits
  <2> QED BY <2>1, Continues
<1>2. ctl.mode = "ready" /\ world' \in Sample
  BY DEF Ready, IInv, TypeOK
<1>3. disk'.format = 1
  BY <1>1, <1>2, Running DEF Written, Later
<1>4. motor' = Idle \/ motor' \in [id : ActuationIds, target : Targets]
  BY <1>1 DEF Moves
<1>5. \A d \in drives' : d.id # NextActuationId(ctl'.state)
  <2> SUFFICES ASSUME NEW d \in drives PROVE d.id # NextActuationId(r.state)
    OBVIOUS
  <2>1. disk \in Snapshot /\ d \in DriveRecord
    BY DEF IInv, TypeOK
  <2>2. Behind(d, q.state)
    BY <1>1, <2>1, BehindLater DEF IInv, DrivesInv
  <2>3. /\ r.state.generation = q.state.generation
        /\ r.state.next_cursor = q.state.next_cursor + 1
        /\ q.state.generation \in Nat /\ q.state.next_cursor \in Nat
    BY <1>1, OrderedFields DEF Commits, Written
  <2>4. d.id[1] \in Nat /\ d.id[2] \in Nat
    BY <2>1 DEF DriveRecord, ActuationIds
  <2> QED BY <2>2, <2>3, <2>4, SMTT(30) DEF Behind, NextActuationId
<1>6. CallInv'
  <2>1. ctl'.mode = "ready" /\ ~Busy(ctl')
    BY <1>1 DEF Commits, Onward, Busy
  <2>2. ctl'.state.firmware # "Trial"
    BY DEF Commits
  <2> QED BY <1>5, <2>1, <2>2 DEF CallInv, Busy
<1>7. /\ ctl' \in Controller /\ disk' = ctl'.state /\ disk' \in Written(disk)
      /\ Moves(ctl'.active, motor')
  BY <1>1, Zenon
<1>8. disk'.format # 0
  BY <1>3
<1> QED BY <1>2, <1>3, <1>4, <1>6, <1>7, <1>8, DrivesKept, StepKeeps, ZenonT(40)

(* Requests that are answered, refused or claim the device.                *)
LEMMA AnswersKeep ==
  ASSUME IInv, NEW o \in Observations, NEW ctx, NEW c \in Commands,
         HandleAnswered(o, ctx, c) \/ HandleRefused(o, ctx, c) \/ HandleClaim(o, ctx, c)
  PROVE  Forward
<1>1. ASSUME HandleAnswered(o, ctx, c) PROVE Forward
  <2>1. Returns(o.ctl, Halted(o.ctl), o.writes)
    BY <1>1 DEF HandleAnswered
  <2>2. Ready /\ UNCHANGED <<call, world, drives>>
    BY <1>1 DEF HandleAnswered
  <2>3. Onward(o.ctl, o.ctl)
    BY <2>2, Observes, LeadsReflexive DEF Onward
  <2> QED BY <2>1, <2>2, <2>3, Observes, CallKeeps, Zenon
<1>2. ASSUME HandleRefused(o, ctx, c) PROVE Forward
  <2>1. Returns(Refused(o, ctx, c), Halted(o.ctl), o.writes)
    BY <1>2 DEF HandleRefused
  <2>2. Ready /\ UNCHANGED <<call, world, drives>>
    BY <1>2 DEF HandleRefused
  <2>3. Onward(o.ctl, Refused(o, ctx, c))
    BY <2>2, Observes, RefusedOnward, Zenon
  <2> QED BY <2>1, <2>2, <2>3, Observes, CallKeeps
<1>3. ASSUME HandleClaim(o, ctx, c) PROVE Forward
  <2>1. Claimable(o.ctl, ctx, c) /\ Returns(ClaimedBy(o.ctl, c), Halted(o.ctl), o.writes)
    BY <1>3 DEF HandleClaim
  <2>2. Ready /\ UNCHANGED <<call, world, drives>>
    BY <1>3 DEF HandleClaim
  <2>3. c.op = "Claim" /\ o.ctl.state.owner = None
    BY <2>1, Zenon DEF Claimable, PairingOpen
  <2>4. o.ctl \in Controller /\ Unbound(o.ctl.state)
    BY <2>2, Observes DEF IInv, StoreInv, Written, Later
  <2>5. Onward(o.ctl, ClaimedBy(o.ctl, c))
    BY <2>3, <2>4, ClaimedByOnward
  <2> QED BY <2>1, <2>2, <2>5, Observes, CallKeeps
<1> QED BY <1>1, <1>2, <1>3

(* What an acceptable command finds.                                       *)
LEMMA AcceptableFacts ==
  ASSUME NEW o, NEW ctx, NEW c \in Commands, Acceptable(o, ctx, c)
  PROVE  /\ c.op \in Mutations /\ c.op # "Claim" /\ Fresh(o.ctl, c)
         /\ Authorized(o.ctl, ctx, c) /\ Preflight(o.ctl, ctx, c)
BY DEF Acceptable

(* Requests that replace the authorization domain.                         *)
LEMMA DomainKeeps ==
  ASSUME IInv, NEW o \in Observations, NEW ctx, NEW c \in Commands, HandleDomain(o, ctx, c)
  PROVE  Forward
<1>1. /\ ClearsDomain(o.ctl, c)
      /\ Returns(DomainReplaced(o.ctl, c), Halted(o.ctl), o.writes)
  BY DEF HandleDomain
<1>2. Ready /\ UNCHANGED <<call, world, drives>>
  BY DEF HandleDomain
<1>3. Onward(o.ctl, DomainReplaced(o.ctl, c))
  BY <1>1, <1>2, Observes, DomainReplacedOnward
<1> QED BY <1>1, <1>2, <1>3, Observes, CallKeeps

(* Lock or unlock when the bolt is there already.                          *)
LEMMA NoChangeKeeps ==
  ASSUME IInv, NEW o \in Observations, NEW ctx, NEW c \in Commands, HandleNoChange(o, ctx, c)
  PROVE  Forward
<1>1. /\ Slots(o, ctx, c)
      /\ Returns(Finished(Accepted(o.ctl, c), c.grant, c.seq, "Completed"), Halted(o.ctl),
                 o.writes \cup {Accepted(o.ctl, c).state})
  BY DEF HandleNoChange
<1> DEFINE a == Accepted(o.ctl, c)
           f == Finished(a, c.grant, c.seq, "Completed")
<1>2. Ready /\ UNCHANGED <<call, world, drives>>
  BY DEF HandleNoChange
<1>3. o.ctl \in Controller /\ o.writes \in SUBSET Written(disk)
  BY <1>2, Observes, Zenon
<1>4. Onward(o.ctl, a)
  BY <1>1, <1>3, AcceptableFacts, AcceptedCommits DEF Slots, Commits
<1> HIDE DEF a
<1>5. a.state \in Written(disk) /\ a \in Controller
  BY <1>2, <1>4, Continues
<1>6. Onward(a, f)
  BY <1>5, FinishedLeads DEF Onward, Phases
<1> HIDE DEF f
<1>7. Onward(o.ctl, f)
  BY <1>3, <1>4, <1>6, OnwardTransitive, Zenon
<1>8. Returns(f, Halted(o.ctl), o.writes \cup {a.state})
  BY <1>1 DEF a, f
<1> QED BY <1>2, <1>3, <1>5, <1>7, <1>8, CallKeeps

(* An operation that is accepted has never been driven.                    *)
LEMMA NeverDriven ==
  ASSUME IInv, Ready, NEW o \in Observations, NEW ctx, NEW c \in Commands,
         Acceptable(o, ctx, c), NEW d \in drives, d.grant # None
  PROVE  ~SameOperation(d.grant, d.seq, c.grant, c.seq)
<1>1. o.ctl.state \in Written(disk) /\ disk \in Snapshot /\ d \in DriveRecord
  BY Observes DEF IInv, TypeOK
<1>2. Behind(d, o.ctl.state)
  BY <1>1, BehindLater DEF IInv, DrivesInv
<1>3. /\ c.grant.epoch = o.ctl.state.epoch
      /\ c.seq > o.ctl.state.watermarks[c.grant.id]
  BY DEF Acceptable, Authorized, Fresh
<1>4. o.ctl.state \in Snapshot /\ c.seq \in Nat /\ c.grant.id \in CredentialIds
  BY <1>1, CommandGrant DEF Acceptable, Written
<1>5. o.ctl.state.watermarks[c.grant.id] \in Nat /\ o.ctl.state.epoch \in Nat
  BY <1>4, OrderedFields
<1> SUFFICES ASSUME SameOperation(d.grant, d.seq, c.grant, c.seq) PROVE FALSE
  OBVIOUS
<1> DEFINE e == o.ctl.state.epoch
           w == o.ctl.state.watermarks[c.grant.id]
           n == c.seq
<1>6. e < e \/ n <= w
  BY <1>2, <1>3, Zenon DEF Behind, SameOperation
<1>7. e \in Nat /\ w \in Nat /\ n \in Nat /\ n > w
  BY <1>3, <1>4, <1>5, Zenon
<1> HIDE DEF e, w, n
<1> QED BY <1>6, <1>7

(* Lock or unlock that has to drive.                                       *)
LEMMA HandleDriveKeeps ==
  ASSUME IInv, NEW o \in Observations, NEW ctx, NEW c \in Commands, HandleDrive(o, ctx, c)
  PROVE  Forward
<1>1. /\ Slots(o, ctx, c) /\ c.op \in Targets
      /\ \/ /\ ctl' = Accepted(o.ctl, c) /\ disk' = Accepted(o.ctl, c).state
            /\ motor' = Halted(o.ctl)
            /\ call' = [kind |-> "manual", grant |-> c.grant, seq |-> c.seq, target |-> c.op]
         \/ /\ Poisons(Accepted(o.ctl, c), Halted(o.ctl),
                       o.writes \cup {Accepted(o.ctl, c).state})
            /\ UNCHANGED call
  BY ZenonT(40) DEF HandleDrive
<1> DEFINE a == Accepted(o.ctl, c)
<1>2. Ready /\ UNCHANGED <<world, drives>> /\ ctl.mode = "ready" /\ call = NoCall
  BY DEF HandleDrive, Ready
<1>3. o.ctl \in Controller /\ o.writes \in SUBSET Written(disk)
  BY <1>2, Observes
<1>4. Acceptable(o, ctx, c)
  BY <1>1, ZenonT(40) DEF Slots
<1>5. Commits(o.ctl, a) /\ a.state.watermarks[c.grant.id] = c.seq
  BY <1>3, <1>4, AcceptableFacts, AcceptedCommits
<1> HIDE DEF a
<1>6. /\ a \in Controller /\ a.mode = "ready" /\ a.state \in Written(disk)
      /\ Moves(a.active, Halted(o.ctl))
  BY <1>2, <1>5, Continues DEF Commits
<1>7. CASE Poisons(a, Halted(o.ctl), o.writes \cup {a.state}) /\ UNCHANGED call
  <2> DEFINE m == Halted(o.ctl)
             ws == o.writes \cup {a.state}
  <2>1. Moves(a.active, m) /\ ws \in SUBSET Written(disk) /\ Poisons(a, m, ws)
    BY <1>3, <1>6, <1>7, Zenon
  <2> HIDE DEF m, ws
  <2> QED BY <1>2, <1>6, <1>7, <2>1, DrivesKept, PoisonKeeps
<1>8. CASE /\ ctl' = a /\ disk' = a.state /\ motor' = Halted(o.ctl)
           /\ call' = [kind |-> "manual", grant |-> c.grant, seq |-> c.seq, target |-> c.op]
  <2>1. /\ c.grant \in Grants /\ c.seq \in Nat
    BY <1>4, AcceptableFacts, CommandGrant, Zenon
  <2>2. /\ call' \in Call /\ call'.target \in Targets
        /\ call'.grant = c.grant /\ call'.seq = c.seq
    BY <1>1, <1>8, <2>1 DEF Call
  <2>3. ~Busy(o.ctl) /\ o.ctl.state.firmware # "Trial"
    BY <1>1, <1>4, AcceptableFacts, Zenon DEF Preflight, Targets
  <2>4. c.grant.epoch = a.state.epoch
    BY <1>4, <1>5, AcceptableFacts, Zenon DEF Authorized, Commits
  <2>5. c.seq <= a.state.watermarks[c.grant.id]
    BY <1>5, <2>1, SMTT(30)
  <2>6. Onward(o.ctl, o.ctl)
    BY <1>2, <1>3, Observes, LeadsReflexive DEF Onward
  <2>7. \A d \in drives :
          d.grant # None => ~SameOperation(d.grant, d.seq, c.grant, c.seq)
    BY <1>2, <1>4, NeverDriven
  <2> QED BY <1>2, <1>5, <1>8, <2>2, <2>3, <2>4, <2>5, <2>6, <2>7, CommitmentKeeps
<1> QED BY <1>1, <1>7, <1>8 DEF a

(* The management commands.                                                *)
LEMMA ManagedKeeps ==
  ASSUME IInv, NEW o \in Observations, NEW ctx, NEW c \in Commands, HandleManaged(o, ctx, c)
  PROVE  Forward
<1>1. PICK ok \in Answers(c) :
        /\ c.op \in Managed /\ Slots(o, ctx, c)
        /\ Returns(Finished(Executed(Accepted(o.ctl, c), c, ok), c.grant, c.seq,
                            IF ok THEN "Completed" ELSE "Failed"),
                   Halted(o.ctl),
                   o.writes \cup {Accepted(o.ctl, c).state,
                                  Executed(Accepted(o.ctl, c), c, ok).state})
  BY Zenon DEF HandleManaged
<1> DEFINE a == Accepted(o.ctl, c)
           e == Executed(a, c, ok)
           p == IF ok THEN "Completed" ELSE "Failed"
           f == Finished(e, c.grant, c.seq, p)
<1>2. Ready /\ UNCHANGED <<call, world, drives>>
  BY DEF HandleManaged
<1>3. o.ctl \in Controller /\ o.writes \in SUBSET Written(disk)
  BY <1>2, Observes, Zenon
<1>4. Acceptable(o, ctx, c) /\ ~ClearsDomain(o.ctl, c)
  BY <1>1, ZenonT(40) DEF Slots
<1>5. Commits(o.ctl, a)
  BY <1>3, <1>4, AcceptableFacts, AcceptedCommits
<1>6. c.op = "ApplyPolicy" => c.arg.version >= a.state.policy_version
  <2> SUFFICES ASSUME c.op = "ApplyPolicy" PROVE c.arg.version >= a.state.policy_version
    BY Zenon
  <2> HIDE DEF a
  <2>1. PolicyApplies(o.ctl, c.arg) /\ c.arg \in Policy
    BY <1>4, CommandsAssumption DEF Acceptable, Preflight, WellFormed
  <2>2. o.ctl.state \in Snapshot
    BY <1>3 DEF Controller
  <2>3. c.arg.epoch = o.ctl.state.epoch
    <3>1. c.arg.epoch >= o.ctl.state.epoch /\ ~(c.arg.epoch > o.ctl.state.epoch)
      BY <1>4, <2>1, Zenon DEF ClearsDomain, PolicyApplies
    <3>2. c.arg.epoch \in Nat /\ o.ctl.state.epoch \in Nat
      BY <2>1, <2>2, OrderedFields DEF Policy
    <3> QED BY <3>1, <3>2
  <2>4. a.state.policy_version = o.ctl.state.policy_version
    BY <1>5 DEF Commits
  <2>5. /\ o.ctl.state.policy_version \in Nat /\ o.ctl.state.epoch \in Nat
        /\ c.arg.version \in Nat
    BY <2>1, <2>2, OrderedFields DEF Policy
  <2>6. c.arg.version > o.ctl.state.policy_version
    BY <2>1, <2>3, <2>5 DEF PolicyApplies
  <2> QED BY <2>4, <2>5, <2>6, SMTT(30)
<1> HIDE DEF a
<1>7. a \in Controller /\ a.state \in Written(disk)
  BY <1>2, <1>5, Continues, Zenon DEF Commits
<1>8. Onward(a, e)
  BY <1>1, <1>6, <1>7, ExecutedOnward, Zenon DEF Answers
<1> HIDE DEF e
<1>9. Onward(o.ctl, e)
  BY <1>3, <1>5, <1>8, OnwardTransitive DEF Commits
<1>10. e \in Controller /\ e.state \in Written(disk)
  BY <1>2, <1>9, Continues
<1>11. p \in Phases
  BY DEF Phases
<1> HIDE DEF p
<1>12. Onward(e, f)
  BY <1>10, <1>11, FinishedLeads DEF Onward
<1> HIDE DEF f
<1>13. Onward(o.ctl, f)
  BY <1>3, <1>9, <1>12, OnwardTransitive, Zenon
<1>14. Returns(f, Halted(o.ctl), o.writes \cup {a.state, e.state})
  BY <1>1 DEF a, e, p, f
<1>15. o.writes \cup {a.state, e.state} \in SUBSET Written(disk)
  BY <1>3, <1>7, <1>10
<1> QED BY <1>2, <1>13, <1>14, <1>15, CallKeeps

(* Every request.                                                          *)
LEMMA HandleKeeps ==
  ASSUME IInv, NEW o \in Observations, NEW ctx, NEW c \in Commands, Handle(o, ctx, c)
  PROVE  Forward
BY AnswersKeep, DomainKeeps, NoChangeKeeps, HandleDriveKeeps, ManagedKeeps DEF Handle

(* poll.                                                                   *)
LEMMA PollKeeps == IInv /\ Poll => Forward
<1> SUFFICES ASSUME IInv, Poll PROVE Forward
  OBVIOUS
<1> DEFINE Ends(o, b) ==
             LET r == Ajar(b)
                 c == RelockClaimed(r)
                 writes == o.writes \cup {b.state, r.state}
             IN \/ Returns(r, Halted(o.ctl), writes) /\ UNCHANGED call
                \/ /\ RelockDue(r)
                   /\ ctl' = c /\ disk' = c.state /\ motor' = Halted(o.ctl)
                   /\ call' = [kind |-> "automatic", grant |-> None, seq |-> 0,
                               target |-> "Lock"]
                \/ /\ Poisons(c, Halted(o.ctl), writes \cup {c.state})
                   /\ UNCHANGED call
<1>0. PICK o \in Observations : \E b \in Reconciled(o.ctl) : Ends(o, b)
  BY Zenon DEF Poll
<1>1. PICK b \in Reconciled(o.ctl) : Ends(o, b)
  BY <1>0, Zenon
<1> DEFINE r == Ajar(b)
           c == RelockClaimed(r)
           writes == o.writes \cup {b.state, r.state}
<1>2. Ready /\ UNCHANGED <<world, drives>> /\ ctl.mode = "ready" /\ call = NoCall
  BY DEF Poll, Ready
<1>3. o.ctl \in Controller /\ o.writes \in SUBSET Written(disk)
  BY <1>2, Observes
<1>4. Onward(o.ctl, b)
  BY <1>3, ReconciledLeads DEF Onward
<1>5. b \in Controller /\ b.state \in Written(disk)
  BY <1>2, <1>4, Continues
<1>6. Onward(o.ctl, r)
  BY <1>3, <1>4, <1>5, AjarOnward, OnwardTransitive
<1> HIDE DEF r
<1>7. r \in Controller /\ r.state \in Written(disk)
  BY <1>2, <1>6, Continues
<1>8. writes \in SUBSET Written(disk)
  BY <1>3, <1>5, <1>7
<1> HIDE DEF writes
<1>9. Commits(r, c)
  BY <1>7, RelockClaimedCommits
<1> HIDE DEF c
<1>10. CASE Returns(r, Halted(o.ctl), writes) /\ UNCHANGED call
  BY <1>2, <1>6, <1>8, <1>10, CallKeeps, Zenon
<1>11. CASE /\ RelockDue(r) /\ ctl' = c /\ disk' = c.state /\ motor' = Halted(o.ctl)
            /\ call' = [kind |-> "automatic", grant |-> None, seq |-> 0, target |-> "Lock"]
  <2>1. call' \in Call /\ call'.target \in Targets /\ call'.grant = None
    BY <1>11 DEF Call, Targets
  <2>2. ~Busy(r) /\ r.state.firmware # "Trial"
    BY <1>11 DEF RelockDue
  <2> QED BY <1>2, <1>6, <1>9, <1>11, <2>1, <2>2, CommitmentKeeps
<1>12. CASE Poisons(c, Halted(o.ctl), writes \cup {c.state}) /\ UNCHANGED call
  <2> DEFINE m == Halted(o.ctl)
             ws == writes \cup {c.state}
  <2>1. Onward(o.ctl, c)
    BY <1>3, <1>6, <1>9, OnwardTransitive DEF Commits
  <2>2. /\ c \in Controller /\ c.state \in Written(disk)
        /\ Moves(c.active, m) /\ Poisons(c, m, ws)
    BY <1>2, <1>12, <2>1, Continues
  <2>3. ws \in SUBSET Written(disk)
    BY <1>8, <2>2
  <2> HIDE DEF m, ws
  <2> QED BY <1>2, <1>12, <2>2, <2>3, DrivesKept, PoisonKeeps
<1> QED BY <1>1, <1>10, <1>11, <1>12, Zenon DEF r, c, writes

(* A drive that ends before it starts keeps the controller's drive.        *)
LEMMA CallEndedOnward ==
  ASSUME NEW r \in Controller, NEW phase \in Phases
  PROVE  Onward(r, CallEnded(r, phase))
<1> DEFINE q == [r EXCEPT !.state.automatic_inflight = FALSE]
<1>1. Onward(r, q)
  BY InflightCalm, CalmOnward, Zenon
<1> HIDE DEF q
<1>2. Onward(r, Audit(q))
  BY <1>1, AuditedOnward
<1>3. Onward(r, Finished(r, call.grant, call.seq, phase))
  BY FinishedLeads DEF Onward
<1> QED BY <1>2, <1>3 DEF CallEnded, q

(* Nothing moves between the commitment and the start.                     *)
LEMMA CallIdle ==
  ASSUME IInv, InCall
  PROVE  /\ motor = Idle /\ ~Busy(ctl) /\ ctl.mode = "ready"
         /\ call \in Call /\ call.target \in Targets /\ world \in Sample
<1>1. ctl.mode = "ready" /\ ~Busy(ctl) /\ call.target \in Targets
  BY DEF InCall, IInv, CallInv
<1>2. Moves(ctl.active, motor)
  BY <1>1, Running
<1> QED BY <1>1, <1>2 DEF Moves, Busy, Targets, IInv, TypeOK

(* The drive is refused, or found needless.                                *)
LEMMA NotDrivenKeeps == IInv /\ (DriveRefused \/ DriveNeedless) => Forward
<1>1. ASSUME IInv, InCall, NEW r \in Controller, Onward(ctl, r),
             NEW phase \in Phases, Returns(CallEnded(r, phase), motor, {}),
             call' = NoCall, UNCHANGED <<world, drives>>
      PROVE  Forward
  <2> DEFINE e == CallEnded(r, phase)
  <2>1. /\ ctl \in Controller /\ disk = ctl.state /\ ctl.mode = "ready"
        /\ motor = Idle
    BY <1>1, CallIdle, Running
  <2>2. Onward(ctl, e)
    BY <1>1, <2>1, CallEndedOnward, OnwardTransitive
  <2> HIDE DEF e
  <2>3. /\ e \in Controller /\ e.mode = "ready" /\ e.state \in Written(disk)
    BY <2>1, <2>2 DEF Onward, Leads
  <2>4. Moves(e.active, motor) /\ Returns(e, motor, {}) /\ {} \in SUBSET Written(disk)
    BY <1>1, <2>1 DEF Moves, e
  <2> QED BY <1>1, <2>1, <2>3, <2>4, DrivesKept, ReturnKeeps
<1>2. ASSUME IInv, DriveRefused PROVE Forward
  <2>1. /\ InCall /\ Returns(CallEnded(ctl, "Failed"), motor, {})
        /\ call' = NoCall /\ UNCHANGED <<world, drives>>
    BY <1>2 DEF DriveRefused
  <2>2. ctl \in Controller /\ Onward(ctl, ctl) /\ "Failed" \in Phases
    BY <1>2, <2>1, CallIdle, Running, LeadsReflexive DEF Onward, Phases
  <2> QED BY <1>1, <1>2, <2>1, <2>2
<1>3. ASSUME IInv, DriveNeedless PROVE Forward
  <2> DEFINE r == [ctl EXCEPT !.sample.bolt = world.bolt, !.last_idle_bolt = world.bolt]
  <2>1. /\ InCall /\ Returns(CallEnded(r, "Completed"), motor, {})
        /\ call' = NoCall /\ UNCHANGED <<world, drives>>
        /\ world.bolt = Expected(call.target)
    BY <1>3 DEF DriveNeedless
  <2>2. ctl \in Controller /\ ctl.mode = "ready" /\ world.bolt \in {"Locked", "Unlocked"}
    BY <1>3, <2>1, CallIdle, Running DEF Expected, Targets
  <2>3. Calm(ctl, r)
    BY <2>2, Zenon DEF Calm, Controller, Sample, BoltReadings, SameDomain
  <2>4. r \in Controller /\ Onward(ctl, r) /\ "Completed" \in Phases
    BY <2>2, <2>3, CalmOnward, ZenonT(40) DEF Calm, Phases
  <2> HIDE DEF r
  <2> QED BY <1>1, <1>3, <2>1, <2>4
<1> QED BY <1>2, <1>3
(* start_action: a new drive, of an operation that had none, under an id   *)
(* no other has.                                                           *)
LEMMA DriveStartsKeeps == IInv /\ DriveStarts => Forward
<1> SUFFICES ASSUME IInv, DriveStarts PROVE Forward
  OBVIOUS
<1>1. InCall /\ call' = NoCall /\ world' = world
  BY DEF DriveStarts
<1>2. /\ motor = Idle /\ ctl.mode = "ready" /\ call \in Call /\ call.target \in Targets
      /\ ctl \in Controller /\ disk = ctl.state /\ disk \in Snapshot
  BY <1>1, CallIdle, Running
<1> DEFINE automatic == call.kind = "automatic"
           id == NextActuationId(ctl.state)
           a == [id |-> id, grant |-> call.grant, seq |-> call.seq, target |-> call.target,
                 left |-> ctl.state.config.action_timeout, automatic |-> automatic]
           d == [id |-> id, target |-> call.target, grant |-> call.grant, seq |-> call.seq]
           q(started) == [ctl EXCEPT
                           !.active = a, !.last_idle_bolt = "None",
                           !.sample.bolt = IF ~automatic /\ Info.bolt_sensor THEN "Unknown" ELSE @,
                           !.fault = IF started THEN @ ELSE "Driver"]
           done(started) == IF automatic THEN q(started)
                            ELSE Finished(q(started), call.grant, call.seq,
                                          IF started THEN "Running" ELSE "Unknown")
           moves(energised) == IF energised THEN [id |-> id, target |-> call.target] ELSE motor
<1>3. PICK started \in BOOLEAN, energised \in BOOLEAN :
        /\ Returns(done(started), moves(energised), {})
        /\ drives' = drives \cup {d}
  BY Zenon DEF DriveStarts
<1>4. /\ call.grant \in Grants \cup {None} /\ call.seq \in Nat /\ id \in ActuationIds
      /\ ctl.state.config.action_timeout \in Nat
  BY <1>2, SMTT(30) DEF Call, NextActuationId, ActuationIds, Snapshot, Config
<1>5. automatic \in BOOLEAN
  OBVIOUS
<1> HIDE DEF automatic
<1>6. a \in Active /\ a.id = id /\ a.target = call.target
  BY <1>2, <1>4, <1>5 DEF Active
<1>7. d \in DriveRecord
  BY <1>2, <1>4 DEF DriveRecord
<1>8. /\ q(started) \in Controller /\ q(started).mode = "ready"
      /\ q(started).state = disk /\ q(started).active = a
  <2> HIDE DEF a
  <2> QED BY <1>2, <1>5, <1>6, Zenon DEF Controller, Sample, BoltReadings, Faults
<1> HIDE DEF q
<1>9. /\ done(started) \in Controller /\ done(started).mode = "ready"
      /\ done(started).state \in Written(disk) /\ done(started).active = a
  <2>1. Onward(q(started), q(started))
    BY <1>8, LeadsReflexive DEF Onward
  <2>2. \A p \in Phases : Onward(q(started), Finished(q(started), call.grant, call.seq, p))
    BY <1>8, FinishedLeads, Zenon DEF Onward
  <2>3. Onward(q(started), done(started))
    BY <2>1, <2>2, Zenon DEF Phases
  <2> QED BY <1>8, <2>3, Zenon DEF Onward, Leads
<1> HIDE DEF done
<1>10. Moves(a, moves(energised))
  BY <1>2, <1>4, <1>6 DEF Moves
<1> HIDE DEF moves, a
<1>11. drives' \subseteq DriveRecord
  BY <1>3, <1>7 DEF IInv, TypeOK
<1>12. \A e \in drives' : Behind(e, disk)
  <2>1. Behind(d, disk)
    <3>1. disk.generation \in Nat /\ disk.next_cursor \in Nat
      BY <1>2, OrderedFields
    <3>2. id[1] = disk.generation /\ id[2] < disk.next_cursor
      BY <1>2, <3>1, SMTT(30) DEF NextActuationId
    <3>3. call.grant # None => call.grant.epoch = disk.epoch
                                /\ call.seq <= disk.watermarks[call.grant.id]
      BY <1>1, <1>2, Zenon DEF IInv, CallInv, InCall
    <3> HIDE DEF id
    <3> QED BY <3>2, <3>3 DEF Behind
  <2> QED BY <1>3, <2>1 DEF IInv, DrivesInv
<1>13. OneDrivePerOperation'
  <2>1. ASSUME NEW e \in drives, e.grant # None, call.grant # None
        PROVE  ~SameOperation(e.grant, e.seq, call.grant, call.seq)
    BY <1>1, <2>1 DEF IInv, CallInv, InCall
  <2>2. OneDrivePerOperation
    BY DEF IInv
  <2>3. d.grant = call.grant /\ d.seq = call.seq
    OBVIOUS
  <2> HIDE DEF d
  <2> QED BY <1>3, <2>1, <2>2, <2>3, SMTT(30) DEF OneDrivePerOperation, SameOperation
<1>14. {} \in SUBSET Written(disk)
  OBVIOUS
<1> DEFINE f == done(started)
           m == moves(energised)
<1>15. /\ f \in Controller /\ f.mode = "ready" /\ f.state \in Written(disk)
       /\ Moves(f.active, m) /\ Returns(f, m, {})
  BY <1>3, <1>9, <1>10
<1> HIDE DEF f, m
<1> QED BY <1>1, <1>2, <1>11, <1>12, <1>13, <1>14, <1>15, ReturnKeeps

(* The callback of a drive that is over.                                   *)
LEMMA CallbackKeeps == IInv /\ Callback => Forward
<1> SUFFICES ASSUME IInv, Callback PROVE Forward
  OBVIOUS
<1>1. PICK d \in drives, result \in Results : d.id # motor.id /\ ActuatorFinished(d.id, result)
  BY Zenon DEF Callback
<1>2. /\ Ready /\ NamesActive(d.id) /\ UNCHANGED <<call, world, drives>>
      /\ ctl.mode = "ready" /\ call' = NoCall
  <2>1. Ready /\ NamesActive(d.id) /\ UNCHANGED <<call, world, drives>>
    BY <1>1, ZenonT(40) DEF ActuatorFinished
  <2> QED BY <2>1 DEF Ready
<1>3. motor = Idle
  BY <1>1, <1>2, Running DEF Moves, NamesActive
<1>4. PICK o \in Observations :
        IF Busy(o.ctl)
        THEN Returns(Settled(o.ctl, ctl.active, result).ctl, motor,
                     o.writes \cup Settled(o.ctl, ctl.active, result).writes)
        ELSE Returns(o.ctl, Halted(o.ctl), o.writes)
  BY <1>1, ZenonT(40) DEF ActuatorFinished
<1>5. /\ o.ctl \in Controller /\ o.ctl.mode = "ready"
      /\ o.ctl.state \in Written(disk) /\ o.writes \in SUBSET Written(disk)
  BY <1>2, Observes, Zenon
<1>6. CASE ~Busy(o.ctl)
  <2>1. Onward(o.ctl, o.ctl)
    BY <1>5, LeadsReflexive DEF Onward
  <2> QED BY <1>2, <1>4, <1>5, <1>6, <2>1, CallKeeps
<1>7. CASE Busy(o.ctl)
  <2> DEFINE e == Settled(o.ctl, ctl.active, result)
             r == e.ctl
             ws == o.writes \cup e.writes
  <2>1. Leads(o.ctl, r) /\ e.writes \subseteq Written(o.ctl.state)
    BY <1>5, SettledLeads
  <2>2. Returns(r, motor, ws)
    BY <1>4, <1>7
  <2> HIDE DEF e
  <2>3. /\ r \in Controller /\ r.mode = "ready" /\ r.state \in Written(o.ctl.state)
    BY <1>5, <2>1 DEF Leads
  <2>4. disk \in Snapshot
    BY DEF IInv, TypeOK
  <2>5. r.state \in Written(disk) /\ ws \in SUBSET Written(disk)
    BY <1>5, <2>1, <2>3, <2>4, LaterTransitive
  <2>6. Moves(r.active, motor)
    BY <1>3, Zenon DEF Moves
  <2> HIDE DEF r, ws
  <2> QED BY <1>2, <2>2, <2>3, <2>5, <2>6, DrivesKept, ReturnKeeps, Zenon
<1> QED BY <1>6, <1>7

(* Steps around the controller, and gestures, touch no drive and no store. *)
LEMMA AsideKeeps ==
  ASSUME IInv, ctl' \in Controller, ctl'.mode = ctl.mode, ctl'.state = ctl.state,
         ctl'.active.id = ctl.active.id, ctl'.active.target = ctl.active.target,
         UNCHANGED <<disk, call, drives>>, motor' \in {motor, Idle}, world' \in Sample
  PROVE  Forward
<1>1. disk \in Snapshot /\ call' \in Call
  BY DEF IInv, TypeOK
<1>2. disk' \in Written(disk)
  <2>1. SameDomain(disk, disk) /\ disk.next_cursor >= disk.next_cursor
    BY <1>1, OrderedFields, SMTT(30) DEF SameDomain
  <2> QED BY <1>1, <2>1, LaterKept
<1>3. CallInv'
  BY DEF IInv, CallInv, Busy
<1>4. /\ ctl'.mode = "ready" => disk' = ctl'.state
      /\ ctl'.mode # "off" => disk'.format = 1
      /\ disk'.format = 0 => disk' = Absent
  BY DEF IInv, CacheIsDurable, StoreInv
<1>5. /\ motor' = Idle \/ motor' \in [id : ActuationIds, target : Targets]
      /\ ctl'.mode # "off" => Moves(ctl'.active, motor')
  BY DEF IInv, MotorInv, Moves
<1> QED BY <1>1, <1>2, <1>3, <1>4, <1>5, DrivesKept, StepKeeps

(* Gestures at the device, the platform around it, and no step at all.     *)
LEMMA SurroundingsKeep ==
  ASSUME IInv,
         \/ OpenPairingWindow
         \/ \E ctx \in Contexts, c \in Commands : ConfirmPhysical(ctx, c)
         \/ MotorRests \/ SensorsChange \/ Tick \/ UNCHANGED vars
  PROVE  Forward
<1>1. ctl \in Controller /\ world \in Sample /\ motor.target \in Targets \cup {"None"}
  BY DEF IInv, TypeOK
<1>2. CASE OpenPairingWindow
  <2>1. ctl' \in Controller /\ ctl'.mode = ctl.mode /\ ctl'.state = ctl.state
          /\ ctl'.active = ctl.active
    BY <1>1, <1>2, TicksAssumption, Zenon DEF OpenPairingWindow, Controller
  <2> QED BY <1>1, <1>2, <2>1, AsideKeeps DEF OpenPairingWindow
<1>3. ASSUME NEW ctx \in Contexts, NEW c \in Commands, ConfirmPhysical(ctx, c) PROVE Forward
  <2>1. ctx.peer \in Peers
    BY DEF Contexts
  <2>2. ctl' \in Controller /\ ctl'.mode = ctl.mode /\ ctl'.state = ctl.state
          /\ ctl'.active = ctl.active
    BY <1>1, <1>3, <2>1, TicksAssumption DEF ConfirmPhysical, Controller
  <2> QED BY <1>1, <1>3, <2>2, AsideKeeps DEF ConfirmPhysical
<1>4. CASE MotorRests
  <2>1. world' \in Sample
    BY <1>1, <1>4 DEF MotorRests, Expected, Sample, BoltReadings
  <2> QED BY <1>1, <1>4, <2>1, AsideKeeps DEF MotorRests
<1>5. CASE SensorsChange
  BY <1>1, <1>5, SamplesAssumption, AsideKeeps DEF SensorsChange
<1>6. CASE Tick
  <2>1. \A t \in Nat \cup {Never} : Sooner(t) \in Nat \cup {Never}
    BY SMTT(30) DEF Sooner, Never
  <2>2. \A t \in Nat : Sooner(t) \in Nat
    BY SMTT(30) DEF Sooner
  <2> DEFINE a == [ctl.active EXCEPT !.left = Sooner(@)]
             dl == Sooner(ctl.relock_deadline)
             door == IF ctl.door_open_for \in 0..(Info.max_delay - 1)
                     THEN ctl.door_open_for + 1 ELSE ctl.door_open_for
             p == Sooner(ctl.pairing)
             f == [ctl.confirmation EXCEPT !.left = Sooner(@)]
  <2>3. a \in Active /\ a.id = ctl.active.id /\ a.target = ctl.active.target
    BY <1>1, <2>2 DEF Controller, Active
  <2>4. dl \in Nat \cup {Never} /\ p \in Nat
    BY <1>1, <2>1, <2>2, ZenonT(40) DEF Controller
  <2>5. door \in Nat \cup {Never}
    <3>1. ctl.door_open_for \in Nat \cup {Never}
      BY <1>1, Zenon DEF Controller
    <3>2. Info.max_delay \in Nat
      BY InfoAssumption DEF InfoFields
    <3> QED BY <3>1, <3>2, SMTT(30) DEF Never
  <2>6. f \in [peer : Peers \cup {None}, digest : Commands \cup {None}, left : Nat]
    BY <1>1, <2>2 DEF Controller
  <2>7. ctl' = [ctl EXCEPT !.active = a, !.relock_deadline = dl, !.door_open_for = door,
                           !.pairing = p, !.confirmation = f]
    BY <1>1, <1>6 DEF Tick, Controller
  <2> HIDE DEF a, dl, door, p, f
  <2>8. ctl' \in Controller /\ ctl'.mode = ctl.mode /\ ctl'.state = ctl.state /\ ctl'.active = a
    BY <1>1, <2>3, <2>4, <2>5, <2>6, <2>7, Zenon DEF Controller
  <2> QED BY <1>1, <1>6, <2>3, <2>8, AsideKeeps DEF Tick
<1>7. CASE UNCHANGED vars
  BY <1>1, <1>7, AsideKeeps DEF vars
<1> QED BY <1>2, <1>3, <1>4, <1>5, <1>6, <1>7

(* The controller is lost, or gives up its drive.                          *)
LEMMA EndsKeep == IInv /\ (RetryStop \/ Crash) => Forward
<1> SUFFICES ASSUME IInv, RetryStop \/ Crash PROVE Forward
  OBVIOUS
<1>1. disk \in Snapshot /\ world \in Sample /\ disk' = disk /\ world' = world /\ drives' = drives
  BY DEF IInv, TypeOK, RetryStop, Crash
<1>2. disk' \in Written(disk)
  <2>1. SameDomain(disk, disk) /\ disk.next_cursor >= disk.next_cursor
    BY <1>1, OrderedFields, SMTT(30) DEF SameDomain
  <2> QED BY <1>1, <2>1, LaterKept
<1>3. call' = NoCall
  BY DEF RetryStop, Crash, IInv, CallInv
<1>4. disk'.format = 0 => disk' = Absent
  BY <1>1, Zenon DEF IInv, StoreInv
<1>5. CASE RetryStop
  <2>1. /\ ctl' \in Controller /\ ctl'.mode = "poisoned" /\ ctl'.active = NoActive
        /\ motor' = Idle /\ disk'.format = 1
    BY <1>1, <1>5, NoActiveType, ClosedType DEF RetryStop, IInv, StoreInv
  <2>2. ctl'.mode # "ready" /\ Moves(ctl'.active, motor')
    BY <2>1 DEF Moves
  <2> QED BY <1>1, <1>2, <1>3, <1>4, <2>1, <2>2, DrivesKept, NoCallFits, StepKeeps, ZenonT(40)
<1>6. CASE Crash
  <2>1. ctl' \in Controller /\ ctl'.mode = "off" /\ motor' = motor
    BY <1>6, OffType DEF Crash, Off
  <2>2. motor' = Idle \/ motor' \in [id : ActuationIds, target : Targets]
    BY <2>1, Zenon DEF IInv, MotorInv
  <2> QED BY <1>1, <1>2, <1>3, <1>4, <2>1, <2>2, DrivesKept, NoCallFits, StepKeeps, ZenonT(40)
<1> QED BY <1>5, <1>6

-----------------------------------------------------------------------------
(* The theorems.                                                           *)

(* The empty store satisfies the invariant.                                *)
LEMMA InitKeeps == Init => IInv
<1> SUFFICES ASSUME Init PROVE IInv
  OBVIOUS
<1>1. disk = Absent /\ ctl = Off /\ call = NoCall /\ motor = Idle /\ drives = {}
        /\ world \in Sample
  BY SamplesAssumption DEF Init
<1>2. Absent \in Snapshot /\ Off \in Controller /\ Off.mode = "off"
  BY OffType, FactoryType, Zenon DEF Off, Controller
<1>3. call \in Call /\ motor \in [id : ActuationIds, target : Targets \cup {"None"}]
  BY <1>1 DEF NoCall, Call, Idle, NoId, ActuationIds
<1>4. Unbound(Absent)
  BY DEF Unbound, Absent, Factory
<1> QED BY <1>1, <1>2, <1>3, <1>4
        DEF IInv, TypeOK, CacheIsDurable, MotorInv, StoreInv, DrivesInv, CallInv,
            OneDrivePerOperation

(* Every step keeps the invariant and leaves the store no older.           *)
LEMMA NextKeeps == IInv /\ [Next]_vars => Forward
<1> SUFFICES ASSUME IInv, [Next]_vars PROVE Forward
  OBVIOUS
<1>1. CASE Provision \/ Open \/ \E l \in LegacyStates : MigrateLegacy(l)
  BY <1>1, ConstructorsKeep
<1>2. CASE Drive
  BY <1>2, NotDrivenKeeps, DriveStartsKeeps DEF Drive
<1>3. ASSUME NEW o \in Observations, NEW ctx \in Contexts, NEW c \in Commands, Handle(o, ctx, c)
      PROVE  Forward
  BY <1>3, HandleKeeps
<1> QED BY <1>1, <1>2, <1>3, HardwareChangedKeeps, PollKeeps, CallbackKeeps,
           SurroundingsKeep, EndsKeep DEF Next, Asks

(* The invariant holds throughout.                                         *)
THEOREM Invariance == Spec => []IInv
<1>1. IInv /\ [Next]_vars => IInv'
  BY NextKeeps DEF Forward
<1> QED BY <1>1, InitKeeps, PTL DEF Spec

(* Whatever calls, faults and crashes happen, the store and the controller *)
(* hold values of their declared types.                                    *)
THEOREM TypeCorrect == Spec => []TypeOK
<1>1. IInv => TypeOK
  BY DEF IInv
<1> QED BY <1>1, Invariance, PTL

(* An accepted command drives the actuator at most once, in any number of  *)
(* restarts, replays, evictions and ambiguous commits (dispatch, execute,  *)
(* open_stopped).                                                          *)
THEOREM AtMostOneDrive == Spec => []OneDrivePerOperation
<1>1. IInv => OneDrivePerOperation
  BY DEF IInv
<1> QED BY <1>1, Invariance, PTL

(* A moving motor is the drive its controller calls active, until the      *)
(* controller is gone (actuator_finished, stop_unsafe_action, poison).     *)
THEOREM MotorIsOwned == Spec => []MotorOwned
<1>1. IInv => MotorOwned
  BY DEF IInv, MotorInv, Moves, MotorOwned
<1> QED BY <1>1, Invariance, PTL

(* Nothing durable runs backwards, whatever commit of whichever call fails *)
(* (dispatch, claim, execute, open_stopped).                               *)
THEOREM NothingRunsBackwards == Spec => DomainMonotone
<1> DEFINE Step ==
      disk.format = 1 =>
       /\ disk'.format = 1
       /\ disk'.generation >= disk.generation
       /\ disk'.epoch >= disk.epoch
       /\ disk'.epoch = disk.epoch =>
            /\ disk.owner # None => disk'.owner = disk.owner
            /\ disk.revoked \subseteq disk'.revoked
            /\ disk.policy_version <= disk'.policy_version
            /\ \A c \in CredentialIds :
                 /\ disk'.watermarks[c] >= disk.watermarks[c]
                 /\ disk'.uses[c] >= disk.uses[c]
                 /\ disk.bindings[c] # None => disk'.bindings[c] = disk.bindings[c]
<1>1. IInv /\ [Next]_vars => [Step]_vars
  <2> SUFFICES ASSUME IInv, [Next]_vars PROVE Step
    OBVIOUS
  <2>1. disk \in Snapshot /\ disk' \in Snapshot /\ Later(disk, disk')
    BY NextKeeps DEF Forward, IInv, TypeOK, Written
  <2>2. disk'.generation >= disk.generation
    BY <2>1, OrderedFields, SMTT(30) DEF Later
  <2> QED BY <2>1, <2>2, Zenon DEF Later, Retains
<1>2. Spec => [][Step]_vars
  <2> HIDE DEF Step
  <2> QED BY <1>1, Invariance, PTL DEF Spec
<1> QED BY <1>2, Zenon DEF DomainMonotone

(* Only start_action adds a drive.                                         *)
LEMMA OnlyDriveStarts == [Next]_vars => drives' = drives \/ DriveStarts
<1>1. ASSUME NEW o \in Observations, NEW ctx \in Contexts, NEW c \in Commands, Handle(o, ctx, c)
      PROVE  drives' = drives
  BY <1>1, Zenon DEF Handle, HandleAnswered, HandleClaim, HandleDomain, HandleNoChange,
                     HandleDrive, HandleManaged, HandleRefused
<1>2. ASSUME Provision \/ (\E l \in LegacyStates : MigrateLegacy(l)) \/ Open
      PROVE  drives' = drives
  BY <1>2, Zenon DEF Provision, MigrateLegacy, Open, OpenStopped
<1>3. ASSUME Callback \/ Poll \/ HardwareChanged PROVE drives' = drives
  BY <1>3, Zenon DEF Callback, ActuatorFinished, Poll, HardwareChanged
<1>4. ASSUME Drive PROVE drives' = drives \/ DriveStarts
  BY <1>4, Zenon DEF Drive, DriveRefused, DriveNeedless
<1>5. ASSUME \/ OpenPairingWindow \/ \E ctx \in Contexts, c \in Commands : ConfirmPhysical(ctx, c)
             \/ RetryStop \/ MotorRests \/ SensorsChange \/ Tick \/ Crash \/ UNCHANGED vars
      PROVE  drives' = drives
  BY <1>5, Zenon DEF OpenPairingWindow, ConfirmPhysical, RetryStop, MotorRests, SensorsChange,
                     Tick, Crash, vars
<1> QED BY <1>1, <1>2, <1>3, <1>4, <1>5, Zenon DEF Next, Asks

(* The drive start_action begins.                                          *)
LEMMA StartedDrive ==
  ASSUME IInv, [Next]_vars, NEW d \in drives' \ drives
  PROVE  DriveStarts /\ d.id = NextActuationId(ctl.state) /\ d.target = call.target
<1>1. DriveStarts
  BY OnlyDriveStarts
<1>2. drives' = drives \cup {[id |-> NextActuationId(ctl.state), target |-> call.target,
                              grant |-> call.grant, seq |-> call.seq]}
  BY <1>1 DEF DriveStarts
<1> QED BY <1>1, <1>2, SMTT(30)

(* A start finds the actuator idle and has an id no earlier start had, in  *)
(* any generation and after any restart (next_actuation_id).               *)
THEOREM DriveIdsAreFresh == Spec => FreshActuationIds
<1> DEFINE Step == \A d \in drives' \ drives : motor = Idle /\ \A e \in drives : e.id # d.id
<1>1. IInv /\ [Next]_vars => [Step]_vars
  <2> SUFFICES ASSUME IInv, [Next]_vars, NEW d \in drives' \ drives
               PROVE  motor = Idle /\ \A e \in drives : e.id # d.id
    OBVIOUS
  <2>1. InCall /\ d.id = NextActuationId(ctl.state)
    BY StartedDrive, Zenon DEF DriveStarts
  <2>2. motor = Idle
    BY <2>1, CallIdle
  <2>3. \A e \in drives : e.id # NextActuationId(ctl.state)
    BY <2>1 DEF InCall, IInv, CallInv
  <2> QED BY <2>1, <2>2, <2>3
<1>2. Spec => [][Step]_vars
  <2> HIDE DEF Step
  <2> QED BY <1>1, Invariance, PTL DEF Spec
<1> QED BY <1>2 DEF FreshActuationIds

(* A start is safe by the sensors as they are, not as they were when the   *)
(* command was accepted (prepare_actuation).                               *)
THEOREM DrivesAreSafe == Spec => DrivesStartSafely
<1> DEFINE Step == \A d \in drives' \ drives :
                     /\ ValidSample(world)
                     /\ d.target = "Lock" => CanLock(world)
                     /\ d.target = "Unlock" => PrivacyAllows(world)
                     /\ disk.firmware # "Trial"
<1>1. IInv /\ [Next]_vars => [Step]_vars
  <2> SUFFICES ASSUME IInv, [Next]_vars, NEW d \in drives' \ drives
               PROVE  /\ ValidSample(world)
                      /\ d.target = "Lock" => CanLock(world)
                      /\ d.target = "Unlock" => PrivacyAllows(world)
                      /\ disk.firmware # "Trial"
    OBVIOUS
  <2>1. /\ InCall /\ d.target = call.target /\ Interlock(world, call.target)
        /\ world.bolt # Expected(call.target)
    BY StartedDrive, Zenon DEF DriveStarts
  <2>2. disk.firmware # "Trial"
    BY <2>1 DEF InCall, IInv, CallInv, CacheIsDurable
  <2> QED BY <2>1, <2>2 DEF Interlock, Expected
<1>2. Spec => [][Step]_vars
  <2> HIDE DEF Step
  <2> QED BY <1>1, Invariance, PTL DEF Spec
<1> QED BY <1>2 DEF DrivesStartSafely

(* How a call ends leaves the motor as it was said, or at rest.            *)
LEMMA EndsStill ==
  ASSUME NEW r, NEW m \in {motor, Idle}, NEW w, Returns(r, m, w) \/ Poisons(r, m, w)
  PROVE  motor' \in {motor, Idle}
BY Zenon DEF Returns, Poisons

(* Only start_action sets the motor in motion.                             *)
LEMMA OnlyStartsMove == [Next]_vars => motor' \in {motor, Idle} \/ DriveStarts
<1>0. ASSUME NEW r PROVE Halted(r) \in {motor, Idle}
  BY Zenon DEF Halted
<1>1. ASSUME NEW o \in Observations, NEW ctx \in Contexts, NEW c \in Commands, Handle(o, ctx, c)
      PROVE  motor' \in {motor, Idle}
  <2>1. CASE HandleAnswered(o, ctx, c) \/ HandleClaim(o, ctx, c) \/ HandleDomain(o, ctx, c)
    BY <2>1, <1>0, EndsStill, Zenon DEF HandleAnswered, HandleClaim, HandleDomain
  <2>2. CASE HandleNoChange(o, ctx, c) \/ HandleRefused(o, ctx, c)
    BY <2>2, <1>0, EndsStill, Zenon DEF HandleNoChange, HandleRefused
  <2>3. CASE HandleDrive(o, ctx, c)
    BY <2>3, <1>0, EndsStill, Zenon DEF HandleDrive
  <2>4. CASE HandleManaged(o, ctx, c)
    <3>1. \E r, w : Returns(r, Halted(o.ctl), w)
      BY <2>4, Zenon DEF HandleManaged
    <3> QED BY <3>1, <1>0, EndsStill, Zenon
  <2> QED BY <1>1, <2>1, <2>2, <2>3, <2>4 DEF Handle
<1>2. ASSUME Provision \/ (\E l \in LegacyStates : MigrateLegacy(l)) \/ Open
      PROVE  motor' \in {motor, Idle}
  BY <1>2, Zenon DEF Provision, MigrateLegacy, Open, OpenStopped
<1>3. ASSUME Callback PROVE motor' \in {motor, Idle}
  BY <1>3, <1>0, EndsStill, Zenon DEF Callback, ActuatorFinished
<1>4. ASSUME Poll PROVE motor' \in {motor, Idle}
  BY <1>4, <1>0, EndsStill, Zenon DEF Poll
<1>5. ASSUME HardwareChanged PROVE motor' \in {motor, Idle}
  BY <1>5, <1>0, EndsStill, Zenon DEF HardwareChanged
<1>6. ASSUME Drive PROVE motor' \in {motor, Idle} \/ DriveStarts
  BY <1>6, EndsStill, Zenon DEF Drive, DriveRefused, DriveNeedless
<1>7. ASSUME \/ OpenPairingWindow \/ \E ctx \in Contexts, c \in Commands : ConfirmPhysical(ctx, c)
             \/ RetryStop \/ MotorRests \/ SensorsChange \/ Tick \/ Crash \/ UNCHANGED vars
      PROVE  motor' \in {motor, Idle}
  BY <1>7, Zenon DEF OpenPairingWindow, ConfirmPhysical, RetryStop, MotorRests, SensorsChange,
                     Tick, Crash, vars
<1> QED BY <1>1, <1>2, <1>3, <1>4, <1>5, <1>6, <1>7, Zenon DEF Next, Asks

(* A start performs a drive: alone, under a new id, and of an operation    *)
(* that was not performed before.                                          *)
LEMMA StartPerforms ==
  ASSUME IInv, DriveStarts
  PROVE  \E d \in drives' \ drives : Bolt!Perform(d)
<1> DEFINE d == [id |-> NextActuationId(ctl.state), target |-> call.target,
                 grant |-> call.grant, seq |-> call.seq]
<1>1. InCall /\ motor = Idle
  BY CallIdle, Zenon DEF DriveStarts
<1>2. drives' = drives \cup {d}
  BY DEF DriveStarts
<1>3. motor' \in {Idle, [id |-> d.id, target |-> d.target]}
  <2> DEFINE moves == [id |-> NextActuationId(ctl.state), target |-> call.target]
  <2>1. \E energised \in BOOLEAN : \E r, w : Returns(r, IF energised THEN moves ELSE motor, w)
    BY ZenonT(40) DEF DriveStarts
  <2>2. \E m \in {motor, moves} : \E r, w : Returns(r, m, w)
    BY <2>1, Zenon
  <2> QED BY <1>1, <2>2 DEF Returns, Poisons
<1>4. \A e \in drives : e.id # d.id
  BY <1>1, Zenon DEF InCall, IInv, CallInv
<1>5. \A e \in drives : ~Bolt!SameOperation(d, e)
  <2>1. \A e \in drives :
          call.grant # None /\ e.grant # None
            => ~SameOperation(e.grant, e.seq, call.grant, call.seq)
    BY <1>1, Zenon DEF InCall, IInv, CallInv
  <2>2. d.grant = call.grant /\ d.seq = call.seq
    OBVIOUS
  <2> HIDE DEF d
  <2> QED BY <2>1, <2>2, Zenon DEF SameOperation, Bolt!SameOperation
<1>6. Bolt!Perform(d)
  BY <1>1, <1>2, <1>3, <1>4, <1>5 DEF Bolt!Perform
<1> QED BY <1>2, <1>4, <1>6

(* The controller with its store, its faults and its restarts implements   *)
(* an actuator that performs every operation at most once, one at a time   *)
(* (dispatch, prepare_actuation, start_action, poll, open_stopped).        *)
THEOREM ImplementsOnceOnly == Spec => PerformsOnce
<1>1. Init => Bolt!Init
  BY DEF Init, Bolt!Init
<1>2. IInv /\ [Next]_vars => [Bolt!Next]_<<drives, motor>>
  <2> SUFFICES ASSUME IInv, [Next]_vars PROVE [Bolt!Next]_<<drives, motor>>
    OBVIOUS
  <2>1. CASE DriveStarts
    BY <2>1, StartPerforms, Zenon DEF Bolt!Next
  <2>2. CASE ~DriveStarts
    BY <2>2, OnlyStartsMove, OnlyDriveStarts, Zenon DEF Bolt!Next, Bolt!Rest, Bolt!actuatorVars
  <2> QED BY <2>1, <2>2
<1> QED BY <1>1, <1>2, Invariance, PTL DEF Spec, PerformsOnce, Bolt!Spec, Bolt!actuatorVars
=============================================================================
