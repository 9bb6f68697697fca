------------------------ MODULE DeviceOperatorProofs ------------------------
(***************************************************************************)
(* What the operators on the controller record preserve: each leaves a     *)
(* well-typed controller whose snapshot is later than the one it had and   *)
(* whose drive is the same or over.  The lemmas follow the order of        *)
(* DeviceHardware and DeviceRequests and are cited by                      *)
(* DeviceControllerProofs.                                                 *)
(***************************************************************************)
EXTENDS DeviceRequests, TLAPS

(* A store without an owner binds no credential.                           *)
Unbound(s) == s.owner = None => \A c \in CredentialIds : s.bindings[c] = None

(* Nothing is lost from s to t of what belongs to one epoch.               *)
Retains(s, t) ==
  /\ s.owner # None => t.owner = s.owner
  /\ s.revoked \subseteq t.revoked
  /\ s.policy_version <= t.policy_version
  /\ \A c \in CredentialIds :
       /\ t.watermarks[c] >= s.watermarks[c]
       /\ t.uses[c] >= s.uses[c]
       /\ s.bindings[c] # None => t.bindings[c] = s.bindings[c]

(* A generation has one owner and one epoch.                               *)
OneDomain(s, t) ==
  s.format = 1 /\ t.generation = s.generation => t.owner = s.owner /\ t.epoch = s.epoch

(* Snapshot t is no older than s: in epochs with what belongs to them, and *)
(* in generations with their audit cursors.                                *)
Later(s, t) ==
  /\ s.format = 1 => t.format = 1
  /\ t.epoch >= s.epoch
  /\ t.epoch = s.epoch => Retains(s, t)
  /\ Unbound(s) => Unbound(t)
  /\ OneDomain(s, t)
  /\ \/ t.generation > s.generation
     \/ t.generation = s.generation /\ t.next_cursor >= s.next_cursor

(* The authorization state of s and t is the same.                         *)
SameDomain(s, t) ==
  /\ t.format = s.format /\ t.owner = s.owner /\ t.epoch = s.epoch
  /\ t.policy_version = s.policy_version /\ t.revoked = s.revoked
  /\ t.uses = s.uses /\ t.watermarks = s.watermarks /\ t.bindings = s.bindings

Written(s) == {t \in Snapshot : Later(s, t)}

(* Drive b is drive a, or none.                                            *)
SameDrive(a, b) == b.target = "None" \/ (b.id = a.id /\ b.target = a.target)

(* What the methods of a running controller may make of r.                 *)
Leads(r, q) ==
  /\ q \in Controller
  /\ q.mode = r.mode
  /\ SameDrive(r.active, q.active)
  /\ q.state \in Written(r.state)

(* The methods that touch neither the drive nor either order.              *)
Calm(r, q) ==
  /\ q \in Controller
  /\ q.mode = r.mode
  /\ q.active = r.active
  /\ SameDomain(r.state, q.state)
  /\ q.state.generation = r.state.generation
  /\ q.state.next_cursor = r.state.next_cursor
  /\ q.state.firmware = r.state.firmware

-----------------------------------------------------------------------------
(* The orders.                                                             *)

(* The fields of a snapshot the orders compare are numbers.                *)
LEMMA OrderedFields ==
  ASSUME NEW s \in Snapshot
  PROVE  /\ s.epoch \in Nat /\ s.generation \in Nat
         /\ s.next_cursor \in Nat \ {0}
         /\ s.policy_version \in Nat
         /\ \A c \in CredentialIds : s.watermarks[c] \in Nat /\ s.uses[c] \in Nat
BY DEF Snapshot

(* A snapshot is no older than itself, nor than one whose authorization    *)
(* state it keeps.                                                         *)
LEMMA LaterKept ==
  ASSUME NEW s \in Snapshot, NEW t \in Snapshot, SameDomain(s, t),
         t.generation = s.generation, t.next_cursor >= s.next_cursor
  PROVE  t \in Written(s)
<1>1. Retains(s, t)
  BY OrderedFields DEF Retains, SameDomain
<1>2. t.epoch >= s.epoch
  BY OrderedFields DEF SameDomain
<1>3. Unbound(s) => Unbound(t)
  BY DEF Unbound, SameDomain
<1>4. OneDomain(s, t)
  BY DEF OneDomain, SameDomain
<1> QED BY <1>1, <1>2, <1>3, <1>4 DEF Later, Written, SameDomain

(* So is one of a later generation.                                        *)
LEMMA LaterGeneration ==
  ASSUME NEW s \in Snapshot, NEW t \in Snapshot, SameDomain(s, t),
         t.generation > s.generation
  PROVE  t \in Written(s)
<1>1. Retains(s, t)
  BY OrderedFields DEF Retains, SameDomain
<1>2. t.epoch >= s.epoch
  BY OrderedFields DEF SameDomain
<1>3. Unbound(s) => Unbound(t)
  BY DEF Unbound, SameDomain
<1>4. OneDomain(s, t)
  BY DEF OneDomain, SameDomain
<1> QED BY <1>1, <1>2, <1>3, <1>4 DEF Later, Written, SameDomain

(* The orders are transitive.                                              *)
LEMMA LaterTransitive ==
  ASSUME NEW s \in Snapshot, NEW t \in Written(s), NEW u \in Written(t)
  PROVE  u \in Written(s)
<1>1. t \in Snapshot /\ u \in Snapshot /\ Later(s, t) /\ Later(t, u)
  BY DEF Written
<1>2. /\ s.format = 1 => u.format = 1
      /\ Unbound(s) => Unbound(u)
  BY <1>1 DEF Later
<1>3. u.epoch >= s.epoch
  BY <1>1, OrderedFields DEF Later
<1>4. u.epoch = s.epoch => Retains(s, u)
  <2> SUFFICES ASSUME u.epoch = s.epoch PROVE Retains(s, u)
    OBVIOUS
  <2>1. Retains(s, t) /\ Retains(t, u)
    BY <1>1, OrderedFields DEF Later
  <2>2. /\ s.owner # None => u.owner = s.owner
        /\ s.revoked \subseteq u.revoked
        /\ \A c \in CredentialIds : s.bindings[c] # None => u.bindings[c] = s.bindings[c]
    BY <2>1 DEF Retains
  <2>3. /\ s.policy_version <= u.policy_version
        /\ \A c \in CredentialIds :
             u.watermarks[c] >= s.watermarks[c] /\ u.uses[c] >= s.uses[c]
    BY <1>1, <2>1, OrderedFields DEF Retains
  <2> QED BY <2>2, <2>3 DEF Retains
<1>5. \/ u.generation > s.generation
      \/ u.generation = s.generation /\ u.next_cursor >= s.next_cursor
  BY <1>1, OrderedFields DEF Later
<1>6. OneDomain(s, u)
  <2> SUFFICES ASSUME s.format = 1, u.generation = s.generation
               PROVE  u.owner = s.owner /\ u.epoch = s.epoch
    BY DEF OneDomain
  <2>1. t.generation >= s.generation /\ u.generation >= t.generation /\ t.format = 1
    BY <1>1, OrderedFields DEF Later
  <2>2. t.generation = s.generation /\ u.generation = t.generation
    BY <1>1, <2>1, OrderedFields
  <2> QED BY <1>1, <2>1, <2>2 DEF Later, OneDomain
<1> QED BY <1>1, <1>2, <1>3, <1>4, <1>5, <1>6 DEF Later, Written

(* What leads on from what r leads to, r leads to.                         *)
LEMMA LeadsTransitive ==
  ASSUME NEW r \in Controller, NEW q, NEW p, Leads(r, q), Leads(q, p)
  PROVE  Leads(r, p)
<1>1. r.state \in Snapshot
  BY DEF Controller
<1>2. p.state \in Written(r.state)
  BY <1>1, LaterTransitive DEF Leads
<1> QED BY <1>2 DEF Leads, SameDrive

(* Two methods that touch neither touch neither in sequence.               *)
LEMMA CalmTransitive ==
  ASSUME NEW r \in Controller, NEW q, NEW p, Calm(r, q), Calm(q, p)
  PROVE  Calm(r, p)
BY DEF Calm, SameDomain

(* A method that touches neither leads on.                                 *)
LEMMA CalmLeads ==
  ASSUME NEW r \in Controller, NEW q, Calm(r, q)
  PROVE  Leads(r, q)
<1>1. r.state \in Snapshot /\ q.state \in Snapshot
  BY DEF Calm, Controller, SameDomain
<1>2. q.state.next_cursor >= r.state.next_cursor
  BY <1>1, OrderedFields DEF Calm
<1>3. q.state \in Written(r.state)
  BY <1>1, <1>2, LaterKept DEF Calm
<1> QED BY <1>3 DEF Calm, Leads, SameDrive

(* Doing nothing leads on.                                                 *)
LEMMA LeadsReflexive ==
  ASSUME NEW r \in Controller
  PROVE  Leads(r, r)
BY CalmLeads DEF Calm, SameDomain

(* Replacing the snapshot by a later one.                                  *)
LEMMA StateReplaced ==
  ASSUME NEW r \in Controller, NEW t \in Written(r.state)
  PROVE  Leads(r, [r EXCEPT !.state = t])
BY DEF Leads, Written, SameDrive, Controller

-----------------------------------------------------------------------------
(* DeviceHardware.                                                         *)

(* audit appends one event: the cursor grows by one, nothing else moves.   *)
LEMMA AuditFacts ==
  ASSUME NEW r \in Controller
  PROVE  /\ Audit(r) \in Controller
         /\ Audit(r).mode = r.mode /\ Audit(r).active = r.active
         /\ SameDomain(r.state, Audit(r).state)
         /\ Audit(r).state.generation = r.state.generation
         /\ Audit(r).state.firmware = r.state.firmware
         /\ Audit(r).state.next_cursor = r.state.next_cursor + 1
         /\ Audit(r).state \in Snapshot
<1> DEFINE n == r.state.next_cursor + 1
           t == [r.state EXCEPT !.next_cursor = n, !.conflict_last = FALSE]
<1>1. r.state \in Snapshot
  BY DEF Controller
<1>2. n \in Nat \ {0}
  BY <1>1, OrderedFields
<1>3. Audit(r) = [r EXCEPT !.state = t]
  BY <1>1, Zenon DEF Audit, Controller, Snapshot
<1> HIDE DEF n
<1>4. t \in Snapshot
  BY <1>1, <1>2, Zenon DEF Snapshot
<1>5. /\ SameDomain(r.state, t)
      /\ t.generation = r.state.generation /\ t.firmware = r.state.firmware
      /\ t.next_cursor = n
  BY <1>1 DEF Snapshot, SameDomain
<1> HIDE DEF t
<1>6. /\ [r EXCEPT !.state = t] \in Controller
      /\ [r EXCEPT !.state = t].state = t
      /\ [r EXCEPT !.state = t].mode = r.mode
      /\ [r EXCEPT !.state = t].active = r.active
  BY <1>4 DEF Controller
<1> QED BY <1>3, <1>4, <1>5, <1>6 DEF n

(* audit leads on.                                                         *)
LEMMA AuditLeads ==
  ASSUME NEW r \in Controller
  PROVE  Leads(r, Audit(r))
<1>1. r.state \in Snapshot
  BY DEF Controller
<1>2. Audit(r).state.next_cursor >= r.state.next_cursor
  BY <1>1, AuditFacts, OrderedFields
<1>3. Audit(r).state \in Written(r.state)
  BY <1>1, <1>2, AuditFacts, LaterKept
<1> QED BY <1>3, AuditFacts DEF Leads, SameDrive

(* So does the event of a sensor conflict.                                 *)
LEMMA AuditConflictLeads ==
  ASSUME NEW r \in Controller
  PROVE  Leads(r, AuditConflict(r))
<1> DEFINE n == r.state.next_cursor + 1
           t == [r.state EXCEPT !.next_cursor = n, !.conflict_last = TRUE]
<1>1. r.state \in Snapshot
  BY DEF Controller
<1>2. n \in Nat \ {0} /\ n >= r.state.next_cursor
  BY <1>1, OrderedFields
<1>3. AuditConflict(r) = r \/ AuditConflict(r) = [r EXCEPT !.state = t]
  BY <1>1, Zenon DEF AuditConflict, Controller, Snapshot
<1> HIDE DEF n
<1>4. t \in Snapshot
  BY <1>1, <1>2, Zenon DEF Snapshot
<1>5. /\ SameDomain(r.state, t)
      /\ t.generation = r.state.generation /\ t.next_cursor = n
  BY <1>1 DEF Snapshot, SameDomain
<1> HIDE DEF t
<1>6. t \in Written(r.state)
  BY <1>1, <1>2, <1>4, <1>5, LaterKept
<1> QED BY <1>3, <1>6, StateReplaced, LeadsReflexive

(* Clearing and scheduling a relock touch neither the drive nor an order.  *)
LEMMA RelockClearedCalm ==
  ASSUME NEW r \in Controller
  PROVE  Calm(r, RelockCleared(r))
<1> DEFINE t == [r.state EXCEPT !.pending_relock = FALSE]
<1>1. r.state \in Snapshot
  BY DEF Controller
<1>2. RelockCleared(r) = [r EXCEPT !.state = t, !.relock_deadline = Never]
  BY <1>1 DEF RelockCleared, Controller, Snapshot
<1>3. t \in Snapshot
  BY <1>1, Zenon DEF Snapshot
<1>4. /\ SameDomain(r.state, t)
      /\ t.generation = r.state.generation /\ t.firmware = r.state.firmware
      /\ t.next_cursor = r.state.next_cursor
  BY <1>1 DEF Snapshot, SameDomain
<1> HIDE DEF t
<1> QED BY <1>2, <1>3, <1>4, ZenonT(40) DEF Calm, Controller, SameDomain

(* schedule_relock sets a deadline of the declared type.                   *)
LEMMA RelockScheduledCalm ==
  ASSUME NEW r \in Controller
  PROVE  Calm(r, RelockScheduled(r))
<1> DEFINE c == r.state.config
           t == [r.state EXCEPT !.pending_relock = TRUE]
           d == IF c.auto_relock = "Delay" \/ r.sample.door = "Closed" THEN c.delay ELSE Never
<1>1. r.state \in Snapshot
  BY DEF Controller
<1>2. \/ RelockScheduled(r) = r
      \/ RelockScheduled(r) = [r EXCEPT !.state = t, !.relock_deadline = d]
  BY <1>1 DEF RelockScheduled, Controller, Snapshot
<1>3. t \in Snapshot
  BY <1>1, Zenon DEF Snapshot
<1>4. /\ SameDomain(r.state, t)
      /\ t.generation = r.state.generation /\ t.firmware = r.state.firmware
      /\ t.next_cursor = r.state.next_cursor
  BY <1>1 DEF Snapshot, SameDomain
<1>5. d \in Nat \cup {Never}
  <2>1. c.delay \in Nat
    BY <1>1 DEF Snapshot, Config
  <2> QED BY <2>1
<1> HIDE DEF t, d
<1> QED BY <1>2, <1>3, <1>4, <1>5, ZenonT(40) DEF Calm, Controller, SameDomain

(* A new phase leaves the records well-typed.                              *)
LEMMA SetPhaseType ==
  ASSUME NEW ops \in Seq(OperationRecord), NEW id, NEW seq, NEW phase \in Phases
  PROVE  SetPhase(ops, id, seq, phase) \in Seq(OperationRecord)
<1> DEFINE f(i) == IF ops[i].id = id /\ ops[i].seq = seq
                   THEN [ops[i] EXCEPT !.phase = phase] ELSE ops[i]
<1>1. ASSUME NEW i \in 1..Len(ops) PROVE f(i) \in OperationRecord
  <2>1. ops[i] \in OperationRecord
    OBVIOUS
  <2> QED BY <2>1 DEF OperationRecord
<1>2. Len(ops) \in Nat
  OBVIOUS
<1> HIDE DEF f
<1>3. [i \in 1..Len(ops) |-> f(i)] \in Seq(OperationRecord)
  BY <1>1, <1>2
<1> QED BY <1>3 DEF SetPhase, f

(* Replacing the records touches neither the drive nor an order.           *)
LEMMA OperationsReplaced ==
  ASSUME NEW r \in Controller, NEW ops \in Seq(OperationRecord)
  PROVE  Calm(r, [r EXCEPT !.state.operations = ops])
<1> DEFINE t == [r.state EXCEPT !.operations = ops]
<1>1. r.state \in Snapshot
  BY DEF Controller
<1>2. [r EXCEPT !.state.operations = ops] = [r EXCEPT !.state = t]
  BY <1>1 DEF Controller, Snapshot
<1>3. t \in Snapshot
  BY <1>1, Zenon DEF Snapshot
<1>4. /\ SameDomain(r.state, t)
      /\ t.generation = r.state.generation /\ t.firmware = r.state.firmware
      /\ t.next_cursor = r.state.next_cursor
  BY <1>1 DEF Snapshot, SameDomain
<1> HIDE DEF t
<1> QED BY <1>2, <1>3, <1>4 DEF Calm, Controller, SameDomain

(* finish leads on, and leaves the drive and the firmware alone.           *)
LEMMA FinishedLeads ==
  ASSUME NEW r \in Controller, NEW g, NEW seq, NEW phase \in Phases
  PROVE  /\ Leads(r, Finished(r, g, seq, phase))
         /\ Finished(r, g, seq, phase).active = r.active
<1> DEFINE ops == SetPhase(r.state.operations, g.id, seq, phase)
           q == [r EXCEPT !.state.operations = ops]
<1>1. r.state.operations \in Seq(OperationRecord)
  BY DEF Controller, Snapshot
<1>2. ops \in Seq(OperationRecord)
  BY <1>1, SetPhaseType
<1>3. Finished(r, g, seq, phase) = Audit(q)
  BY DEF Finished
<1> HIDE DEF ops
<1>4. Calm(r, q)
  BY <1>2, OperationsReplaced
<1> HIDE DEF q
<1>5. q \in Controller /\ q.active = r.active
  BY <1>4 DEF Calm
<1>6. Leads(r, q) /\ Leads(q, Audit(q)) /\ Audit(q).active = q.active
  BY <1>4, <1>5, CalmLeads, AuditLeads, AuditFacts
<1> QED BY <1>3, <1>5, <1>6, LeadsTransitive

(* So does the result of a drive.                                          *)
LEMMA DriveEndedLeads ==
  ASSUME NEW r \in Controller, NEW a, NEW phase \in Phases
  PROVE  Leads(r, DriveEnded(r, a, phase))
BY AuditLeads, FinishedLeads DEF DriveEnded

(* A drive that is given up: no drive is left, whatever the fault and the  *)
(* bolt reading noted with it.                                             *)
LEMMA RestedLeads ==
  ASSUME NEW r \in Controller, NEW f \in Faults,
         NEW b \in {"None", "Locked", "Unlocked"}, NEW w \in Sample
  PROVE  Leads(r, [r EXCEPT !.active = NoActive, !.last_idle_bolt = b, !.fault = f,
                            !.sample = w, !.state.automatic_inflight = FALSE])
<1> DEFINE t == [r.state EXCEPT !.automatic_inflight = FALSE]
           q == [r EXCEPT !.active = NoActive, !.last_idle_bolt = b, !.fault = f,
                          !.sample = w, !.state.automatic_inflight = FALSE]
<1>1. r.state \in Snapshot
  BY DEF Controller
<1>2. q = [r EXCEPT !.active = NoActive, !.last_idle_bolt = b, !.fault = f,
                    !.sample = w, !.state = t]
  BY <1>1 DEF Controller, Snapshot
<1>3. t \in Snapshot
  BY <1>1, Zenon DEF Snapshot
<1>4. /\ SameDomain(r.state, t)
      /\ t.generation = r.state.generation /\ t.next_cursor = r.state.next_cursor
  BY <1>1 DEF Snapshot, SameDomain
<1>5. t.next_cursor >= r.state.next_cursor
  BY <1>1, <1>4, OrderedFields
<1>6. t \in Written(r.state)
  BY <1>1, <1>3, <1>4, <1>5, LaterKept, Zenon
<1>7. NoActive \in Active /\ NoActive.target = "None"
  BY DEF NoActive, Active, NoId, ActuationIds
<1> HIDE DEF t
<1>8. q \in Controller /\ q.mode = r.mode /\ q.active = NoActive /\ q.state = t
  BY <1>2, <1>3, <1>7, ZenonT(40) DEF Controller
<1> HIDE DEF q
<1> QED BY <1>6, <1>7, <1>8, Zenon DEF Leads, SameDrive, q

(* A stop that failed: only the mode has changed, the drive is still on.   *)
StillOn(r, q) == q.mode = "poisoned" /\ q.active = r.active

(* A sample after validation failed is a sample.                           *)
LEMMA SanitizedType == Sanitized \in Sample
BY DEF Sanitized, Sample, BoltReadings, DoorReadings, PrivacyReadings

(* The readings of the bolt that are kept while idle.                      *)
LEMMA KnownBoltType ==
  ASSUME NEW w PROVE KnownBolt(w) \in {"None", "Locked", "Unlocked"}
BY DEF KnownBolt

(* A sensor fault ends the drive with its result, or the stop failed.      *)
LEMMA SensorFaultLeads ==
  ASSUME NEW r \in Controller, NEW stops \in BOOLEAN
  PROVE  Leads(r, SensorFault(r, stops)) \/ StillOn(r, SensorFault(r, stops))
<1> DEFINE bad == [r EXCEPT !.fault = "SensorConflict", !.sample = Sanitized]
           rest == [bad EXCEPT !.active = NoActive, !.state.automatic_inflight = FALSE]
           gone == IF r.active.target = "Lock" THEN RelockCleared(rest) ELSE rest
           done == DriveEnded(gone, r.active, "Failed")
<1>1. Calm(r, bad)
  BY SanitizedType, Zenon DEF Calm, Controller, SameDomain, Faults
<1>2. r.last_idle_bolt \in {"None", "Locked", "Unlocked"} /\ "SensorConflict" \in Faults
  BY DEF Controller, Faults
<1>3. Leads(r, [r EXCEPT !.active = NoActive, !.last_idle_bolt = r.last_idle_bolt,
                         !.fault = "SensorConflict", !.sample = Sanitized,
                         !.state.automatic_inflight = FALSE])
  BY <1>2, RestedLeads, SanitizedType, Zenon
<1>4. Leads(r, rest)
  <2>1. rest = [r EXCEPT !.active = NoActive, !.last_idle_bolt = r.last_idle_bolt,
                         !.fault = "SensorConflict", !.sample = Sanitized,
                         !.state.automatic_inflight = FALSE]
    BY Zenon DEF Controller
  <2> HIDE DEF rest
  <2> QED BY <1>3, <2>1
<1>5. CASE ~Busy(r)
  <2>1. SensorFault(r, stops) = AuditConflict(bad)
    BY <1>5 DEF SensorFault
  <2> HIDE DEF bad
  <2>2. bad \in Controller /\ Leads(r, bad)
    BY <1>1, CalmLeads DEF Calm
  <2> QED BY <2>1, <2>2, AuditConflictLeads, LeadsTransitive
<1>6. CASE Busy(r) /\ ~stops
  <2>1. SensorFault(r, stops) = Stuck(bad)
    BY <1>6 DEF SensorFault
  <2>2. StillOn(r, Stuck(bad))
    BY <1>1 DEF StillOn, Stuck, Calm, Controller
  <2> QED BY <2>1, <2>2
<1>7. CASE Busy(r) /\ stops
  <2>1. SensorFault(r, stops) = AuditConflict(done)
    BY <1>7 DEF SensorFault
  <2> HIDE DEF rest
  <2>2. rest \in Controller
    BY <1>4 DEF Leads
  <2>3. Leads(rest, gone)
    BY <2>2, RelockClearedCalm, CalmLeads, LeadsReflexive
  <2> HIDE DEF gone
  <2>4. gone \in Controller /\ Leads(r, gone)
    BY <1>4, <2>3, LeadsTransitive DEF Leads
  <2>5. Leads(gone, done)
    BY <2>4, DriveEndedLeads DEF Phases
  <2> HIDE DEF done
  <2>6. done \in Controller /\ Leads(r, done)
    BY <2>4, <2>5, LeadsTransitive DEF Leads
  <2> QED BY <2>1, <2>6, AuditConflictLeads, LeadsTransitive
<1> QED BY <1>5, <1>6, <1>7

(* stop_unsafe_action ends the drive with its result, or the stop failed.  *)
LEMMA UnsafeStoppedLeads ==
  ASSUME NEW r \in Controller, NEW stops \in BOOLEAN
  PROVE  Leads(r, UnsafeStopped(r, stops)) \/ StillOn(r, UnsafeStopped(r, stops))
<1> DEFINE rest == [r EXCEPT !.active = NoActive, !.last_idle_bolt = KnownBolt(r.sample),
                             !.fault = UnsafeFault(r), !.state.automatic_inflight = FALSE]
           gone == IF r.active.target = "Lock" \/ r.sample.bolt = "Locked"
                   THEN RelockCleared(rest) ELSE rest
           done == DriveEnded(gone, r.active, "Failed")
<1>1. UnsafeFault(r) \in Faults /\ r.sample \in Sample
  BY DEF UnsafeFault, Faults, Controller
<1>2. Leads(r, [r EXCEPT !.active = NoActive, !.last_idle_bolt = KnownBolt(r.sample),
                         !.fault = UnsafeFault(r), !.sample = r.sample,
                         !.state.automatic_inflight = FALSE])
  BY <1>1, RestedLeads, KnownBoltType, Zenon
<1>3. Leads(r, rest)
  <2>1. rest = [r EXCEPT !.active = NoActive, !.last_idle_bolt = KnownBolt(r.sample),
                         !.fault = UnsafeFault(r), !.sample = r.sample,
                         !.state.automatic_inflight = FALSE]
    BY Zenon DEF Controller
  <2> HIDE DEF rest
  <2> QED BY <1>2, <2>1
<1>4. CASE ~Unsafe(r)
  BY <1>4, LeadsReflexive DEF UnsafeStopped
<1>5. CASE Unsafe(r) /\ ~stops
  BY <1>5 DEF UnsafeStopped, StillOn, Stuck, Controller
<1>6. CASE Unsafe(r) /\ stops
  <2>1. UnsafeStopped(r, stops) = done
    BY <1>6 DEF UnsafeStopped
  <2> HIDE DEF rest
  <2>2. rest \in Controller
    BY <1>3 DEF Leads
  <2>3. Leads(rest, gone)
    BY <2>2, RelockClearedCalm, CalmLeads, LeadsReflexive
  <2> HIDE DEF gone
  <2>4. gone \in Controller /\ Leads(r, gone)
    BY <1>3, <2>3, LeadsTransitive DEF Leads
  <2>5. Leads(gone, done)
    BY <2>4, DriveEndedLeads DEF Phases
  <2> HIDE DEF done
  <2> QED BY <2>1, <2>4, <2>5, LeadsTransitive
<1> QED BY <1>4, <1>5, <1>6

(* The door timers are volatile.                                           *)
LEMMA DoorNotedCalm ==
  ASSUME NEW r \in Controller, NEW old
  PROVE  Calm(r, DoorNoted(r, old))
<1>1. r.state.config.delay \in Nat
  BY DEF Controller, Snapshot, Config
<1> DEFINE f == IF r.sample.door = "Closed" /\ r.fault = "DoorAjar" THEN "None" ELSE r.fault
           n == IF r.sample.door = "Open" THEN 0 ELSE Never
           d == IF r.state.pending_relock /\ r.state.config.auto_relock = "AfterClose"
                THEN IF r.sample.door = "Closed" THEN r.state.config.delay ELSE Never
                ELSE r.relock_deadline
<1>2. f \in Faults /\ n \in Nat \cup {Never} /\ d \in Nat \cup {Never}
  BY <1>1 DEF Faults, Controller
<1>3. \/ DoorNoted(r, old) = r
      \/ DoorNoted(r, old) = [r EXCEPT !.fault = f, !.door_open_for = n, !.relock_deadline = d]
  BY DEF DoorNoted
<1> HIDE DEF f, n, d
<1> QED BY <1>2, <1>3, ZenonT(40) DEF Calm, Controller, SameDomain

(* The part of observe_hardware after the interlock leads on.              *)
LEMMA NotedLeads ==
  ASSUME NEW r \in Controller, NEW before
  PROVE  Leads(r, Noted(r, before))
<1> DEFINE bolt == r.sample.bolt
           seen == IF ~Busy(before) /\ bolt \in {"Locked", "Unlocked"}
                   THEN [r EXCEPT !.last_idle_bolt = bolt] ELSE r
           confirmed == bolt = "Locked" /\ r.active.target # "Unlock"
           logged == IF r.sample # before.sample THEN Audit(seen) ELSE seen
           cleared == IF confirmed THEN RelockCleared(logged) ELSE logged
           doored == DoorNoted(cleared, before.sample)
<1>1. Calm(r, seen)
  BY DEF Calm, Controller, SameDomain
<1>2. \/ Noted(r, before) = seen
      \/ Noted(r, before) = doored
      \/ Noted(r, before) = RelockScheduled(doored)
  BY DEF Noted
<1> HIDE DEF seen
<1>3. seen \in Controller /\ Leads(r, seen)
  BY <1>1, CalmLeads DEF Calm
<1>4. logged \in Controller /\ Leads(r, logged)
  <2>1. Leads(seen, logged)
    BY <1>3, AuditLeads, LeadsReflexive
  <2> HIDE DEF logged
  <2> QED BY <1>3, <2>1, LeadsTransitive DEF Leads
<1> HIDE DEF logged
<1>5. cleared \in Controller /\ Leads(r, cleared)
  <2>1. Leads(logged, cleared)
    BY <1>4, RelockClearedCalm, CalmLeads, LeadsReflexive
  <2> HIDE DEF cleared
  <2> QED BY <1>4, <2>1, LeadsTransitive DEF Leads
<1> HIDE DEF cleared
<1>6. doored \in Controller /\ Leads(r, doored)
  <2>1. Leads(cleared, doored)
    BY <1>5, DoorNotedCalm, CalmLeads
  <2> HIDE DEF doored
  <2> QED BY <1>5, <2>1, LeadsTransitive DEF Leads
<1> HIDE DEF doored
<1>7. Leads(r, RelockScheduled(doored))
  BY <1>6, RelockScheduledCalm, CalmLeads, LeadsTransitive
<1> QED BY <1>2, <1>3, <1>6, <1>7

(* observe_hardware leaves a running controller that r leads to, with all  *)
(* its commits later than r's snapshot, or a poisoned one whose drive is   *)
(* still on.                                                               *)
LEMMA ObservedLeads ==
  ASSUME NEW r \in Controller, r.mode = "ready", NEW w \in Sample, NEW stops \in BOOLEAN
  PROVE  LET o == Observed(r, w, stops) IN
         \/ Leads(r, o.ctl) /\ o.writes \subseteq Written(r.state)
         \/ StillOn(r, o.ctl)
<1> DEFINE o == Observed(r, w, stops)
<1>1. CASE ~ValidSample(w)
  <2> DEFINE f == SensorFault(r, stops)
  <2>1. o.ctl = f /\ o.writes = {f.state}
    BY <1>1 DEF Observed
  <2>2. Leads(r, f) \/ StillOn(r, f)
    BY SensorFaultLeads
  <2> HIDE DEF o, f
  <2> QED BY <2>1, <2>2 DEF o, Leads
<1>2. CASE ValidSample(w)
  <2> DEFINE q == [r EXCEPT !.sample = w]
             safe == UnsafeStopped(q, stops)
             note == IF safe.mode = "poisoned" THEN safe ELSE Noted(safe, r)
  <2>1. o.ctl = note /\ o.writes = {safe.state, note.state}
    BY <1>2 DEF Observed
  <2>2. Calm(r, q)
    BY DEF Calm, Controller, SameDomain
  <2> HIDE DEF o, q
  <2>3. q \in Controller /\ Leads(r, q) /\ q.active = r.active /\ q.mode = "ready"
    BY <2>2, CalmLeads DEF Calm
  <2>4. Leads(q, safe) \/ StillOn(q, safe)
    BY <2>3, UnsafeStoppedLeads
  <2> HIDE DEF safe
  <2>5. CASE StillOn(q, safe)
    BY <2>1, <2>3, <2>5 DEF StillOn, o
  <2>6. CASE Leads(q, safe)
    <3>1. safe \in Controller /\ safe.mode = "ready" /\ Leads(r, safe)
      BY <2>3, <2>6, LeadsTransitive DEF Leads
    <3>2. Leads(safe, note)
      BY <3>1, NotedLeads
    <3> HIDE DEF note
    <3>3. Leads(r, note)
      BY <3>1, <3>2, LeadsTransitive
    <3> QED BY <2>1, <3>1, <3>3 DEF Leads, o
  <2> QED BY <2>4, <2>5, <2>6
<1> QED BY <1>1, <1>2

(* What recovery makes of the records is well-typed.                       *)
LEMMA InterruptedType ==
  ASSUME NEW ops \in Seq(OperationRecord)
  PROVE  Interrupted(ops) \in Seq(OperationRecord)
<1> DEFINE f(i) == IF ops[i].phase \in Pending THEN [ops[i] EXCEPT !.phase = "Unknown"]
                   ELSE ops[i]
<1>1. ASSUME NEW i \in 1..Len(ops) PROVE f(i) \in OperationRecord
  <2>1. ops[i] \in OperationRecord
    OBVIOUS
  <2> QED BY <2>1 DEF OperationRecord, Phases
<1>2. Len(ops) \in Nat
  OBVIOUS
<1> HIDE DEF f
<1>3. [i \in 1..Len(ops) |-> f(i)] \in Seq(OperationRecord)
  BY <1>1, <1>2
<1> QED BY <1>3 DEF Interrupted, f

-----------------------------------------------------------------------------
(* Constructors.                                                           *)

(* The factory snapshot, and the store before it, are well-typed.          *)
LEMMA FactoryType == Factory \in Snapshot /\ Absent \in Snapshot
<1>1. FactoryConfig \in Config
  BY InfoAssumption DEF FactoryConfig, Config, InfoFields, DefaultTimeout
<1>2. <<>> \in Seq(OperationRecord)
  OBVIOUS
<1>3. 1 \in Nat \ {0} /\ 0 \in Nat
  OBVIOUS
<1>4. "Empty" \in FirmwarePhases
  BY DEF FirmwarePhases
<1>5. Factory \in Snapshot
  BY <1>1, <1>2, <1>3, <1>4, Zenon DEF Factory, Snapshot
<1> QED BY <1>5, Zenon DEF Absent, Snapshot

(* No drive is a well-typed one.                                           *)
LEMMA NoActiveType == NoActive \in Active /\ NoActive.target = "None"
BY DEF NoActive, Active, NoId, ActuationIds

(* The controller before it is opened is well-typed.                       *)
LEMMA OffType == Off \in Controller /\ Off.active = NoActive /\ Off.mode = "off"
<1>1. NoConfirmation \in [peer : Peers \cup {None}, digest : Commands \cup {None}, left : Nat]
  BY DEF NoConfirmation
<1> QED BY <1>1, FactoryType, NoActiveType, SanitizedType DEF Off, Controller, Faults, Never

(* A constructor makes a running controller without a drive, with a        *)
(* snapshot later than the stored one.                                     *)
LEMMA RecoveredFacts ==
  ASSUME NEW s \in Snapshot, NEW w \in Sample
  PROVE  /\ Recovered(s, w) \in Controller
         /\ Recovered(s, w).mode = "ready"
         /\ Recovered(s, w).active = NoActive
         /\ Recovered(s, w).state \in Written(s)
<1> DEFINE b == s.pending_relock /\ w.bolt # "Locked"
           ops == Interrupted(s.operations)
           t == [s EXCEPT !.automatic_inflight = FALSE, !.pending_relock = b,
                          !.operations = ops]
           f == IF s.automatic_inflight THEN "Driver" ELSE "None"
           d == IF t.pending_relock THEN 0 ELSE Never
           n == IF w.door = "Open" THEN 0 ELSE Never
           k == KnownBolt(w)
           r == [Off EXCEPT !.mode = "ready", !.state = t, !.sample = w,
                            !.last_idle_bolt = k, !.fault = f,
                            !.relock_deadline = d, !.door_open_for = n]
<1>1. ops \in Seq(OperationRecord) /\ b \in BOOLEAN
  BY InterruptedType DEF Snapshot
<1>2. Recovered(s, w) = IF s.automatic_inflight THEN Audit(r) ELSE r
  BY Zenon DEF Recovered
<1>3. /\ f \in Faults /\ d \in Nat \cup {Never} /\ n \in Nat \cup {Never}
      /\ k \in {"None", "Locked", "Unlocked"}
  BY KnownBoltType DEF Faults
<1> HIDE DEF ops, b, f, d, n, k
<1>4. /\ t \in Snapshot
      /\ SameDomain(s, t)
      /\ t.generation = s.generation /\ t.next_cursor = s.next_cursor
  BY <1>1, Zenon DEF Snapshot, SameDomain
<1> HIDE DEF t
<1>5. /\ r \in Controller /\ r.mode = "ready" /\ r.active = NoActive /\ r.state = t
  BY <1>3, <1>4, OffType, Zenon DEF Controller
<1> HIDE DEF r
<1>6. t \in Written(s)
  <2>1. t.next_cursor >= s.next_cursor
    BY <1>4, OrderedFields
  <2> QED BY <1>4, <2>1, LaterKept
<1>7. Audit(r) \in Controller /\ Audit(r).mode = "ready" /\ Audit(r).active = NoActive
  BY <1>5, AuditFacts
<1>8. Audit(r).state \in Written(s)
  BY <1>5, <1>6, AuditLeads, LaterTransitive DEF Leads
<1> QED BY <1>2, <1>5, <1>6, <1>7, <1>8

(* A snapshot with another firmware phase.                                 *)
LEMMA FirmwareSnapshot ==
  ASSUME NEW s \in Snapshot, NEW p \in FirmwarePhases
  PROVE  LET t == [s EXCEPT !.firmware = p]
         IN /\ t \in Snapshot
            /\ SameDomain(s, t)
            /\ t.generation = s.generation /\ t.next_cursor = s.next_cursor
BY Zenon DEF Snapshot, SameDomain

(* A new firmware phase touches neither the drive nor an order.            *)
LEMMA FirmwareLeads ==
  ASSUME NEW r \in Controller, NEW p \in FirmwarePhases
  PROVE  /\ Leads(r, [r EXCEPT !.state.firmware = p])
         /\ [r EXCEPT !.state.firmware = p].active = r.active
<1> DEFINE t == [r.state EXCEPT !.firmware = p]
<1>1. r.state \in Snapshot
  BY DEF Controller
<1>2. [r EXCEPT !.state.firmware = p] = [r EXCEPT !.state = t]
  BY <1>1 DEF Controller, Snapshot
<1>3. /\ t \in Snapshot
      /\ SameDomain(r.state, t)
      /\ t.generation = r.state.generation /\ t.next_cursor = r.state.next_cursor
  BY <1>1, FirmwareSnapshot
<1> HIDE DEF t
<1>4. t \in Written(r.state)
  <2>1. t.next_cursor >= r.state.next_cursor
    BY <1>1, <1>3, OrderedFields
  <2> QED BY <1>1, <1>3, <2>1, LaterKept
<1>5. [r EXCEPT !.state = t].active = r.active
  BY DEF Controller
<1> QED BY <1>2, <1>4, <1>5, StateReplaced

(* reconcile_boot leads on, and leaves the drive alone.                    *)
LEMMA ReconciledLeads ==
  ASSUME NEW r \in Controller, NEW q \in Reconciled(r)
  PROVE  Leads(r, q) /\ q.active = r.active
<1>1. CASE q = r
  BY <1>1, LeadsReflexive
<1>2. CASE q # r
  <2> DEFINE m(p) == [r EXCEPT !.state.firmware = p]
  <2>1. q \in {Audit(m(p)) : p \in {"Confirmed", "Failed"}}
    BY <1>2, Zenon DEF Reconciled
  <2>2. ASSUME NEW p \in {"Confirmed", "Failed"}
        PROVE  Leads(r, m(p)) /\ m(p).active = r.active
    <3>1. p \in FirmwarePhases
      BY DEF FirmwarePhases
    <3> QED BY <3>1, FirmwareLeads
  <2> HIDE DEF m
  <2>3. PICK p \in {"Confirmed", "Failed"} : q = Audit(m(p))
    BY <2>1
  <2>4. m(p) \in Controller /\ Leads(m(p), Audit(m(p))) /\ Audit(m(p)).active = m(p).active
    BY <2>2, AuditLeads, AuditFacts DEF Leads
  <2> QED BY <2>2, <2>3, <2>4, LeadsTransitive
<1> QED BY <1>1, <1>2

(* What migrate_legacy stores is well-typed.                               *)
LEMMA MigratedType ==
  ASSUME NEW l \in [issuer : Issuers, epoch : Nat, policy_version : Nat,
                    revoked : SUBSET CredentialIds, usage : [CredentialIds -> Nat]]
  PROVE  Migrated(l) \in Snapshot
<1>1. 1 \in Nat
  OBVIOUS
<1> QED BY <1>1, FactoryType, Zenon DEF Migrated, Snapshot

-----------------------------------------------------------------------------
(* Results and polls.                                                      *)

(* r leads to q, and q has the drive of r.                                 *)
Onward(r, q) == Leads(r, q) /\ q.active = r.active

(* Steps that keep the drive keep it in sequence.                          *)
LEMMA OnwardTransitive ==
  ASSUME NEW r \in Controller, NEW q, NEW p, Onward(r, q), Onward(q, p)
  PROVE  Onward(r, p)
BY LeadsTransitive DEF Onward

(* Methods that touch neither the drive nor an order keep the drive.       *)
LEMMA CalmOnward ==
  ASSUME NEW r \in Controller, NEW q, Calm(r, q)
  PROVE  Onward(r, q)
BY CalmLeads DEF Calm, Onward

(* So does audit.                                                          *)
LEMMA AuditOnward ==
  ASSUME NEW r \in Controller
  PROVE  Onward(r, Audit(r))
BY AuditLeads, AuditFacts DEF Onward

(* And whatever is audited after it.                                       *)
LEMMA AuditedOnward ==
  ASSUME NEW r \in Controller, NEW q, Onward(r, q)
  PROVE  Onward(r, Audit(q))
<1>1. q \in Controller
  BY DEF Onward, Leads
<1> QED BY <1>1, AuditOnward, OnwardTransitive

(* The flag of an automatic drive touches neither the drive nor an order.  *)
LEMMA InflightCalm ==
  ASSUME NEW r \in Controller, NEW b \in BOOLEAN
  PROVE  Calm(r, [r EXCEPT !.state.automatic_inflight = b])
<1> DEFINE t == [r.state EXCEPT !.automatic_inflight = b]
<1>1. r.state \in Snapshot
  BY DEF Controller
<1>2. [r EXCEPT !.state.automatic_inflight = b] = [r EXCEPT !.state = t]
  BY <1>1 DEF Controller, Snapshot
<1>3. t \in Snapshot
  BY <1>1, Zenon DEF Snapshot
<1>4. /\ SameDomain(r.state, t)
      /\ t.generation = r.state.generation /\ t.firmware = r.state.firmware
      /\ t.next_cursor = r.state.next_cursor
  BY <1>1 DEF Snapshot, SameDomain
<1> HIDE DEF t
<1> QED BY <1>2, <1>3, <1>4 DEF Calm, Controller, SameDomain

(* The result of a drive leaves the active drive as it is.                 *)
LEMMA DriveEndedOnward ==
  ASSUME NEW r \in Controller, NEW a, NEW phase \in Phases
  PROVE  Onward(r, DriveEnded(r, a, phase))
BY AuditOnward, FinishedLeads DEF DriveEnded, Onward

(* actuator_finished leads on to a controller without a drive.             *)
LEMMA SettledLeads ==
  ASSUME NEW r \in Controller, NEW a, NEW result \in Results
  PROVE  /\ Leads(r, Settled(r, a, result).ctl)
         /\ Settled(r, a, result).ctl.active = NoActive
         /\ Settled(r, a, result).writes \subseteq Written(r.state)
<1> DEFINE contrary == result = "Completed"
                         /\ KnownBolt(r.sample) \notin {"None", Expected(a.target)}
           phase == IF result = "Completed" /\ ~contrary THEN "Completed" ELSE "Failed"
           fault == CASE contrary -> "SensorConflict"
                      [] result = "Completed" /\ ~contrary -> "None"
                      [] result = "Failed" -> "Driver"
                      [] OTHER -> result
           bolt == KnownBolt(r.sample)
           rest == [r EXCEPT !.active = NoActive, !.last_idle_bolt = bolt, !.fault = fault]
           owed == IF phase = "Completed" /\ a.target = "Unlock"
                   THEN RelockScheduled(rest) ELSE rest
           over == [owed EXCEPT !.state.automatic_inflight = FALSE]
           kept == IF a.target = "Lock" \/ r.sample.bolt = "Locked"
                   THEN RelockCleared(over) ELSE owed
           done == DriveEnded(kept, a, phase)
<1>1. Settled(r, a, result) = [ctl |-> done, writes |-> {kept.state}]
  BY Zenon DEF Settled
<1>2. phase \in Phases /\ bolt \in {"None", "Locked", "Unlocked"}
  BY KnownBoltType DEF Phases
<1>3. fault \in Faults
  BY DEF Results, Faults
<1> HIDE DEF phase, fault, bolt
<1>4. rest \in Controller /\ rest.active = NoActive /\ rest.mode = r.mode
        /\ rest.state = r.state
  BY <1>2, <1>3, NoActiveType, Zenon DEF Controller
<1>5. Leads(r, rest)
  <2>1. r.state \in Written(r.state)
    BY LeadsReflexive DEF Leads
  <2> HIDE DEF rest
  <2> QED BY <1>4, <2>1, NoActiveType DEF Leads, SameDrive
<1> HIDE DEF rest
<1>6. Onward(rest, owed)
  BY <1>4, RelockScheduledCalm, CalmOnward, LeadsReflexive DEF Onward
<1> HIDE DEF owed
<1>7. owed \in Controller
  BY <1>6 DEF Onward, Leads
<1>8. Calm(owed, over)
  BY <1>7, InflightCalm, Zenon
<1> HIDE DEF over
<1>9. over \in Controller
  BY <1>8 DEF Calm
<1>10. Calm(owed, RelockCleared(over))
  BY <1>7, <1>8, <1>9, RelockClearedCalm, CalmTransitive
<1>11. Onward(owed, kept)
  BY <1>7, <1>10, CalmOnward, LeadsReflexive DEF Onward
<1> HIDE DEF kept
<1>12. Onward(rest, kept)
  BY <1>4, <1>6, <1>11, OnwardTransitive
<1>13. kept \in Controller
  BY <1>12 DEF Onward, Leads
<1>14. Onward(rest, done)
  BY <1>2, <1>4, <1>12, <1>13, DriveEndedOnward, OnwardTransitive
<1> HIDE DEF done
<1>15. Leads(r, done) /\ done.active = NoActive
  BY <1>4, <1>5, <1>14, LeadsTransitive DEF Onward
<1>16. kept.state \in Written(r.state)
  BY <1>4, <1>12 DEF Onward, Leads
<1> QED BY <1>1, <1>15, <1>16

(* The door-ajar alarm keeps the drive.                                    *)
LEMMA AjarOnward ==
  ASSUME NEW r \in Controller
  PROVE  Onward(r, Ajar(r))
<1> DEFINE q == [r EXCEPT !.fault = "DoorAjar"]
<1>1. Calm(r, q)
  BY DEF Calm, Controller, SameDomain, Faults
<1>2. Ajar(r) = r \/ Ajar(r) = Audit(q)
  BY DEF Ajar
<1> HIDE DEF q
<1>3. Onward(r, Audit(q))
  BY <1>1, CalmOnward, AuditedOnward
<1> QED BY <1>2, <1>3, LeadsReflexive DEF Onward

(* What a durable commitment to a drive adds to r: an event, so that the   *)
(* next actuation id is a new one.                                         *)
Commits(r, q) ==
  /\ Onward(r, q)
  /\ q.state.epoch = r.state.epoch
  /\ q.state.policy_version = r.state.policy_version
  /\ q.state.generation = r.state.generation
  /\ q.state.next_cursor = r.state.next_cursor + 1
  /\ q.state.firmware = r.state.firmware

(* audit of a controller that differs in neither the drive nor an order.   *)
LEMMA AuditCommits ==
  ASSUME NEW r \in Controller, NEW q, Calm(r, q)
  PROVE  Commits(r, Audit(q))
<1>1. q \in Controller
  BY DEF Calm
<1>2. Onward(r, Audit(q))
  BY CalmOnward, AuditedOnward
<1> QED BY <1>1, <1>2, AuditFacts DEF Commits, Calm, SameDomain

(* A claimed relock is committed.                                          *)
LEMMA RelockClaimedCommits ==
  ASSUME NEW r \in Controller
  PROVE  Commits(r, RelockClaimed(r))
<1> DEFINE t == [r.state EXCEPT !.pending_relock = FALSE, !.automatic_inflight = TRUE]
           q == [r EXCEPT !.state = t, !.relock_deadline = Never]
<1>1. r.state \in Snapshot
  BY DEF Controller
<1>2. RelockClaimed(r) = Audit(q)
  <2>1. q = [r EXCEPT !.state.pending_relock = FALSE, !.state.automatic_inflight = TRUE,
                      !.relock_deadline = Never]
    BY <1>1, Zenon DEF Controller, Snapshot
  <2> HIDE DEF q
  <2> QED BY <2>1 DEF RelockClaimed
<1>3. t \in Snapshot
  BY <1>1, Zenon DEF Snapshot
<1>4. /\ SameDomain(r.state, t)
      /\ t.generation = r.state.generation /\ t.firmware = r.state.firmware
      /\ t.next_cursor = r.state.next_cursor
  BY <1>1 DEF Snapshot, SameDomain
<1> HIDE DEF t
<1>5. Calm(r, q)
  BY <1>3, <1>4, Zenon DEF Calm, Controller, SameDomain
<1> HIDE DEF q
<1> QED BY <1>2, <1>5, AuditCommits

-----------------------------------------------------------------------------
(* Requests.                                                               *)

(* A table with one record less is a table.                                *)
LEMMA SlottedType ==
  ASSUME NEW r \in Controller
  PROVE  Slotted(r) \in Seq(OperationRecord)
<1>1. r.state.operations \in Seq(OperationRecord)
  BY DEF Controller, Snapshot
<1> QED BY <1>1 DEF Slotted

(* A command that needs a grant carries one.                               *)
LEMMA CommandGrant ==
  ASSUME NEW c \in Commands, c.op \in Mutations, c.op # "Claim"
  PROVE  /\ c.grant \in Grants /\ c.grant # None
         /\ c.grant.id \in CredentialIds /\ c.grant.epoch \in Nat
         /\ c.seq \in Nat
<1>1. WellFormed(c) /\ c.op # "PairingStatus"
  BY CommandsAssumption DEF Mutations
<1>2. c.grant \in Grants /\ c.seq \in Nat
  BY <1>1 DEF WellFormed
<1>3. c.grant \in Grant
  BY <1>2, GrantsAssumption
<1> QED BY <1>2, <1>3, NoneAssumption DEF Grant

(* The snapshot of an acceptance: only one watermark rises.                *)
LEMMA BookedFacts ==
  ASSUME NEW r \in Controller, NEW c \in Commands, c.op \in Mutations, c.op # "Claim",
         NEW ctx, Authorized(r, ctx, c), Fresh(r, c)
  PROVE  /\ Booked(r, c) \in Written(r.state)
         /\ Booked(r, c).watermarks[c.grant.id] = c.seq
         /\ Booked(r, c).epoch = r.state.epoch
         /\ Booked(r, c).policy_version = r.state.policy_version
         /\ Booked(r, c).generation = r.state.generation
         /\ Booked(r, c).next_cursor = r.state.next_cursor
         /\ Booked(r, c).firmware = r.state.firmware
<1> DEFINE id == c.grant.id
           g == c.grant
           new == [id |-> id, seq |-> c.seq, digest |-> c, phase |-> "Accepted"]
           ops == Append(Slotted(r), new)
           s == r.state
           n == IF ConsumesUse(r, c) THEN s.uses[id] + 1 ELSE s.uses[id]
           b == [s EXCEPT !.watermarks[id] = c.seq, !.bindings[id] = g, !.uses[id] = n,
                          !.operations = ops]
<1>1. s \in Snapshot
  BY DEF Controller
<1>2. s.watermarks \in [CredentialIds -> Nat] /\ s.uses \in [CredentialIds -> Nat]
  BY <1>1 DEF Snapshot
<1>3. id \in CredentialIds /\ c.seq \in Nat /\ g \in Grants /\ n \in Nat
  BY <1>2, CommandGrant
<1>4. ops \in Seq(OperationRecord)
  <2>1. new \in OperationRecord
    BY <1>3 DEF OperationRecord, Phases
  <2> HIDE DEF new
  <2> QED BY <2>1, SlottedType
<1>5. Booked(r, c) = b
  BY <1>1, <1>3 DEF Booked, Snapshot
<1>6. /\ c.seq > s.watermarks[id] /\ n >= s.uses[id]
      /\ s.owner # None /\ s.bindings[id] \in {None, g}
  BY <1>2, <1>3, CommandGrant, GrantsAssumption, NoneAssumption DEF Fresh, Authorized, Grant
<1> HIDE DEF id, g, ops, n, s
<1>7. /\ b \in Snapshot
      /\ b.watermarks = [s.watermarks EXCEPT ![id] = c.seq]
      /\ b.uses = [s.uses EXCEPT ![id] = n]
      /\ b.bindings = [s.bindings EXCEPT ![id] = g]
      /\ b.epoch = s.epoch /\ b.generation = s.generation /\ b.format = s.format
      /\ b.next_cursor = s.next_cursor /\ b.firmware = s.firmware
      /\ b.owner = s.owner /\ b.revoked = s.revoked
      /\ b.policy_version = s.policy_version
  BY <1>1, <1>3, <1>4, Zenon DEF Snapshot
<1> HIDE DEF b
<1>8. b.watermarks[id] = c.seq
  BY <1>2, <1>3, <1>7
<1>9. Retains(s, b)
  <2>1. \A k \in CredentialIds :
          b.watermarks[k] >= s.watermarks[k] /\ b.uses[k] >= s.uses[k]
    BY <1>2, <1>3, <1>6, <1>7
  <2>2. s.bindings \in [CredentialIds -> Grants \cup {None}]
    BY <1>1 DEF Snapshot
  <2>3. \A k \in CredentialIds : s.bindings[k] # None => b.bindings[k] = s.bindings[k]
    BY <1>3, <1>6, <1>7, <2>2
  <2>4. s.policy_version <= b.policy_version
    BY <1>1, <1>7, OrderedFields
  <2> QED BY <1>7, <2>1, <2>3, <2>4 DEF Retains
<1>10. b \in Written(s)
  <2>1. b.next_cursor >= s.next_cursor /\ b.epoch >= s.epoch
    BY <1>1, <1>7, OrderedFields
  <2>2. Unbound(b)
    BY <1>6, <1>7 DEF Unbound
  <2>3. OneDomain(s, b)
    BY <1>7 DEF OneDomain
  <2> QED BY <1>7, <1>9, <2>1, <2>2, <2>3 DEF Written, Later
<1> QED BY <1>5, <1>7, <1>8, <1>10 DEF id, s

(* Acceptance is a commitment: the watermark of the grant rises to the     *)
(* sequence number of the command, and an event is audited.                *)
LEMMA AcceptedCommits ==
  ASSUME NEW r \in Controller, NEW c \in Commands, c.op \in Mutations, c.op # "Claim",
         NEW ctx, Authorized(r, ctx, c), Fresh(r, c)
  PROVE  /\ Commits(r, Accepted(r, c))
         /\ Accepted(r, c).state.watermarks[c.grant.id] = c.seq
<1> DEFINE s == Booked(r, c)
           t == [r EXCEPT !.state = s]
           u == IF ConsumesUse(r, c) THEN RelockScheduled(t)
                ELSE IF c.op = "Lock" THEN RelockCleared(t)
                ELSE t
<1>1. Accepted(r, c) = Audit(u)
  BY Zenon DEF Accepted
<1>2. /\ s \in Written(r.state)
      /\ s.watermarks[c.grant.id] = c.seq
      /\ s.epoch = r.state.epoch /\ s.generation = r.state.generation
      /\ s.next_cursor = r.state.next_cursor /\ s.firmware = r.state.firmware
      /\ s.policy_version = r.state.policy_version
  BY BookedFacts
<1> HIDE DEF s
<1>3. Onward(r, t) /\ t.state = s
  BY <1>2, StateReplaced DEF Onward, Controller
<1> HIDE DEF t
<1>4. t \in Controller
  BY <1>3 DEF Onward, Leads
<1>5. Calm(t, u)
  <2>1. Calm(t, t)
    BY <1>4 DEF Calm, SameDomain
  <2> QED BY <1>4, <2>1, RelockScheduledCalm, RelockClearedCalm
<1> HIDE DEF u
<1>6. u \in Controller
  BY <1>5 DEF Calm
<1>7. Commits(t, Audit(u))
  BY <1>4, <1>5, AuditCommits
<1>8. Commits(r, Audit(u))
  <2>1. Onward(r, Audit(u))
    BY <1>3, <1>7, OnwardTransitive DEF Commits
  <2> QED BY <1>2, <1>3, <1>7, <2>1 DEF Commits
<1>9. Audit(u).state.watermarks[c.grant.id] = c.seq
  BY <1>2, <1>3, <1>5, <1>6, AuditFacts DEF Calm, SameDomain
<1> QED BY <1>1, <1>8, <1>9

(* A new configuration, and the relock it asks for, keep the drive.        *)
LEMMA ReconfiguredOnward ==
  ASSUME NEW r \in Controller, NEW config \in Config
  PROVE  Onward(r, Reconfigured(r, config))
<1> DEFINE b == [r.state EXCEPT !.config = config]
           t == [r EXCEPT !.state = b]
<1>1. r.state \in Snapshot
  BY DEF Controller
<1>2. \/ Reconfigured(r, config) = t
      \/ Reconfigured(r, config) = RelockScheduled(RelockCleared(t))
      \/ Reconfigured(r, config) = RelockCleared(t)
  BY DEF Reconfigured
<1>3. b \in Snapshot
  BY <1>1, Zenon DEF Snapshot
<1>4. /\ SameDomain(r.state, b)
      /\ b.generation = r.state.generation /\ b.firmware = r.state.firmware
      /\ b.next_cursor = r.state.next_cursor
  BY <1>1 DEF Snapshot, SameDomain
<1> HIDE DEF b
<1>5. Calm(r, t)
  BY <1>3, <1>4 DEF Calm, Controller, SameDomain
<1> HIDE DEF t
<1>6. t \in Controller
  BY <1>5 DEF Calm
<1>7. Calm(r, RelockCleared(t)) /\ RelockCleared(t) \in Controller
  BY <1>5, <1>6, RelockClearedCalm, CalmTransitive DEF Calm
<1>8. Calm(r, RelockScheduled(RelockCleared(t)))
  BY <1>7, RelockScheduledCalm, CalmTransitive
<1> QED BY <1>2, <1>5, <1>7, <1>8, CalmOnward

(* A policy of the same epoch revokes more.                                *)
LEMMA PolicyAppliedFacts ==
  ASSUME NEW s \in Snapshot, NEW p \in Policy
  PROVE  LET t == PolicyApplied(s, p) IN
         /\ t \in Snapshot
         /\ t.format = s.format /\ t.epoch = s.epoch /\ t.generation = s.generation
         /\ t.owner = s.owner /\ t.bindings = s.bindings
         /\ p.version >= s.policy_version => t \in Written(s)
<1> DEFINE v == p.version
           x == s.revoked \cup p.revoked
           t == [s EXCEPT !.policy_version = v, !.revoked = x]
<1>1. v \in Nat /\ x \in SUBSET CredentialIds
  BY DEF Policy, Snapshot
<1>2. PolicyApplied(s, p) = t
  BY DEF PolicyApplied, Snapshot
<1>3. s.revoked \subseteq x
  OBVIOUS
<1> HIDE DEF x
<1>4. /\ t \in Snapshot
      /\ t.format = s.format /\ t.owner = s.owner /\ t.bindings = s.bindings
      /\ t.epoch = s.epoch /\ t.watermarks = s.watermarks /\ t.uses = s.uses
      /\ t.generation = s.generation /\ t.next_cursor = s.next_cursor
      /\ t.policy_version = v /\ t.revoked = x
  BY <1>1, Zenon DEF Snapshot
<1> HIDE DEF t
<1>5. ASSUME p.version >= s.policy_version PROVE t \in Written(s)
  <2>1. Retains(s, t)
    BY <1>3, <1>4, <1>5, OrderedFields DEF Retains
  <2>2. Unbound(s) => Unbound(t)
    BY <1>4 DEF Unbound
  <2>3. t.epoch >= s.epoch /\ t.next_cursor >= s.next_cursor
    BY <1>4, OrderedFields
  <2>4. OneDomain(s, t)
    BY <1>4 DEF OneDomain
  <2> QED BY <1>4, <2>1, <2>2, <2>3, <2>4 DEF Written, Later
<1> QED BY <1>2, <1>4, <1>5

(* A new device key raises the generation.                                 *)
LEMMA RotatedOnward ==
  ASSUME NEW r \in Controller
  PROVE  Onward(r, [r EXCEPT !.state.generation = @ + 1])
<1> DEFINE s == r.state
           n == s.generation + 1
           b == [s EXCEPT !.generation = n]
           t == [r EXCEPT !.state = b]
<1>1. s \in Snapshot
  BY DEF Controller
<1>2. n \in Nat /\ n > s.generation
  BY <1>1, OrderedFields
<1>3. [r EXCEPT !.state.generation = @ + 1] = t
  BY <1>1 DEF Controller, Snapshot
<1> HIDE DEF n, s
<1>4. /\ b \in Snapshot /\ b.generation = n
      /\ SameDomain(s, b)
  BY <1>1, <1>2, Zenon DEF Snapshot, SameDomain
<1> HIDE DEF b
<1>5. b \in Written(s)
  BY <1>1, <1>2, <1>4, LaterGeneration
<1>6. Onward(r, t)
  BY <1>5, StateReplaced DEF Onward, Controller, s
<1> QED BY <1>3, <1>6

(* So do the management commands, whatever the platform answers.           *)
LEMMA ExecutedOnward ==
  ASSUME NEW r \in Controller, NEW c \in Commands, c.op \in Managed, NEW ok \in BOOLEAN,
         c.op = "ApplyPolicy" => c.arg.version >= r.state.policy_version
  PROVE  Onward(r, Executed(r, c, ok))
<1> DEFINE w(p) == WithFirmware(r, p)
<1>1. Onward(r, r)
  BY LeadsReflexive DEF Onward
<1>2. \A p \in FirmwarePhases : Onward(r, w(p)) /\ Onward(r, Audit(w(p)))
  <2>1. ASSUME NEW p \in FirmwarePhases PROVE Onward(r, w(p))
    BY FirmwareLeads DEF WithFirmware, Onward
  <2> HIDE DEF w
  <2> QED BY <2>1, AuditedOnward
<1> HIDE DEF w
<1>3. /\ Onward(r, w("Receiving")) /\ Onward(r, Audit(w("Receiving")))
      /\ Onward(r, w("Verified")) /\ Onward(r, Audit(w("Verified")))
      /\ Onward(r, w("Trial")) /\ Onward(r, Audit(w("Trial")))
      /\ Onward(r, w("Empty")) /\ Onward(r, Audit(w("Empty")))
  BY <1>2 DEF FirmwarePhases
<1>4. WellFormed(c)
  BY CommandsAssumption
<1>5. CASE c.op = "SetConfig"
  <2>1. c.arg \in Config
    BY <1>4, <1>5 DEF WellFormed
  <2>2. Onward(r, Audit(Reconfigured(r, c.arg)))
    BY <2>1, ReconfiguredOnward, AuditedOnward
  <2> QED BY <1>5, <2>2 DEF Executed
<1>6. CASE c.op = "ApplyPolicy"
  <2> DEFINE s == r.state
             b == PolicyApplied(s, c.arg)
             t == [r EXCEPT !.state = b]
  <2>1. c.arg \in Policy /\ s \in Snapshot
    BY <1>4, <1>6 DEF WellFormed, Controller
  <2>2. b \in Written(s)
    BY <1>6, <2>1, PolicyAppliedFacts
  <2>3. Executed(r, c, ok) = Audit(t)
    BY <1>6 DEF Executed
  <2> HIDE DEF b
  <2>4. Onward(r, t)
    BY <2>2, StateReplaced DEF Onward, Controller
  <2> HIDE DEF t
  <2> QED BY <2>3, <2>4, AuditedOnward
<1>7. CASE c.op = "FirmwareActivate"
  BY <1>3, <1>7 DEF Executed, w
<1>8. CASE c.op = "FirmwareAbort"
  BY <1>3, <1>8 DEF Executed, w
<1>9. CASE c.op \in {"FirmwareBegin", "FirmwareFinish", "SetClock", "Reboot",
                     "FirmwareChunk", "RotateDeviceKey"}
  <2>1. Executed(r, c, ok) = IF ok THEN Performed(r, c) ELSE r
    BY <1>9 DEF Executed
  <2>2. Onward(r, Performed(r, c))
    <3>1. CASE c.op = "FirmwareBegin"
      BY <1>3, <3>1 DEF Performed, w
    <3>2. CASE c.op = "FirmwareFinish"
      BY <1>3, <3>2 DEF Performed, w
    <3>3. CASE c.op \in {"SetClock", "Reboot", "FirmwareChunk"}
      BY <3>3, AuditOnward DEF Performed
    <3>4. CASE c.op = "RotateDeviceKey"
      BY <3>4, RotatedOnward DEF Performed
    <3> QED BY <1>9, <3>1, <3>2, <3>3, <3>4
  <2> QED BY <1>1, <2>1, <2>2
<1> QED BY <1>5, <1>6, <1>7, <1>8, <1>9 DEF Managed, Mutations

(* A snapshot of a later epoch and generation that binds nothing is later. *)
LEMMA NewerLater ==
  ASSUME NEW s \in Snapshot, NEW t \in Snapshot,
         t.epoch > s.epoch, t.generation > s.generation,
         s.format = 1 => t.format = 1, t.bindings = Factory.bindings
  PROVE  t \in Written(s)
<1>1. Unbound(t)
  BY DEF Unbound, Factory
<1>2. t.epoch >= s.epoch /\ t.epoch # s.epoch
  BY OrderedFields
<1>3. OneDomain(s, t)
  BY OrderedFields DEF OneDomain
<1> QED BY <1>1, <1>2, <1>3 DEF Written, Later

(* The commands that replace the domain raise the generation.              *)
LEMMA NewDomainFacts ==
  ASSUME NEW s \in Snapshot
  PROVE  /\ NewDomain(s) \in Snapshot
         /\ NewDomain(s).epoch = s.epoch /\ NewDomain(s).format = s.format
         /\ NewDomain(s).generation > s.generation
         /\ NewDomain(s).bindings = Factory.bindings
<1> DEFINE n == s.generation + 1
           u == Factory.uses
           w == Factory.watermarks
           b == Factory.bindings
           t == [s EXCEPT !.generation = n, !.revoked = {}, !.uses = u, !.watermarks = w,
                          !.bindings = b, !.operations = <<>>]
<1>1. n \in Nat /\ n > s.generation
  BY OrderedFields
<1>2. /\ u \in [CredentialIds -> Nat] /\ w \in [CredentialIds -> Nat]
      /\ b \in [CredentialIds -> Grants \cup {None}]
  BY FactoryType DEF Snapshot
<1>3. {} \in SUBSET CredentialIds /\ <<>> \in Seq(OperationRecord)
  OBVIOUS
<1>4. NewDomain(s) = t
  BY DEF NewDomain, Snapshot
<1> HIDE DEF n, u, w, b
<1>5. /\ t \in Snapshot /\ t.epoch = s.epoch /\ t.generation = n
      /\ t.format = s.format /\ t.bindings = b
  BY <1>1, <1>2, <1>3, Zenon DEF Snapshot
<1> HIDE DEF t
<1> QED BY <1>1, <1>4, <1>5 DEF b

(* factory_reset leaves a factory snapshot of a later epoch.               *)
LEMMA ResetSnapshotFacts ==
  ASSUME NEW s \in Snapshot
  PROVE  ResetSnapshot(s) \in Written(s)
<1> DEFINE e == s.epoch + 1
           n == s.generation + 1
           t == [Factory EXCEPT !.epoch = e, !.generation = n]
<1>1. e \in Nat /\ n \in Nat /\ e > s.epoch /\ n > s.generation
  BY OrderedFields
<1>2. ResetSnapshot(s) = t
  BY DEF ResetSnapshot
<1> HIDE DEF e, n
<1>3. /\ t \in Snapshot /\ t.epoch = e /\ t.generation = n
      /\ t.format = Factory.format /\ t.bindings = Factory.bindings
  BY <1>1, FactoryType, Zenon DEF Snapshot
<1>4. Factory.format = 1
  BY DEF Factory
<1> HIDE DEF t
<1> QED BY <1>1, <1>2, <1>3, <1>4, NewerLater

(* A new domain with its own epoch, owner and policy version is later.     *)
LEMMA DomainLater ==
  ASSUME NEW s \in Snapshot, NEW o \in Issuers \cup {None}, NEW e \in Nat, e > s.epoch,
         NEW v \in Nat
  PROVE  [NewDomain(s) EXCEPT !.owner = o, !.epoch = e, !.policy_version = v] \in Written(s)
<1> DEFINE d == NewDomain(s)
           t == [d EXCEPT !.owner = o, !.epoch = e, !.policy_version = v]
<1>1. /\ d \in Snapshot /\ d.generation > s.generation
      /\ d.format = s.format /\ d.bindings = Factory.bindings
  BY NewDomainFacts
<1> HIDE DEF d
<1>2. /\ t \in Snapshot /\ t.epoch = e /\ t.generation = d.generation
      /\ t.format = d.format /\ t.bindings = d.bindings
  BY <1>1, Zenon DEF Snapshot
<1> HIDE DEF t
<1>3. t \in Written(s)
  BY <1>1, <1>2, NewerLater
<1> QED BY <1>3 DEF t, d

(* A new snapshot with a used confirmation keeps the drive.                *)
LEMMA FreedOnward ==
  ASSUME NEW r \in Controller, NEW t \in Written(r.state), NEW p \in Nat,
         NEW l \in Nat \cup {Never}
  PROVE  Onward(r, [r EXCEPT !.confirmation = NoConfirmation, !.state = t, !.pairing = p,
                             !.relock_deadline = l])
<1> DEFINE q == [r EXCEPT !.confirmation = NoConfirmation, !.state = t, !.pairing = p,
                          !.relock_deadline = l]
<1>1. NoConfirmation \in [peer : Peers \cup {None}, digest : Commands \cup {None}, left : Nat]
  BY DEF NoConfirmation
<1>2. t \in Snapshot
  BY DEF Written
<1>3. q \in Controller /\ q.mode = r.mode /\ q.active = r.active /\ q.state = t
  BY <1>1, <1>2, Zenon DEF Controller
<1> HIDE DEF q
<1> QED BY <1>3 DEF Onward, Leads, SameDrive, q

(* Replacing the domain keeps the drive (there is none: preflight).        *)
LEMMA DomainReplacedOnward ==
  ASSUME NEW r \in Controller, NEW c \in Commands, ClearsDomain(r, c)
  PROVE  Onward(r, DomainReplaced(r, c))
<1> DEFINE s == r.state
           free == [r EXCEPT !.confirmation = NoConfirmation]
           d == NewDomain(s)
<1>1. s \in Snapshot /\ r.pairing \in Nat /\ r.relock_deadline \in Nat \cup {Never}
  BY DEF Controller
<1>2. WellFormed(c)
  BY CommandsAssumption
<1>3. d \in Snapshot /\ d.epoch = s.epoch /\ s.epoch \in Nat
  BY <1>1, NewDomainFacts, OrderedFields
<1>4. ASSUME NEW t \in Written(s) PROVE Onward(r, [free EXCEPT !.state = t])
  <2>1. Onward(r, [r EXCEPT !.confirmation = NoConfirmation, !.state = t,
                            !.pairing = r.pairing, !.relock_deadline = r.relock_deadline])
    BY <1>1, FreedOnward, Zenon
  <2>2. [free EXCEPT !.state = t]
          = [r EXCEPT !.confirmation = NoConfirmation, !.state = t,
                      !.pairing = r.pairing, !.relock_deadline = r.relock_deadline]
    BY Zenon DEF Controller
  <2> QED BY <2>1, <2>2
<1>5. CASE c.op = "FactoryReset"
  <2> DEFINE t == ResetSnapshot(s)
             q == [r EXCEPT !.confirmation = NoConfirmation, !.state = t, !.pairing = 0,
                            !.relock_deadline = Never]
  <2>1. DomainReplaced(r, c) = q
    BY <1>5 DEF DomainReplaced
  <2>2. t \in Written(s)
    BY <1>1, ResetSnapshotFacts
  <2> HIDE DEF t
  <2>3. Onward(r, q)
    BY <2>2, FreedOnward, Zenon
  <2> QED BY <2>1, <2>3
<1>6. CASE c.op = "ReplaceIssuer"
  <2> DEFINE o == c.arg.issuer
             e == s.epoch + 1
             t == [d EXCEPT !.owner = o, !.epoch = e, !.policy_version = 0]
             q == [free EXCEPT !.state = t]
  <2>1. o \in Issuers \cup {None}
    BY <1>2, <1>6 DEF WellFormed
  <2>2. e \in Nat /\ e > s.epoch
    BY <1>3
  <2>3. DomainReplaced(r, c)
          = Audit([free EXCEPT !.state = [d EXCEPT !.owner = o, !.epoch = @ + 1,
                                                   !.policy_version = 0]])
    BY <1>6 DEF DomainReplaced
  <2>4. t = [d EXCEPT !.owner = o, !.epoch = @ + 1, !.policy_version = 0]
    <3> HIDE DEF d, o
    <3> QED BY <1>3 DEF Snapshot
  <2>5. t \in Written(s)
    <3> HIDE DEF e, o
    <3> QED BY <1>1, <2>1, <2>2, DomainLater, Zenon
  <2> HIDE DEF t
  <2>6. Onward(r, q)
    BY <1>4, <2>5, Zenon
  <2>7. DomainReplaced(r, c) = Audit(q)
    BY <2>3, <2>4
  <2> HIDE DEF q
  <2> QED BY <2>6, <2>7, AuditedOnward
<1>7. CASE c.op = "ApplyPolicy"
  <2> DEFINE e == c.arg.epoch
             m == [d EXCEPT !.epoch = e]
             t == PolicyApplied(m, c.arg)
             q == [free EXCEPT !.state = t]
  <2>1. c.arg \in Policy
    BY <1>2, <1>7 DEF WellFormed
  <2>2. e \in Nat /\ e > s.epoch
    BY <1>7, <2>1 DEF ClearsDomain, NeedsConfirmation, Policy
  <2>3. DomainReplaced(r, c) = Audit(q)
    BY <1>7 DEF DomainReplaced
  <2>4. /\ d.generation > s.generation
        /\ d.format = s.format /\ d.bindings = Factory.bindings
    BY <1>1, NewDomainFacts
  <2> HIDE DEF d, e
  <2>5. /\ m \in Snapshot /\ m.epoch = e /\ m.generation = d.generation
        /\ m.format = d.format /\ m.bindings = d.bindings
    BY <1>3, <2>2, Zenon DEF Snapshot
  <2> HIDE DEF m
  <2>6. /\ t \in Snapshot /\ t.epoch = m.epoch /\ t.generation = m.generation
        /\ t.format = m.format /\ t.bindings = m.bindings
    BY <2>1, <2>5, PolicyAppliedFacts
  <2> HIDE DEF t
  <2>7. t \in Written(s)
    BY <1>1, <2>2, <2>4, <2>5, <2>6, NewerLater
  <2>8. Onward(r, q)
    BY <1>4, <2>7, Zenon
  <2> HIDE DEF q
  <2> QED BY <2>3, <2>8, AuditedOnward
<1> QED BY <1>5, <1>6, <1>7 DEF ClearsDomain, NeedsConfirmation

(* A claim raises the generation and keeps the drive.                      *)
LEMMA ClaimedByOnward ==
  ASSUME NEW r \in Controller, NEW c \in Commands, c.op = "Claim",
         r.state.owner = None, Unbound(r.state)
  PROVE  Onward(r, ClaimedBy(r, c))
<1> DEFINE s == r.state
           o == c.arg.issuer
           n == s.generation + 1
           g == c.arg.admin
           k == g.id
           t == [s EXCEPT !.owner = o, !.generation = n, !.bindings[k] = g]
           l == r.relock_deadline
           q == [r EXCEPT !.confirmation = NoConfirmation, !.state = t, !.pairing = 0,
                          !.relock_deadline = l]
<1>1. s \in Snapshot /\ l \in Nat \cup {Never}
  BY DEF Controller
<1>2. c.arg \in ClaimArg
  BY CommandsAssumption DEF WellFormed
<1>3. o \in Issuers /\ g \in Grants
  BY <1>2 DEF ClaimArg
<1>4. k \in CredentialIds
  BY <1>3, GrantsAssumption DEF Grant
<1>5. n \in Nat /\ n > s.generation
  BY <1>1, OrderedFields
<1>6. ClaimedBy(r, c) = Audit(q)
  <2>1. q = [r EXCEPT !.state.owner = o, !.state.generation = @ + 1,
                      !.state.bindings[k] = g, !.pairing = 0, !.confirmation = NoConfirmation]
    BY <1>1, ZenonT(40) DEF Controller, Snapshot
  <2> HIDE DEF q
  <2> QED BY <2>1 DEF ClaimedBy
<1> HIDE DEF o, n, g, k, s
<1>7. /\ t \in Snapshot /\ t.generation = n /\ t.epoch = s.epoch /\ t.format = s.format
      /\ t.watermarks = s.watermarks /\ t.uses = s.uses /\ t.revoked = s.revoked
      /\ t.policy_version = s.policy_version /\ t.owner = o
  BY <1>1, <1>3, <1>4, <1>5, Zenon DEF Snapshot
<1> HIDE DEF t, l
<1>8. t \in Written(s)
  <2>1. s.owner = None /\ \A i \in CredentialIds : s.bindings[i] = None
    BY DEF Unbound, s
  <2>2. Retains(s, t)
    BY <1>1, <1>7, <2>1, OrderedFields DEF Retains
  <2>3. Unbound(t) /\ t.epoch >= s.epoch
    BY <1>1, <1>3, <1>7, NoneAssumption, OrderedFields DEF Unbound
  <2>4. OneDomain(s, t)
    BY <1>1, <1>5, <1>7, OrderedFields DEF OneDomain
  <2> QED BY <1>5, <1>7, <2>2, <2>3, <2>4 DEF Written, Later
<1>9. Onward(r, q)
  <2>1. t \in Written(r.state)
    BY <1>8 DEF s
  <2> QED BY <1>1, <2>1, FreedOnward, Zenon
<1> HIDE DEF q
<1> QED BY <1>6, <1>9, AuditedOnward

(* A refused request changes volatile fields only, and audits.             *)
LEMMA RefusedOnward ==
  ASSUME NEW o, o.ctl \in Controller, NEW ctx, NEW c
  PROVE  Onward(o.ctl, Refused(o, ctx, c))
<1> DEFINE r == o.ctl
           wrong == Supported(c) /\ WrongSetupKey(r, ctx, c)
           unfit == Supported(c) /\ Acceptable(o, ctx, c) /\ HasRoom(r, c) /\ ~UsesFit(r, c)
           n == IF wrong THEN r.pairing_failures + 1 ELSE r.pairing_failures
           p == IF wrong /\ r.pairing_failures + 1 >= MaxPairingFailures THEN 0 ELSE r.pairing
           k == IF TakesConfirmation(o, ctx, c) THEN NoConfirmation ELSE r.confirmation
           l == IF unfit THEN RelockScheduled(r).relock_deadline ELSE r.relock_deadline
           t == [r EXCEPT !.pairing_failures = n, !.pairing = p, !.confirmation = k,
                          !.relock_deadline = l]
<1>1. Refused(o, ctx, c) = t \/ Refused(o, ctx, c) = Audit(t)
  BY Zenon DEF Refused
<1>2. RelockScheduled(r) \in Controller
  BY RelockScheduledCalm DEF Calm
<1> HIDE DEF wrong, unfit
<1>3. n \in Nat /\ p \in Nat
  BY DEF Controller
<1>4. k \in [peer : Peers \cup {None}, digest : Commands \cup {None}, left : Nat]
  BY DEF Controller, NoConfirmation
<1>5. l \in Nat \cup {Never}
  BY <1>2 DEF Controller
<1> HIDE DEF n, p, k, l
<1>6. Calm(r, t)
  BY <1>3, <1>4, <1>5, Zenon DEF Calm, Controller, SameDomain
<1> HIDE DEF t
<1>7. Onward(r, t) /\ Onward(r, Audit(t))
  BY <1>6, CalmOnward, AuditedOnward
<1> QED BY <1>1, <1>7

=============================================================================
