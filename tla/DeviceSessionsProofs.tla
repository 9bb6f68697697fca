------------------------ MODULE DeviceSessionsProofs ------------------------
(***************************************************************************)
(* Sessions of a former owner or epoch are dead, for every product and     *)
(* every set of credentials, commands and sessions.                        *)
(*                                                                         *)
(* The argument: a generation of the store has one owner and one epoch     *)
(* (OneDomain, kept by every commit), so a session opened under another    *)
(* owner or epoch has a context of an earlier generation.  A request of an *)
(* earlier generation is refused, and neither its observation nor its      *)
(* refusal touches what commands have authority over.                      *)
(***************************************************************************)
EXTENDS DeviceSessions, DeviceControllerProofs

-----------------------------------------------------------------------------
(* What observing and refusing leave alone.                                *)

Unmoved(s, t) ==
  /\ SameDomain(s, t) /\ t.generation = s.generation
  /\ t.config = s.config /\ t.firmware = s.firmware

Steady(r, q) == Unmoved(r.state, q.state) /\ q.confirmation = r.confirmation

(* Two steady steps are one.                                               *)
LEMMA SteadyTransitive ==
  ASSUME NEW r, NEW q, NEW p, Steady(r, q), Steady(q, p)
  PROVE  Steady(r, p)
BY DEF Steady, Unmoved, SameDomain

(* Doing nothing is steady.                                                *)
LEMMA SteadyReflexive == ASSUME NEW r PROVE Steady(r, r)
BY DEF Steady, Unmoved, SameDomain

(* audit is steady.                                                        *)
LEMMA AuditSteady ==
  ASSUME NEW r \in Controller
  PROVE  Steady(r, Audit(r)) /\ Steady(r, AuditConflict(r))
<1> DEFINE n == r.state.next_cursor + 1
           t(b) == [r.state EXCEPT !.next_cursor = n, !.conflict_last = b]
<1>1. r.state \in Snapshot
  BY DEF Controller
<1>2. /\ Audit(r) = [r EXCEPT !.state = t(FALSE)]
      /\ AuditConflict(r) = r \/ AuditConflict(r) = [r EXCEPT !.state = t(TRUE)]
  BY <1>1, Zenon DEF Audit, AuditConflict, Controller, Snapshot
<1> HIDE DEF n
<1>3. \A b \in BOOLEAN : Unmoved(r.state, t(b))
  BY <1>1 DEF Snapshot, Unmoved, SameDomain
<1> HIDE DEF t
<1>4. ASSUME NEW b \in BOOLEAN PROVE Steady(r, [r EXCEPT !.state = t(b)])
  BY <1>3 DEF Controller, Steady
<1>5. Steady(r, [r EXCEPT !.state = t(FALSE)]) /\ Steady(r, [r EXCEPT !.state = t(TRUE)])
  BY <1>4
<1> QED BY <1>2, <1>5, SteadyReflexive, Zenon

(* So are the marks of a relock.                                           *)
LEMMA RelockSteady ==
  ASSUME NEW r \in Controller
  PROVE  Steady(r, RelockCleared(r)) /\ Steady(r, RelockScheduled(r))
<1> DEFINE t(b) == [r.state EXCEPT !.pending_relock = b]
           c == r.state.config
           d == IF c.auto_relock = "Delay" \/ r.sample.door = "Closed" THEN c.delay ELSE Never
<1>1. r.state \in Snapshot
  BY DEF Controller
<1>2. /\ RelockCleared(r) = [r EXCEPT !.state = t(FALSE), !.relock_deadline = Never]
      /\ \/ RelockScheduled(r) = r
         \/ RelockScheduled(r) = [r EXCEPT !.state = t(TRUE), !.relock_deadline = d]
  BY <1>1 DEF RelockCleared, RelockScheduled, Controller, Snapshot
<1>3. \A b \in BOOLEAN : Unmoved(r.state, t(b))
  BY <1>1 DEF Snapshot, Unmoved, SameDomain
<1> HIDE DEF t, d
<1>4. ASSUME NEW b \in BOOLEAN, NEW l
      PROVE  Steady(r, [r EXCEPT !.state = t(b), !.relock_deadline = l])
  BY <1>3 DEF Controller, Steady
<1>5. /\ Steady(r, [r EXCEPT !.state = t(FALSE), !.relock_deadline = Never])
      /\ Steady(r, [r EXCEPT !.state = t(TRUE), !.relock_deadline = d])
  BY <1>4
<1> QED BY <1>2, <1>5, SteadyReflexive, Zenon

(* So is the result of a drive.                                            *)
LEMMA DriveEndedSteady ==
  ASSUME NEW r \in Controller, NEW a, NEW phase \in Phases
  PROVE  Steady(r, DriveEnded(r, a, phase))
<1> DEFINE ops == SetPhase(r.state.operations, a.grant.id, a.seq, phase)
           t == [r.state EXCEPT !.operations = ops]
           q == [r EXCEPT !.state.operations = ops]
<1>1. r.state \in Snapshot
  BY DEF Controller
<1>2. r.state.operations \in Seq(OperationRecord)
  BY <1>1 DEF Snapshot
<1>3. ops \in Seq(OperationRecord)
  BY <1>2, SetPhaseType
<1>4. DriveEnded(r, a, phase) = Audit(r) \/ DriveEnded(r, a, phase) = Audit(q)
  BY DEF DriveEnded, Finished
<1> HIDE DEF ops
<1>5. q = [r EXCEPT !.state = t]
  BY <1>1 DEF Controller, Snapshot
<1>6. Unmoved(r.state, t)
  BY <1>1 DEF Snapshot, Unmoved, SameDomain
<1>7. q \in Controller
  BY <1>3, OperationsReplaced DEF Calm
<1> HIDE DEF t
<1>8. Steady(r, q)
  BY <1>5, <1>6 DEF Controller, Steady
<1> HIDE DEF q
<1>9. Steady(r, Audit(r)) /\ Steady(q, Audit(q))
  BY <1>7, AuditSteady
<1> QED BY <1>4, <1>8, <1>9, SteadyTransitive

(* Giving up a drive is steady.                                            *)
LEMMA RestedSteady ==
  ASSUME NEW r \in Controller, NEW f, NEW b, NEW w
  PROVE  Steady(r, [r EXCEPT !.active = NoActive, !.last_idle_bolt = b, !.fault = f,
                             !.sample = w, !.state.automatic_inflight = FALSE])
<1> DEFINE t == [r.state EXCEPT !.automatic_inflight = FALSE]
           q == [r EXCEPT !.active = NoActive, !.last_idle_bolt = b, !.fault = f,
                          !.sample = w, !.state.automatic_inflight = FALSE]
<1>1. r.state \in Snapshot
  BY DEF Controller
<1>2. q.state = t /\ q.confirmation = r.confirmation
  BY <1>1 DEF Controller, Snapshot
<1>3. Unmoved(r.state, t)
  BY <1>1 DEF Snapshot, Unmoved, SameDomain
<1> HIDE DEF t, q
<1>4. Steady(r, q)
  BY <1>2, <1>3 DEF Steady
<1> QED BY <1>4 DEF q

(* A sensor fault is steady, whether or not it ended a drive.              *)
LEMMA SensorFaultSteady ==
  ASSUME NEW r \in Controller, NEW stops \in BOOLEAN, SensorFault(r, stops).mode = "ready"
  PROVE  Steady(r, SensorFault(r, stops))
<1> DEFINE bad == [r EXCEPT !.fault = "SensorConflict", !.sample = Sanitized]
           rest == [bad EXCEPT !.active = NoActive, !.state.automatic_inflight = FALSE]
           gone == IF r.active.target = "Lock" THEN RelockCleared(rest) ELSE rest
           done == DriveEnded(gone, r.active, "Failed")
           full == [r EXCEPT !.active = NoActive, !.last_idle_bolt = r.last_idle_bolt,
                             !.fault = "SensorConflict", !.sample = Sanitized,
                             !.state.automatic_inflight = FALSE]
<1>1. bad \in Controller /\ Steady(r, bad)
  BY SanitizedType, Zenon DEF Controller, Faults, Steady, Unmoved, SameDomain
<1>2. rest = full
  BY Zenon DEF Controller
<1>3. r.last_idle_bolt \in {"None", "Locked", "Unlocked"} /\ "SensorConflict" \in Faults
  BY DEF Controller, Faults
<1>4. Leads(r, full) /\ Steady(r, full)
  BY <1>3, RestedLeads, RestedSteady, SanitizedType, Zenon
<1>5. \/ SensorFault(r, stops) = AuditConflict(bad)
      \/ SensorFault(r, stops) = AuditConflict(done)
  <2>1. SensorFault(r, stops) = Stuck(bad) => SensorFault(r, stops).mode = "poisoned"
    BY <1>1 DEF Stuck, Controller
  <2> QED BY <2>1 DEF SensorFault
<1> HIDE DEF bad, full
<1>6. rest \in Controller /\ Steady(r, rest)
  BY <1>2, <1>4 DEF Leads
<1> HIDE DEF rest
<1>7. gone \in Controller /\ Steady(rest, gone)
  BY <1>6, RelockClearedCalm, RelockSteady, SteadyReflexive DEF Calm
<1> HIDE DEF gone
<1>8. done \in Controller /\ Steady(gone, done)
  BY <1>7, DriveEndedLeads, DriveEndedSteady DEF Phases, Leads
<1> HIDE DEF done
<1>9. Steady(bad, AuditConflict(bad)) /\ Steady(done, AuditConflict(done))
  BY <1>1, <1>8, AuditSteady
<1> QED BY <1>1, <1>5, <1>6, <1>7, <1>8, <1>9, SteadyTransitive

(* So is stop_unsafe_action.                                               *)
LEMMA UnsafeStoppedSteady ==
  ASSUME NEW r \in Controller, NEW stops \in BOOLEAN, UnsafeStopped(r, stops).mode # "poisoned"
  PROVE  Steady(r, UnsafeStopped(r, stops))
<1> DEFINE rest == [r EXCEPT !.active = NoActive, !.last_idle_bolt = KnownBolt(r.sample),
                             !.fault = UnsafeFault(r), !.state.automatic_inflight = FALSE]
           gone == IF r.active.target = "Lock" \/ r.sample.bolt = "Locked"
                   THEN RelockCleared(rest) ELSE rest
           done == DriveEnded(gone, r.active, "Failed")
           full == [r EXCEPT !.active = NoActive, !.last_idle_bolt = KnownBolt(r.sample),
                             !.fault = UnsafeFault(r), !.sample = r.sample,
                             !.state.automatic_inflight = FALSE]
<1>1. UnsafeFault(r) \in Faults /\ r.sample \in Sample
  BY DEF UnsafeFault, Faults, Controller
<1>2. rest = full
  BY Zenon DEF Controller
<1>3. Leads(r, full) /\ Steady(r, full)
  BY <1>1, RestedLeads, RestedSteady, KnownBoltType, Zenon
<1>4. UnsafeStopped(r, stops) = r \/ UnsafeStopped(r, stops) = done
  <2>1. UnsafeStopped(r, stops) = Stuck(r) => UnsafeStopped(r, stops).mode = "poisoned"
    BY DEF Stuck, Controller
  <2> QED BY <2>1 DEF UnsafeStopped
<1> HIDE DEF full
<1>5. rest \in Controller /\ Steady(r, rest)
  BY <1>2, <1>3 DEF Leads
<1> HIDE DEF rest
<1>6. gone \in Controller /\ Steady(rest, gone)
  BY <1>5, RelockClearedCalm, RelockSteady, SteadyReflexive DEF Calm
<1> HIDE DEF gone
<1>7. Steady(gone, done)
  BY <1>6, DriveEndedSteady DEF Phases
<1> HIDE DEF done
<1> QED BY <1>4, <1>5, <1>6, <1>7, SteadyReflexive, SteadyTransitive

(* The part of observe_hardware after the interlock is steady.             *)
LEMMA NotedSteady ==
  ASSUME NEW r \in Controller, NEW before
  PROVE  Steady(r, Noted(r, before))
<1> DEFINE bolt == r.sample.bolt
           seen == IF ~Busy(before) /\ bolt \in {"Locked", "Unlocked"}
                   THEN [r EXCEPT !.last_idle_bolt = bolt] ELSE r
           confirmed == bolt = "Locked" /\ r.active.target # "Unlock"
           logged == IF r.sample # before.sample THEN Audit(seen) ELSE seen
           cleared == IF confirmed THEN RelockCleared(logged) ELSE logged
           doored == DoorNoted(cleared, before.sample)
<1>1. seen \in Controller /\ Steady(r, seen)
  BY DEF Controller, Steady, Unmoved, SameDomain
<1>2. \/ Noted(r, before) = seen
      \/ Noted(r, before) = doored
      \/ Noted(r, before) = RelockScheduled(doored)
  BY DEF Noted
<1> HIDE DEF seen
<1>3. logged \in Controller /\ Steady(seen, logged)
  BY <1>1, AuditFacts, AuditSteady, SteadyReflexive
<1> HIDE DEF logged
<1>4. cleared \in Controller /\ Steady(logged, cleared)
  BY <1>3, RelockClearedCalm, RelockSteady, SteadyReflexive DEF Calm
<1> HIDE DEF cleared
<1>5. doored \in Controller /\ Steady(cleared, doored)
  <2>1. doored \in Controller
    BY <1>4, DoorNotedCalm DEF Calm
  <2>2. doored.state = cleared.state /\ doored.confirmation = cleared.confirmation
    BY <1>4 DEF DoorNoted, Controller
  <2> HIDE DEF doored
  <2> QED BY <2>1, <2>2 DEF Steady, Unmoved, SameDomain
<1> HIDE DEF doored
<1>6. Steady(doored, RelockScheduled(doored))
  BY <1>5, RelockSteady
<1>7. Steady(r, doored)
  BY <1>1, <1>3, <1>4, <1>5, SteadyTransitive
<1> QED BY <1>1, <1>2, <1>6, <1>7, SteadyTransitive

(* An observation that leaves the controller running is steady, and so is  *)
(* everything it commits.                                                  *)
LEMMA ObservedSteady ==
  ASSUME NEW r \in Controller, r.mode = "ready", NEW w \in Sample, NEW stops \in BOOLEAN,
         Observed(r, w, stops).ctl.mode = "ready"
  PROVE  LET o == Observed(r, w, stops) IN
         Steady(r, o.ctl) /\ \A t \in o.writes : Unmoved(r.state, t)
<1> DEFINE o == Observed(r, w, stops)
<1>1. CASE ~ValidSample(w)
  <2> DEFINE f == SensorFault(r, stops)
  <2>1. o.ctl = f /\ o.writes = {f.state}
    BY <1>1 DEF Observed
  <2>2. Steady(r, f)
    BY <2>1, SensorFaultSteady
  <2> HIDE DEF o, f
  <2> QED BY <2>1, <2>2 DEF o, Steady
<1>2. CASE ValidSample(w)
  <2> DEFINE q == [r EXCEPT !.sample = w]
             safe == UnsafeStopped(q, stops)
             note == IF safe.mode = "poisoned" THEN safe ELSE Noted(safe, r)
  <2>1. o.ctl = note /\ o.writes = {safe.state, note.state}
    BY <1>2 DEF Observed
  <2>2. q \in Controller /\ Steady(r, q)
    BY DEF Controller, Steady, Unmoved, SameDomain
  <2>3. safe.mode # "poisoned" /\ note = Noted(safe, r)
    BY <2>1
  <2> HIDE DEF o, q
  <2>4. Steady(q, safe) /\ (Leads(q, safe) \/ StillOn(q, safe))
    BY <2>2, <2>3, UnsafeStoppedSteady, UnsafeStoppedLeads
  <2>5. safe \in Controller
    BY <2>3, <2>4 DEF Leads, StillOn
  <2> HIDE DEF safe
  <2>6. Steady(safe, note)
    BY <2>3, <2>5, NotedSteady
  <2> HIDE DEF note
  <2>7. Steady(r, safe) /\ Steady(r, note)
    BY <2>2, <2>4, <2>6, SteadyTransitive
  <2> QED BY <2>1, <2>7 DEF o, Steady
<1> QED BY <1>1, <1>2

-----------------------------------------------------------------------------
(* Requests of another generation.                                         *)

(* Such a request is refused, and the refusal is steady.                   *)
LEMMA RefusedSteady ==
  ASSUME NEW o, o.ctl \in Controller, NEW ctx, NEW c,
         ctx.generation # o.ctl.state.generation
  PROVE  Steady(o.ctl, Refused(o, ctx, c))
<1> DEFINE r == o.ctl
<1>1. /\ ~WrongSetupKey(r, ctx, c) /\ ~TakesConfirmation(o, ctx, c)
      /\ ~Acceptable(o, ctx, c)
  BY DEF WrongSetupKey, PairingOpen, TakesConfirmation, Authorized, Acceptable
<1>2. Refused(o, ctx, c) = r \/ Refused(o, ctx, c) = Audit(r)
  BY <1>1 DEF Refused, Controller
<1> QED BY <1>2, AuditSteady, SteadyReflexive

(* Of all that handle may do with it, only the refusal is left.            *)
LEMMA OnlyRefused ==
  ASSUME NEW o, NEW ctx, NEW c, ctx.generation # o.ctl.state.generation, Handle(o, ctx, c)
  PROVE  HandleRefused(o, ctx, c)
<1>1. ~Authorized(o.ctl, ctx, c) /\ ~PairingOpen(o.ctl, ctx)
  BY DEF Authorized, PairingOpen
<1>2. ~Answered(o.ctl, ctx, c) /\ ~Claimable(o.ctl, ctx, c) /\ ~Acceptable(o, ctx, c)
  BY <1>1 DEF Answered, Claimable, Acceptable
<1> QED BY <1>2 DEF Handle, HandleAnswered, HandleClaim, HandleDomain, HandleNoChange,
                    HandleDrive, HandleManaged, Slots

(* A request of another generation leaves everything under authority as it *)
(* was, and no new confirmation.                                           *)
LEMMA FormerGeneration ==
  ASSUME IInv, NEW s \in sessions, Request(s), s.context.generation # disk.generation
  PROVE  /\ UNCHANGED Authority
         /\ ctl'.mode = "ready" => ctl'.confirmation = ctl.confirmation
<1>1. PICK c \in Commands : \/ \E o \in Observations : Handle(o, s.context, c)
                           \/ ConfirmPhysical(s.context, c)
  BY DEF Request, Asks
<1>2. Ready
  BY <1>1 DEF Handle, HandleAnswered, HandleClaim, HandleDomain, HandleNoChange,
              HandleDrive, HandleManaged, HandleRefused, ConfirmPhysical
<1>3. ctl.mode = "ready" /\ disk = ctl.state /\ ctl \in Controller /\ world \in Sample
  BY <1>2, Running DEF Ready, IInv, TypeOK
<1>4. PICK o \in Observations : Handle(o, s.context, c)
  BY <1>1, <1>3 DEF ConfirmPhysical, Authorized
<1>5. /\ o.ctl \in Controller /\ Steady(ctl, o.ctl)
      /\ \A t \in o.writes : Unmoved(disk, t)
  <2>1. PICK stops \in BOOLEAN : o = Observed(ctl, world, stops) /\ o.ctl.mode = "ready"
    BY DEF Observations
  <2> QED BY <1>2, <1>3, <2>1, Observes, ObservedSteady
<1>6. s.context.generation # o.ctl.state.generation
  BY <1>3, <1>5 DEF Steady, Unmoved
<1> DEFINE q == Refused(o, s.context, c)
<1>7. Returns(q, Halted(o.ctl), o.writes) /\ UNCHANGED call
  BY <1>4, <1>6, OnlyRefused DEF HandleRefused
<1>8. Steady(ctl, q)
  BY <1>5, <1>6, RefusedSteady, SteadyTransitive
<1> HIDE DEF q
<1>9. Unmoved(disk, disk) /\ Unmoved(disk, q.state)
  BY <1>3, <1>8 DEF Steady, Unmoved, SameDomain
<1>10. Unmoved(disk, disk')
  BY <1>5, <1>7, <1>9 DEF Returns, Poisons
<1>11. ctl'.mode = "ready" => ctl'.confirmation = ctl.confirmation
  <2>1. CASE ctl' = q
    BY <2>1, <1>8 DEF Steady
  <2>2. CASE \E a \in {NoActive, q.active} : ctl' = Closed(a)
    BY <2>2, OffType DEF Closed, Controller
  <2> QED BY <1>7, <2>1, <2>2 DEF Returns, Poisons
<1> QED BY <1>7, <1>10, <1>11 DEF Authority, Unmoved, SameDomain

-----------------------------------------------------------------------------
(* The invariant of the sessions: a context is of the store's generation   *)
(* or an earlier one, and in its own generation the domain is the store's. *)

SessionInv ==
  \A s \in sessions :
    /\ disk.format = 1
    /\ s.context \in [peer : Peers, generation : Nat]
    /\ s.context.generation <= disk.generation
    /\ s.context.generation = disk.generation => s.domain = Domain

SInv == IInv /\ SessionInv

(* A step with sessions is a step of the controller, or leaves it alone.   *)
LEMMA SessionStep ==
  ASSUME SInv, [NextSessions]_svars
  PROVE  [Next]_vars
<1>1. ASSUME NEW s \in sessions, Request(s) PROVE Next
  <2>1. PICK c \in Commands : \/ \E o \in Observations : Handle(o, s.context, c)
                             \/ ConfirmPhysical(s.context, c)
    BY <1>1 DEF Request, Asks
  <2>2. Ready
    BY <2>1 DEF Handle, HandleAnswered, HandleClaim, HandleDomain, HandleNoChange,
                HandleDrive, HandleManaged, HandleRefused, ConfirmPhysical
  <2>3. disk = ctl.state /\ disk \in Snapshot
    BY <2>2, Running DEF Ready, SInv
  <2>4. disk.generation \in Nat
    BY <2>3, OrderedFields
  <2>5. s.context \in Contexts
    BY <2>3, <2>4 DEF SInv, SessionInv, Contexts
  <2> QED BY <2>1, <2>5, Zenon DEF Next, Asks
<1>2. Local => Next
  BY Zenon DEF Local, Next
<1>3. (\E p \in Peers : Establish(p)) \/ (\E s \in sessions : Disconnect(s)) => UNCHANGED vars
  BY DEF Establish, Disconnect
<1>4. UNCHANGED svars => UNCHANGED vars
  BY DEF svars, vars
<1> QED BY <1>1, <1>2, <1>3, <1>4 DEF NextSessions

(* The sessions that stay keep the invariant when the store gets later.    *)
LEMMA SessionsFollow ==
  ASSUME SInv, disk' \in Written(disk), NEW s \in sessions
  PROVE  /\ disk'.format = 1
         /\ s.context \in [peer : Peers, generation : Nat]
         /\ s.context.generation <= disk'.generation
         /\ s.context.generation = disk'.generation => s.domain = <<disk'.owner, disk'.epoch>>
<1>1. /\ disk \in Snapshot /\ disk.format = 1
      /\ s.context \in [peer : Peers, generation : Nat]
      /\ s.context.generation <= disk.generation
      /\ s.context.generation = disk.generation => s.domain = <<disk.owner, disk.epoch>>
  BY DEF SInv, SessionInv, IInv, TypeOK, Domain
<1>2. disk' \in Snapshot /\ Later(disk, disk')
  BY DEF Written
<1>3. disk.generation \in Nat /\ disk'.generation \in Nat /\ s.context.generation \in Nat
  BY <1>1, <1>2, OrderedFields
<1>4. disk'.format = 1 /\ OneDomain(disk, disk') /\ disk'.generation >= disk.generation
  BY <1>1, <1>2, <1>3 DEF Later
<1>5. s.context.generation = disk'.generation => disk'.generation = disk.generation
  BY <1>1, <1>3, <1>4
<1> QED BY <1>1, <1>3, <1>4, <1>5 DEF OneDomain

(* Every step keeps the invariant.                                         *)
LEMMA SessionsKeep == SInv /\ [NextSessions]_svars => SInv'
<1> SUFFICES ASSUME SInv, [NextSessions]_svars PROVE SInv'
  OBVIOUS
<1>1. IInv' /\ disk' \in Written(disk)
  BY SessionStep, NextKeeps DEF SInv, Forward
<1>2. ASSUME NEW s \in sessions' \ sessions
      PROVE  /\ disk'.format = 1
             /\ s.context \in [peer : Peers, generation : Nat]
             /\ s.context.generation <= disk'.generation
             /\ s.domain = <<disk'.owner, disk'.epoch>>
  <2>1. PICK p \in Peers : Establish(p)
    BY <1>2 DEF NextSessions, svars, Disconnect, Request, Local
  <2>2. /\ s = [context |-> Context(p), domain |-> Domain]
        /\ disk' = disk /\ ctl.mode = "ready"
    BY <1>2, <2>1 DEF Establish, vars
  <2>3. disk = ctl.state /\ disk \in Snapshot /\ disk.format = 1
    BY <2>2, Running DEF SInv
  <2>4. disk.generation \in Nat
    BY <2>3, OrderedFields
  <2> QED BY <2>2, <2>3, <2>4 DEF Context, Domain
<1>3. SessionInv'
  BY <1>1, <1>2, SessionsFollow DEF SessionInv, Domain
<1> QED BY <1>1, <1>3 DEF SInv

(* A running host's sessions are of no later generation than the store,    *)
(* and those of its generation are of its owner and epoch (context).       *)
THEOREM SessionInvariant == SpecSessions => []SInv
<1>1. InitSessions => SInv
  BY InitKeeps DEF InitSessions, SInv, SessionInv
<1> QED BY <1>1, SessionsKeep, PTL DEF SpecSessions

(* A session opened under another owner or epoch changes nothing that      *)
(* commands have authority over, whatever valid grants it presents         *)
(* (authorize, claim, confirm_physical, context).                          *)
THEOREM FormerSessionsAreDeadHolds == SpecSessions => FormerSessionsAreDead
<1> DEFINE Step == acted' # None /\ acted'.domain # Domain =>
       /\ UNCHANGED Authority
       /\ ctl'.mode = "ready" => ctl'.confirmation \in {ctl.confirmation, NoConfirmation}
<1>1. SInv /\ [NextSessions]_svars => [Step]_svars
  <2> SUFFICES ASSUME SInv, NextSessions, acted' # None, acted'.domain # Domain
               PROVE  /\ UNCHANGED Authority
                      /\ ctl'.mode = "ready" => ctl'.confirmation = ctl.confirmation
    OBVIOUS
  <2>1. PICK s \in sessions : Request(s) /\ acted' = s
    BY DEF NextSessions, Establish, Disconnect, Local, Request
  <2>2. s.context.generation # disk.generation
    BY <2>1 DEF SInv, SessionInv
  <2> QED BY <2>1, <2>2, FormerGeneration DEF SInv
<1> QED BY <1>1, SessionInvariant, PTL DEF SpecSessions, FormerSessionsAreDead
=============================================================================
