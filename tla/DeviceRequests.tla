--------------------------- MODULE DeviceRequests ---------------------------
(***************************************************************************)
(* What a request needs and does: dispatch, authorize, preflight, execute  *)
(* and claim of crates/openlock-core/src/device.rs as predicates and       *)
(* operators.  r is the controller after the first observation of the      *)
(* request, o that observation with its outcome, ctx the session context   *)
(* and c the command.                                                      *)
(***************************************************************************)
EXTENDS DeviceHardware

Authorized(r, ctx, c) ==
  LET g == c.grant IN
  /\ ctx.generation = r.state.generation
  /\ g.issuer = r.state.owner
  /\ g.lock
  /\ g.subject = ctx.peer
  /\ g.epoch = r.state.epoch
  /\ Right(c.op) \subseteq g.rights
  /\ g.id \notin r.state.revoked
  /\ r.state.bindings[g.id] \in {None, g}

(* Mutant: the watermark itself is accepted again.                         *)
FreshOrEqual(r, c) == c.seq >= r.state.watermarks[c.grant.id]

Fresh(r, c) == c.seq > r.state.watermarks[c.grant.id]

Recorded(r, id, seq) ==
  {i \in 1..Len(r.state.operations) :
     r.state.operations[i].id = id /\ r.state.operations[i].seq = seq}

(* Answered from what is there: a query, or the replay of an accepted      *)
(* command.                                                                *)
Answered(r, ctx, c) ==
  \/ c.op = "PairingStatus" /\ ctx.generation = r.state.generation /\ r.state.owner = None
  \/ /\ c.op \in Queries \ {"PairingStatus"}
     /\ Authorized(r, ctx, c)
     /\ c.op = "Operation" => Recorded(r, c.grant.id, c.arg.seq) # {}
  \/ /\ c.op \in Mutations \ {"Claim"}
     /\ Authorized(r, ctx, c)
     /\ ~Fresh(r, c)
     /\ \E i \in Recorded(r, c.grant.id, c.seq) : r.state.operations[i].digest = c

MaxPairingFailures == 5

PairingOpen(r, ctx) ==
  /\ ctx.generation = r.state.generation
  /\ r.state.owner = None
  /\ r.pairing > 0
  /\ r.pairing_failures < MaxPairingFailures

Claimable(r, ctx, c) ==
  LET g == c.arg.admin IN
  /\ c.op = "Claim"
  /\ PairingOpen(r, ctx)
  /\ c.arg.setup_key
  /\ g.issuer = c.arg.issuer
  /\ g.lock
  /\ g.subject = ctx.peer
  /\ g.epoch = r.state.epoch
  /\ g.rights = KnownRights
  /\ g.max_uses = Unlimited

WrongSetupKey(r, ctx, c) == c.op = "Claim" /\ PairingOpen(r, ctx) /\ ~c.arg.setup_key

PolicyApplies(r, p) ==
  /\ p.issuer = r.state.owner
  /\ p.lock
  /\ p.epoch > r.state.epoch => ~Busy(r)
  /\ p.epoch >= r.state.epoch
  /\ p.epoch = r.state.epoch => p.version > r.state.policy_version
  /\ LET all == IF p.epoch = r.state.epoch THEN r.state.revoked \cup p.revoked ELSE p.revoked
     IN Cardinality(all) <= Info.credential_capacity

NeedsConfirmation == {"FactoryReset", "ReplaceIssuer"}

(* Mutant: a confirmation never expires.                                   *)
ConfirmedForever(r, ctx, c) == r.confirmation.peer = ctx.peer /\ r.confirmation.digest = c

Confirmed(r, ctx, c) ==
  r.confirmation.left > 0 /\ r.confirmation.peer = ctx.peer /\ r.confirmation.digest = c

Preflight(r, ctx, c) ==
  LET trial == r.state.firmware = "Trial" IN
  /\ c.op \in {"Unlock", "Lock"} => ~Busy(r) /\ ~trial
  /\ c.op = "Unlock" => PrivacyAllows(r.sample)
  /\ c.op = "Lock" => r.sample.bolt = "Locked" \/ CanLock(r.sample)
  /\ c.op = "SetConfig" =>
       ~Busy(r) /\ ValidConfig(c.arg) /\ c.arg.version = r.state.config.version + 1
  /\ c.op \in NeedsConfirmation \cup {"Reboot", "FirmwareActivate", "RotateDeviceKey"} => ~Busy(r)
  /\ c.op \in NeedsConfirmation => Confirmed(r, ctx, c) /\ ~trial
  /\ c.op = "FirmwareActivate" => r.state.firmware = "Verified"
  /\ c.op = "FirmwareBegin" => r.state.firmware \notin {"Receiving", "Verified", "Trial"}
  /\ c.op \in {"FirmwareChunk", "FirmwareFinish"} => r.state.firmware = "Receiving"
  /\ c.op = "FirmwareAbort" => ~trial
  /\ c.op = "ApplyPolicy" => PolicyApplies(r, c.arg)

(* The request reaches its effect: o is its observation.                   *)
Acceptable(o, ctx, c) ==
  /\ c.op \in Mutations \ {"Claim"}
  /\ Authorized(o.ctl, ctx, c)
  /\ Fresh(o.ctl, c)
  /\ ~o.conflict
  /\ Preflight(o.ctl, ctx, c)

ClearsDomain(r, c) ==
  \/ c.op \in NeedsConfirmation
  \/ c.op = "ApplyPolicy" /\ c.arg.epoch > r.state.epoch

NoChange(r, c) == c.op \in Targets /\ r.sample.bolt = Expected(c.op)
ConsumesUse(r, c) == c.op = "Unlock" /\ ~NoChange(r, c)

Evictable(r, o) ==
  /\ o.phase \notin Pending
  /\ Busy(r) => r.active.automatic \/ o.id # r.active.grant.id \/ o.seq # r.active.seq
Evictables(r) ==
  {i \in 1..Len(r.state.operations) : Evictable(r, r.state.operations[i])}

(* Mutant: the use limit is off by one.                                    *)
HasRoomForOneMore(r, c) ==
  LET g == c.grant IN
  /\ RoomFor(r.state.watermarks, 0, g.id)
  /\ RoomFor(r.state.bindings, None, g.id)
  /\ ConsumesUse(r, c) /\ g.max_uses # Unlimited => r.state.uses[g.id] <= g.max_uses
  /\ Len(r.state.operations) < Info.operation_capacity \/ Evictables(r) # {}

(* An operation slot, a credential slot and a use are left for it.         *)
HasRoom(r, c) ==
  LET g == c.grant IN
  /\ RoomFor(r.state.watermarks, 0, g.id)
  /\ RoomFor(r.state.bindings, None, g.id)
  /\ ConsumesUse(r, c) /\ g.max_uses # Unlimited => r.state.uses[g.id] < g.max_uses
  /\ Len(r.state.operations) < Info.operation_capacity \/ Evictables(r) # {}

(* Mutant: commit does not validate the snapshot.                          *)
UsesUnvalidated(r, c) == ConsumesUse(r, c) => TRUE

(* The table of uses can be full while that of watermarks is not: it is    *)
(* migrated from a legacy store.  Then commit's validation refuses.        *)
UsesFit(r, c) == ConsumesUse(r, c) => RoomFor(r.state.uses, 0, c.grant.id)

(* A full table loses its first evictable record.                          *)
Slotted(r) ==
  LET ops == r.state.operations IN
  IF Len(ops) < Info.operation_capacity THEN ops
  ELSE [j \in 1..(Len(ops) - 1) |->
          ops[IF \E i \in Evictables(r) : i <= j THEN j + 1 ELSE j]]

(* The durable acceptance: watermark, binding, use, record and the relock  *)
(* an unlock will owe, in one commit.                                      *)
Booked(r, c) ==
  LET id == c.grant.id
      new == [id |-> id, seq |-> c.seq, digest |-> c, phase |-> "Accepted"]
  IN [r.state EXCEPT !.watermarks[id] = c.seq,
                     !.bindings[id] = c.grant,
                     !.uses[id] = IF ConsumesUse(r, c) THEN @ + 1 ELSE @,
                     !.operations = Append(Slotted(r), new)]

Accepted(r, c) ==
  LET t == [r EXCEPT !.state = Booked(r, c)] IN
  Audit(IF ConsumesUse(r, c) THEN RelockScheduled(t)
        ELSE IF c.op = "Lock" THEN RelockCleared(t)
        ELSE t)

-----------------------------------------------------------------------------
(* execute: the management commands.                                       *)

Reconfigured(r, config) ==
  LET old == r.state.config
      changed == \/ config.auto_relock # old.auto_relock
                 \/ config.delay # old.delay
                 \/ config.hold_open # old.hold_open
      t == [r EXCEPT !.state.config = config]
  IN IF ~changed THEN t
     ELSE IF r.state.pending_relock \/ r.sample.bolt = "Unlocked"
     THEN RelockScheduled(RelockCleared(t))
     ELSE RelockCleared(t)

WithFirmware(r, phase) == [r EXCEPT !.state.firmware = phase]

PolicyApplied(s, p) ==
  [s EXCEPT !.policy_version = p.version, !.revoked = @ \cup p.revoked]

(* The commands whose effect follows the answer of the platform (clock,    *)
(* reboot, bootloader, key store).                                         *)
Performed(r, c) ==
  CASE c.op = "FirmwareBegin" -> Audit(WithFirmware(r, "Receiving"))
    [] c.op = "FirmwareFinish" -> Audit(WithFirmware(r, "Verified"))
    [] c.op \in {"SetClock", "Reboot", "FirmwareChunk"} -> Audit(r)
    [] c.op = "RotateDeviceKey" -> [r EXCEPT !.state.generation = @ + 1]

(* ok is that answer; activate and abort ask after they have committed.    *)
Executed(r, c, ok) ==
  CASE c.op = "SetConfig" -> Audit(Reconfigured(r, c.arg))
    [] c.op = "ApplyPolicy" -> Audit([r EXCEPT !.state = PolicyApplied(@, c.arg)])
    [] c.op = "FirmwareActivate" ->
         LET trial == WithFirmware(r, "Trial") IN IF ok THEN Audit(trial) ELSE trial
    [] c.op = "FirmwareAbort" -> Audit(WithFirmware(r, "Empty"))
    [] OTHER -> IF ok THEN Performed(r, c) ELSE r

Managed == Mutations \ {"Unlock", "Lock", "Claim", "FactoryReset", "ReplaceIssuer"}
Answers(c) == IF c.op \in {"SetConfig", "ApplyPolicy"} THEN {TRUE} ELSE BOOLEAN

(* Mutant: the bindings of the old domain survive.                         *)
NewDomainKeepsBindings(s) ==
  [s EXCEPT !.generation = @ + 1, !.revoked = {},
            !.uses = Factory.uses, !.watermarks = Factory.watermarks, !.operations = <<>>]

(* Mutant: sessions of the old domain stay current.                        *)
NewDomainKeepsSessions(s) ==
  [s EXCEPT !.revoked = {}, !.uses = Factory.uses, !.watermarks = Factory.watermarks,
            !.bindings = Factory.bindings, !.operations = <<>>]

(* The commands that replace the whole authorization domain in one commit. *)
NewDomain(s) ==
  [s EXCEPT !.generation = @ + 1, !.revoked = {},
            !.uses = Factory.uses, !.watermarks = Factory.watermarks,
            !.bindings = Factory.bindings, !.operations = <<>>]

(* Mutant: a reset forgets only the owner and the credentials.             *)
ResetOwnerOnly(s) == [NewDomain(s) EXCEPT !.owner = None, !.epoch = @ + 1]

(* Mutant: a reset stays in its epoch.                                     *)
ResetInEpoch(s) == [Factory EXCEPT !.epoch = s.epoch, !.generation = s.generation + 1]

ResetSnapshot(s) ==
  [Factory EXCEPT !.epoch = s.epoch + 1, !.generation = s.generation + 1]

DomainReplaced(r, c) ==
  LET s == r.state
      free == [r EXCEPT !.confirmation = NoConfirmation]
  IN CASE c.op = "FactoryReset" ->
            [free EXCEPT !.state = ResetSnapshot(s), !.pairing = 0, !.relock_deadline = Never]
       [] c.op = "ReplaceIssuer" ->
            Audit([free EXCEPT !.state = [NewDomain(s) EXCEPT !.owner = c.arg.issuer,
                                                              !.epoch = @ + 1,
                                                              !.policy_version = 0]])
       [] c.op = "ApplyPolicy" ->
            Audit([free EXCEPT !.state = PolicyApplied([NewDomain(s) EXCEPT !.epoch = c.arg.epoch],
                                                       c.arg)])

ClaimedBy(r, c) ==
  Audit([r EXCEPT !.state.owner = c.arg.issuer, !.state.generation = @ + 1,
                  !.state.bindings[c.arg.admin.id] = c.arg.admin,
                  !.pairing = 0, !.confirmation = NoConfirmation])

-----------------------------------------------------------------------------
(* handle: served or refused.                                              *)

Supported(c) == c.op \in Info.capabilities

(* The request gets a slot of its own.                                     *)
Slots(o, ctx, c) ==
  /\ Supported(c)
  /\ Acceptable(o, ctx, c)
  /\ ~ClearsDomain(o.ctl, c)
  /\ HasRoom(o.ctl, c)
  /\ UsesFit(o.ctl, c)

(* The preflight of these also consults what the model leaves out: the     *)
(* wall clock, the manifest, the staged bytes, the bootloader.             *)
MayRefuse == {"SetClock", "FirmwareBegin", "FirmwareChunk", "FirmwareFinish", "FirmwareActivate"}

Served(o, ctx, c) ==
  /\ Supported(c)
  /\ \/ Answered(o.ctl, ctx, c)
     \/ Claimable(o.ctl, ctx, c)
     \/ Acceptable(o, ctx, c) /\ ClearsDomain(o.ctl, c)
     \/ Slots(o, ctx, c)

(* A confirmation is taken by the first matching kind of request, even one *)
(* it does not confirm.                                                    *)
TakesConfirmation(o, ctx, c) ==
  /\ c.op \in NeedsConfirmation
  /\ Supported(c) /\ Authorized(o.ctl, ctx, c) /\ Fresh(o.ctl, c)
  /\ ~o.conflict /\ ~Busy(o.ctl)

(* What a refused request leaves behind.                                   *)
Refused(o, ctx, c) ==
  LET r == o.ctl
      wrong == Supported(c) /\ WrongSetupKey(r, ctx, c)
      unfit == Supported(c) /\ Acceptable(o, ctx, c) /\ HasRoom(r, c) /\ ~UsesFit(r, c)
      t == [r EXCEPT
             !.pairing_failures = IF wrong THEN @ + 1 ELSE @,
             !.pairing = IF wrong /\ r.pairing_failures + 1 >= MaxPairingFailures THEN 0 ELSE @,
             !.confirmation = IF TakesConfirmation(o, ctx, c) THEN NoConfirmation ELSE @,
             !.relock_deadline = IF unfit THEN RelockScheduled(r).relock_deadline ELSE @]
  IN IF r.state.owner # None THEN Audit(t) ELSE t
=============================================================================
