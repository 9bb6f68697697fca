----------------------------- MODULE LegacyLock -----------------------------
(***************************************************************************)
(* LockState (crates/openlock-core/src/lib.rs), the v2 authorization state *)
(* that migrate_legacy imports.  A host either authorizes and consumes in  *)
(* one call, or keeps the decision, a value of its own, and consumes it    *)
(* later.  Signatures, subject keys and lock ids are right or the call     *)
(* changes nothing, so only well-signed inputs are enumerated.             *)
(***************************************************************************)
EXTENDS Naturals, FiniteSets

CONSTANTS
  None,         \* max_uses of a grant without a limit; no requested_use
  Grants,       \* [credential, epoch, max_uses]
  Policies,     \* [epoch, version, revoked]
  MaxHeld       \* bound: decisions a host holds at a time

Credentials == {g.credential : g \in Grants}

ASSUME LegacyAssumption ==
  /\ MaxHeld \in Nat
  /\ \A g \in Grants : g.epoch \in Nat /\ (g.max_uses \in Nat \/ g.max_uses = None)
  /\ \A p \in Policies : p.epoch \in Nat /\ p.version \in Nat /\ p.revoked \subseteq Credentials

VARIABLES
  snapshot, poisoned,   \* LockState
  disk,                 \* the snapshot in storage
  held,                 \* decisions the host has kept
  uses                  \* history: the uses let through, and how often

vars == <<snapshot, poisoned, disk, held, uses>>

(* usage is total: a credential without an entry has been used 0 times.    *)
Fresh ==
  [epoch |-> 0, policy_version |-> 0, revoked |-> {}, usage |-> [c \in Credentials |-> 0]]

Init ==
  /\ snapshot = Fresh /\ poisoned = FALSE /\ disk = Fresh
  /\ held = {} /\ uses = {}

Outcomes == {"ok", "lost", "written"}

(* Mutant: a failed commit leaves the lock usable.                         *)
CommitHealthy(next, outcome) ==
  /\ disk' = IF outcome = "lost" THEN disk ELSE next
  /\ snapshot' = IF outcome = "ok" THEN next ELSE snapshot
  /\ UNCHANGED poisoned

Commit(next, outcome) ==
  /\ disk' = IF outcome = "lost" THEN disk ELSE next
  /\ snapshot' = IF outcome = "ok" THEN next ELSE snapshot
  /\ poisoned' = (outcome # "ok")

-----------------------------------------------------------------------------
Supersedes(p) ==
  \/ p.epoch > snapshot.epoch
  \/ p.epoch = snapshot.epoch /\ p.version > snapshot.policy_version

(* Mutant: a policy replaces the revocations of its epoch.                 *)
AppliedReplacing(p) ==
  LET base == IF p.epoch > snapshot.epoch THEN [Fresh EXCEPT !.epoch = p.epoch] ELSE snapshot
  IN [base EXCEPT !.policy_version = p.version, !.revoked = p.revoked]

Applied(p) ==
  LET base == IF p.epoch > snapshot.epoch THEN [Fresh EXCEPT !.epoch = p.epoch] ELSE snapshot
  IN [base EXCEPT !.policy_version = p.version, !.revoked = @ \cup p.revoked]

ApplyPolicy(p, outcome) ==
  /\ ~poisoned /\ Supersedes(p)
  /\ Commit(Applied(p), outcome)
  /\ UNCHANGED <<held, uses>>

(* Decision: Authorized with a count, Authorized without one (LongLived,   *)
(* Timed), or AlreadyConsumed.                                             *)
Counted(used, max) == [kind |-> "Counted", used |-> used, max |-> max]
Unmetered == [kind |-> "Unmetered"]
AlreadyConsumed(next_use) == [kind |-> "AlreadyConsumed", next_use |-> next_use]

Decisions(g) ==
  LET used == snapshot.usage[g.credential]
  IN {Unmetered, AlreadyConsumed(used), Counted(used, g.max_uses)}

(* requested_use, if any; a larger one is refused.                         *)
Numbers(g) == {None} \cup (IF g.max_uses = None THEN {0} ELSE 0..g.max_uses)

(* authorize_with_rights gives decision d for the requested use; "unlock"  *)
(* is whether the right to unlock is required.  Only then uses count.  A   *)
(* validity window is the clock's matter: a refusal changes nothing.       *)
Authorizes(g, unlock, use, d) ==
  /\ ~poisoned
  /\ g.epoch = snapshot.epoch /\ g.credential \notin snapshot.revoked
  /\ LET used == snapshot.usage[g.credential] IN
     \/ /\ ~unlock \/ g.max_uses = None
        /\ use = None /\ d = Unmetered
     \/ /\ unlock /\ g.max_uses # None /\ use # None
        /\ used < g.max_uses
        /\ \/ use < used /\ d = AlreadyConsumed(used)
           \/ use = used /\ d = Counted(used, g.max_uses)

Consumable(g, d) ==
  /\ g.max_uses = d.max
  /\ snapshot.usage[g.credential] = d.used /\ d.used < d.max

Used(g) == [snapshot EXCEPT !.usage[g.credential] = @ + 1]

(* consume: only a counted decision is checked and written; any other,     *)
(* also AlreadyConsumed, returns Ok at once.                               *)
Consume(g, d, outcome) ==
  /\ ~poisoned
  /\ \/ /\ d.kind = "Counted" /\ Consumable(g, d)
        /\ Commit(Used(g), outcome)
     \/ /\ d.kind # "Counted" /\ outcome = "ok"
        /\ UNCHANGED <<snapshot, poisoned, disk>>

-----------------------------------------------------------------------------
(* The host.                                                               *)

(* A use of the credential is let through.                                 *)
LetThrough(g, use) ==
  uses' = LET now == [epoch |-> snapshot.epoch, credential |-> g.credential, use |-> use]
              before == {u \in uses : u.what = now}
          IN uses \cup {[what |-> now, time |-> Cardinality(before) + 1]}

Hold(g, unlock, use) ==
  /\ Cardinality(held) < MaxHeld
  /\ \E d \in Decisions(g) : Authorizes(g, unlock, use, d) /\ held' = held \cup {d}
  /\ UNCHANGED <<snapshot, poisoned, disk, uses>>

(* A kept decision is consumed for any grant, and may be consumed again.   *)
(* The decision tells the host what an Ok means: a counted one lets its    *)
(* use through, AlreadyConsumed says that it has gone.                     *)
ConsumeHeld(g, d, outcome) ==
  /\ Consume(g, d, outcome)
  /\ IF outcome = "ok" /\ d.kind = "Counted" THEN LetThrough(g, d.used) ELSE UNCHANGED uses
  /\ UNCHANGED held

(* Mutant: a use that was consumed before goes on to the actuator.         *)
MayProceedAlways(d) == d.kind \in {"Counted", "Unmetered", "AlreadyConsumed"}

MayProceed(d) == d.kind # "AlreadyConsumed"

(* authorize_and_consume: the actuator runs after consume returned Ok.     *)
AuthorizeAndConsume(g, use, outcome) ==
  /\ \E d \in Decisions(g) :
       Authorizes(g, TRUE, use, d) /\ MayProceed(d) /\ Consume(g, d, outcome)
  /\ IF outcome = "ok" /\ use # None THEN LetThrough(g, use) ELSE UNCHANGED uses
  /\ UNCHANGED held

(* The lock is loaded from storage; a decision the host kept is its own    *)
(* and may survive that, or be lost with the host.                         *)
Restart ==
  /\ snapshot' = disk /\ poisoned' = FALSE
  /\ held' \in SUBSET held
  /\ UNCHANGED <<disk, uses>>

Next ==
  \/ \E p \in Policies, outcome \in Outcomes : ApplyPolicy(p, outcome)
  \/ \E g \in Grants : \E use \in Numbers(g) :
       \/ \E unlock \in BOOLEAN : Hold(g, unlock, use)
       \/ \E outcome \in Outcomes : AuthorizeAndConsume(g, use, outcome)
  \/ \E g \in Grants, d \in held, outcome \in Outcomes : ConsumeHeld(g, d, outcome)
  \/ Restart

Spec == Init /\ [][Next]_vars

-----------------------------------------------------------------------------
(* Properties.                                                             *)

(* No use of a counted grant is let through twice in an epoch, however     *)
(* kept decisions, repeated requests, failed commits and restarts          *)
(* interleave: consume counts it once, and authorize_and_consume does not  *)
(* run its actuator for a use that is already consumed.                    *)
EachUseOnce == \A u \in uses : u.time = 1

(* What the lock decides by is what storage holds: a grant is authorized   *)
(* only in the durable epoch and not durably revoked, a counted use is the *)
(* next durable one, and a use is called consumed only if it durably is,   *)
(* although an earlier commit may have failed halfway                      *)
(* (authorize_with_rights).                                                *)
DecidesByStorage ==
  \A g \in Grants, unlock \in BOOLEAN : \A use \in Numbers(g), d \in Decisions(g) :
    Authorizes(g, unlock, use, d) =>
      /\ g.epoch = disk.epoch /\ g.credential \notin disk.revoked
      /\ d.kind = "Counted" => use = disk.usage[g.credential]
      /\ d.kind = "AlreadyConsumed" => use < disk.usage[g.credential]

(* The store never runs backwards: epochs grow, and within one neither the *)
(* policy version, nor a revocation, nor a count is lost (apply_policy,    *)
(* consume), whichever commit fails.                                       *)
LegacyMonotone ==
  [][\/ disk'.epoch > disk.epoch
     \/ /\ disk'.epoch = disk.epoch
        /\ disk'.policy_version >= disk.policy_version
        /\ disk.revoked \subseteq disk'.revoked
        /\ \A c \in Credentials : disk'.usage[c] >= disk.usage[c]]_vars
=============================================================================
