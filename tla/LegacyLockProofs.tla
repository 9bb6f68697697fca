-------------------------- MODULE LegacyLockProofs --------------------------
(***************************************************************************)
(* Proofs about LegacyLock, for any grants and policies.  The inductive    *)
(* invariant: a usable lock equals its storage, and every use let through   *)
(* is behind the count in storage, or of an earlier epoch.                 *)
(***************************************************************************)
EXTENDS LegacyLock, FiniteSetTheorems, TLAPS

Snapshots ==
  [epoch : Nat, policy_version : Nat, revoked : SUBSET Credentials, usage : [Credentials -> Nat]]

Spent(u, s) ==
  \/ u.epoch < s.epoch
  \/ u.epoch = s.epoch /\ u.use < s.usage[u.credential]

Events == [epoch : Nat, credential : Credentials, use : Nat]

IInv ==
  /\ snapshot \in Snapshots /\ disk \in Snapshots /\ poisoned \in BOOLEAN
  /\ ~poisoned => disk = snapshot
  /\ \A u \in uses : u.what \in Events /\ u.time = 1 /\ Spent(u.what, disk)

(* What a step may do to the store: a later epoch, or no loss in this one. *)
Onward(s, t) ==
  \/ t.epoch > s.epoch
  \/ /\ t.epoch = s.epoch /\ t.policy_version >= s.policy_version
     /\ s.revoked \subseteq t.revoked
     /\ \A c \in Credentials : t.usage[c] >= s.usage[c]

-----------------------------------------------------------------------------
(* A store is no later than itself.                                        *)
LEMMA OnwardStays == ASSUME NEW s \in Snapshots PROVE Onward(s, s)
BY DEF Snapshots, Onward

(* What was spent stays spent as the store goes onward.                    *)
LEMMA SpentStays ==
  ASSUME NEW s \in Snapshots, NEW t \in Snapshots, Onward(s, t), NEW u \in Events, Spent(u, s)
  PROVE  Spent(u, t)
<1>1. /\ u.epoch \in Nat /\ s.epoch \in Nat /\ t.epoch \in Nat /\ u.use \in Nat
      /\ u.credential \in Credentials
      /\ s.usage[u.credential] \in Nat /\ t.usage[u.credential] \in Nat
  BY DEF Snapshots, Events
<1>2. t.epoch > s.epoch \/ (t.epoch = s.epoch /\ t.usage[u.credential] >= s.usage[u.credential])
  BY <1>1 DEF Onward
<1>. QED  BY <1>1, <1>2 DEF Spent

(* apply_policy produces a store onward of the one it began with.          *)
LEMMA AppliedOnward ==
  ASSUME NEW p \in Policies, snapshot \in Snapshots, Supersedes(p)
  PROVE  Applied(p) \in Snapshots /\ Onward(snapshot, Applied(p))
<1>. DEFINE base == IF p.epoch > snapshot.epoch THEN [Fresh EXCEPT !.epoch = p.epoch] ELSE snapshot
<1>1. p.epoch \in Nat /\ p.version \in Nat /\ p.revoked \subseteq Credentials
  BY LegacyAssumption
<1>2. base \in Snapshots
  BY <1>1 DEF Snapshots, Fresh
<1>3. base.epoch > snapshot.epoch \/ (base = snapshot /\ p.version > snapshot.policy_version)
  BY <1>1 DEF Supersedes, Fresh, Snapshots
<1>. HIDE DEF base
<1>4. Applied(p) = [base EXCEPT !.policy_version = p.version, !.revoked = @ \cup p.revoked]
  BY DEF Applied, base
<1>5. /\ Applied(p) \in Snapshots /\ Applied(p).epoch = base.epoch
      /\ Applied(p).policy_version = p.version /\ Applied(p).usage = base.usage
      /\ base.revoked \subseteq Applied(p).revoked
  BY <1>1, <1>2, <1>4 DEF Snapshots
<1>6. CASE base.epoch > snapshot.epoch
  BY <1>5, <1>6 DEF Onward
<1>7. CASE base = snapshot /\ p.version > snapshot.policy_version
  BY <1>1, <1>5, <1>7 DEF Onward, Snapshots
<1>. QED  BY <1>3, <1>5, <1>6, <1>7

(* consume produces a store onward of the one it began with, in which the  *)
(* use is spent.                                                           *)
LEMMA UsedOnward ==
  ASSUME NEW g \in Grants, snapshot \in Snapshots
  PROVE  LET now == [epoch |-> snapshot.epoch, credential |-> g.credential,
                     use |-> snapshot.usage[g.credential]]
         IN /\ Used(g) \in Snapshots /\ Onward(snapshot, Used(g))
            /\ now \in Events /\ Spent(now, Used(g)) /\ ~Spent(now, snapshot)
<1>1. g.credential \in Credentials
  BY DEF Credentials
<1>2. snapshot.epoch \in Nat /\ snapshot.usage \in [Credentials -> Nat]
  BY DEF Snapshots
<1>. DEFINE c == g.credential
            t == Used(g)
<1>3. t.usage = [snapshot.usage EXCEPT ![c] = @ + 1]
  BY DEF Used, Snapshots
<1>4. /\ t \in Snapshots /\ t.epoch = snapshot.epoch
      /\ t.policy_version = snapshot.policy_version /\ t.revoked = snapshot.revoked
  BY <1>1, <1>2 DEF Used, Snapshots
<1>5. \A e \in Credentials : t.usage[e] >= snapshot.usage[e]
  BY <1>2, <1>3
<1>6. Onward(snapshot, t)
  <2>1. t.policy_version >= snapshot.policy_version
    BY <1>4 DEF Snapshots
  <2>. QED  BY <1>4, <1>5, <2>1 DEF Onward
<1>7. t.usage[c] = snapshot.usage[c] + 1 /\ snapshot.usage[c] \in Nat
  BY <1>1, <1>2, <1>3
<1>. HIDE DEF t
<1>8. LET now == [epoch |-> snapshot.epoch, credential |-> c, use |-> snapshot.usage[c]]
      IN now \in Events /\ Spent(now, t) /\ ~Spent(now, snapshot)
  BY <1>1, <1>2, <1>4, <1>7 DEF Events, Spent
<1>. QED  BY <1>4, <1>6, <1>8 DEF t

(* commit of a store onward of the present one, whatever its outcome.      *)
LEMMA CommitKeeps ==
  ASSUME IInv, ~poisoned, NEW t \in Snapshots, Onward(snapshot, t),
         NEW outcome \in Outcomes, Commit(t, outcome)
  PROVE  /\ snapshot' \in Snapshots /\ disk' \in Snapshots /\ poisoned' \in BOOLEAN
         /\ ~poisoned' => disk' = snapshot'
         /\ Onward(disk, disk')
         /\ \A u \in uses : Spent(u.what, disk')
         /\ outcome = "ok" => disk' = t
<1>1. disk = snapshot /\ Onward(disk, disk)
  BY OnwardStays DEF IInv
<1>2. /\ disk' \in {disk, t} /\ snapshot' \in {disk, t} /\ poisoned' \in BOOLEAN
      /\ ~poisoned' => disk' = snapshot'
      /\ outcome = "ok" => disk' = t
  BY <1>1 DEF Commit, Outcomes
<1>3. disk' \in Snapshots /\ snapshot' \in Snapshots /\ Onward(disk, disk')
  BY <1>1, <1>2 DEF IInv
<1>4. \A u \in uses : Spent(u.what, disk')
  BY <1>3, SpentStays DEF IInv
<1>. QED  BY <1>2, <1>3, <1>4

(* A consumption keeps the invariant and moves storage onward, if a use is *)
(* let through only when a counted decision for it was consumed.           *)
LEMMA ConsumeKeeps ==
  ASSUME IInv, NEW g \in Grants, NEW d, NEW outcome \in Outcomes, Consume(g, d, outcome),
         UNCHANGED uses \/ (outcome = "ok" /\ d.kind = "Counted" /\ LetThrough(g, d.used))
  PROVE  IInv' /\ Onward(disk, disk')
<1>1. CASE d.kind # "Counted"
  <2>1. UNCHANGED <<snapshot, poisoned, disk, uses>>
    BY <1>1 DEF Consume
  <2>2. IInv'
    BY <2>1 DEF IInv, Spent
  <2>. QED  BY <2>1, <2>2, OnwardStays DEF IInv
<1>2. CASE d.kind = "Counted"
  <2>. DEFINE now == [epoch |-> snapshot.epoch, credential |-> g.credential, use |-> d.used]
  <2>1. /\ ~poisoned /\ Commit(Used(g), outcome)
        /\ d.used = snapshot.usage[g.credential] /\ disk = snapshot /\ snapshot \in Snapshots
    BY <1>2 DEF Consume, Consumable, IInv
  <2>2. /\ Used(g) \in Snapshots /\ Onward(snapshot, Used(g))
        /\ now \in Events /\ Spent(now, Used(g)) /\ ~Spent(now, disk)
    BY <2>1, UsedOnward
  <2>3. /\ snapshot' \in Snapshots /\ disk' \in Snapshots /\ poisoned' \in BOOLEAN
        /\ ~poisoned' => disk' = snapshot'
        /\ Onward(disk, disk')
        /\ \A u \in uses : Spent(u.what, disk')
        /\ outcome = "ok" => disk' = Used(g)
    BY <2>1, <2>2, CommitKeeps
  <2>4. uses' \subseteq uses \cup {[what |-> now, time |-> 1]}
    <3>. DEFINE before == {u \in uses : u.what = now}
    <3>1. before = {}
      BY <2>2 DEF IInv
    <3>. HIDE DEF before
    <3>2. Cardinality(before) + 1 = 1
      BY <3>1, FS_EmptySet
    <3>. QED  BY <3>2 DEF LetThrough, before
  <2>5. uses' = uses \/ disk' = Used(g)
    BY <2>3
  <2>. HIDE DEF now
  <2>6. \A u \in uses' : u.what \in Events /\ u.time = 1 /\ Spent(u.what, disk')
    <3>. TAKE u \in uses'
    <3>1. CASE u \in uses
      BY <3>1, <2>3 DEF IInv
    <3>2. CASE u \notin uses
      BY <3>2, <2>2, <2>4, <2>5
    <3>. QED  BY <3>1, <3>2
  <2>. QED  BY <2>3, <2>6 DEF IInv, Spent
<1>. QED  BY <1>1, <1>2

(* Every action keeps the invariant and moves storage onward.              *)
LEMMA NextKeeps == IInv /\ [Next]_vars => IInv' /\ Onward(disk, disk')
<1>. SUFFICES ASSUME IInv, [Next]_vars PROVE IInv' /\ Onward(disk, disk')
  OBVIOUS
<1>1. ASSUME NEW p \in Policies, NEW outcome \in Outcomes, ApplyPolicy(p, outcome)
      PROVE  IInv' /\ Onward(disk, disk')
  <2>1. ~poisoned /\ Applied(p) \in Snapshots /\ Onward(snapshot, Applied(p))
    BY <1>1, AppliedOnward DEF ApplyPolicy, IInv
  <2>2. /\ snapshot' \in Snapshots /\ disk' \in Snapshots /\ poisoned' \in BOOLEAN
        /\ ~poisoned' => disk' = snapshot'
        /\ Onward(disk, disk')
        /\ \A u \in uses : Spent(u.what, disk')
    BY <1>1, <2>1, CommitKeeps DEF ApplyPolicy
  <2>3. uses' = uses
    BY <1>1 DEF ApplyPolicy
  <2>. QED  BY <2>2, <2>3 DEF IInv, Spent
<1>2. ASSUME NEW g \in Grants, NEW unlock, NEW use, Hold(g, unlock, use)
      PROVE  IInv' /\ Onward(disk, disk')
  BY <1>2, OnwardStays DEF Hold, IInv, Spent
<1>3. ASSUME NEW g \in Grants, NEW use, NEW outcome \in Outcomes, AuthorizeAndConsume(g, use, outcome)
      PROVE  IInv' /\ Onward(disk, disk')
  <2>1. PICK d \in Decisions(g) :
          Authorizes(g, TRUE, use, d) /\ MayProceed(d) /\ Consume(g, d, outcome)
    BY <1>3 DEF AuthorizeAndConsume
  <2>2. use # None => d.kind = "Counted" /\ d.used = use
    BY <2>1 DEF Authorizes, MayProceed, AlreadyConsumed, Counted
  <2>3. UNCHANGED uses \/ (outcome = "ok" /\ d.kind = "Counted" /\ LetThrough(g, d.used))
    BY <1>3, <2>2 DEF AuthorizeAndConsume
  <2>. QED  BY <2>1, <2>3, ConsumeKeeps
<1>4. ASSUME NEW g \in Grants, NEW d \in held, NEW outcome \in Outcomes, ConsumeHeld(g, d, outcome)
      PROVE  IInv' /\ Onward(disk, disk')
  BY <1>4, ConsumeKeeps DEF ConsumeHeld
<1>5. CASE Restart
  BY <1>5, OnwardStays DEF Restart, IInv, Spent
<1>6. CASE UNCHANGED vars
  BY <1>6, OnwardStays DEF vars, IInv, Spent
<1>. QED  BY <1>1, <1>2, <1>3, <1>4, <1>5, <1>6 DEF Next

(* The invariant holds for ever.                                           *)
THEOREM LegacyInvariant == Spec => []IInv
<1>1. Init => IInv
  <2>1. Fresh \in Snapshots
    BY DEF Fresh, Snapshots
  <2>. QED  BY <2>1 DEF Init, IInv
<1>. QED  BY <1>1, NextKeeps, PTL DEF Spec

(* No use of a counted grant is let through twice in an epoch, for any     *)
(* grants, repeated requests, failed commits, restarts and number of kept  *)
(* decisions, also those that outlive a restart (consume,                  *)
(* authorize_and_consume).                                                 *)
THEOREM EachUseOnceHolds == Spec => []EachUseOnce
<1>1. IInv => EachUseOnce
  BY DEF IInv, EachUseOnce
<1>. QED  BY <1>1, LegacyInvariant, PTL

(* The lock decides by what storage holds.                                 *)
THEOREM DecidesByStorageHolds == Spec => []DecidesByStorage
<1>1. IInv => DecidesByStorage
  <2>. SUFFICES ASSUME IInv, NEW g \in Grants, NEW unlock \in BOOLEAN,
                       NEW use \in Numbers(g), NEW d \in Decisions(g),
                       Authorizes(g, unlock, use, d)
                PROVE  /\ g.epoch = disk.epoch /\ g.credential \notin disk.revoked
                       /\ d.kind = "Counted" => use = disk.usage[g.credential]
                       /\ d.kind = "AlreadyConsumed" => use < disk.usage[g.credential]
    BY DEF DecidesByStorage
  <2>1. disk = snapshot
    BY DEF IInv, Authorizes
  <2>. QED  BY <2>1 DEF Authorizes, Unmetered, AlreadyConsumed, Counted
<1>. QED  BY <1>1, LegacyInvariant, PTL

(* Epochs, versions, revocations and counts never run backwards.           *)
THEOREM LegacyMonotoneHolds == Spec => LegacyMonotone
<1>1. IInv /\ [Next]_vars => [Onward(disk, disk')]_vars
  BY NextKeeps
<1>. QED  BY <1>1, LegacyInvariant, PTL DEF Spec, LegacyMonotone, Onward
=============================================================================
