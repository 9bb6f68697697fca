-------------------------- MODULE TrustStoreProofs --------------------------
(***************************************************************************)
(* Proofs about TrustStore, for any set of devices, records, updates and   *)
(* clocks.                                                                 *)
(*                                                                         *)
(* The inductive invariant says of memory and of storage that every record *)
(* is one from_snapshot would take, that storage is never behind memory    *)
(* and equals it in a store that answers, and that memory is never behind  *)
(* what was shown.                                                         *)
(***************************************************************************)
EXTENDS TrustStore, TLAPS

Pinned(k) == [key |-> k, signer |-> Nobody]
AnyRecord == Records \cup {Pinned(k) : k \in Pins}
Version(s, d) == IF s[d] = NoRecord THEN 0 ELSE s[d].key.key_version

TypeOK ==
  /\ snapshot \in [Devices -> AnyRecord \cup {NoRecord}]
  /\ disk \in [Devices -> AnyRecord \cup {NoRecord}]
  /\ poisoned \in BOOLEAN
  /\ seen \in [Devices -> Nat]

(* A record the store may hold for device d.                               *)
Rooted(r, d, pins) ==
  /\ r.key.device = d /\ r.key.key_version > 0
  /\ r.signer = Issuer \/ (r.signer = Nobody /\ r.key \in pins)

AllRooted(s, pins) == \A d \in Devices : s[d] # NoRecord => Rooted(s[d], d, pins)

IInv ==
  /\ TypeOK
  /\ AllRooted(snapshot, pinned) /\ AllRooted(disk, pinned)
  /\ ~poisoned => disk = snapshot
  /\ \A d \in Devices : seen[d] <= Version(snapshot, d) /\ Version(snapshot, d) <= Version(disk, d)

-----------------------------------------------------------------------------
(* Every record that can be offered has a device and a version.            *)
LEMMA RecordTypes ==
  ASSUME NEW r \in AnyRecord
  PROVE  r # NoRecord /\ r.key.device \in Devices /\ r.key.key_version \in Nat
BY TrustAssumption DEF AnyRecord, Pinned

(* What the store answers for a device is a version.                       *)
LEMMA VersionTypes ==
  ASSUME NEW s \in [Devices -> AnyRecord \cup {NoRecord}], NEW d \in Devices
  PROVE  Version(s, d) \in Nat
<1>1. s[d] = NoRecord \/ s[d] \in AnyRecord
  OBVIOUS
<1>. QED  BY <1>1, RecordTypes DEF Version

(* commit of a newer, rooted record, whatever its outcome: memory, storage *)
(* and what is shown keep their order (TrustStore::commit).                *)
LEMMA CommitKeeps ==
  ASSUME IInv, ~poisoned,
         NEW record \in AnyRecord, NEW d \in Devices, NEW outcome \in Outcomes,
         record.key.key_version > Version(snapshot, d),
         Commit(d, record, outcome), Shows,
         pinned \subseteq pinned', Rooted(record, d, pinned')
  PROVE  IInv'
<1>. DEFINE next == [snapshot EXCEPT ![d] = record]
<1>1. next \in [Devices -> AnyRecord \cup {NoRecord}]
  BY DEF IInv, TypeOK
<1>2. AllRooted(next, pinned') /\ AllRooted(snapshot, pinned') /\ AllRooted(disk, pinned')
  BY DEF IInv, TypeOK, AllRooted, Rooted
<1>3. \A e \in Devices : Version(snapshot, e) <= Version(next, e)
  <2>. TAKE e \in Devices
  <2>1. CASE e = d
    <3>1. Version(next, e) = record.key.key_version
      BY <2>1, RecordTypes DEF IInv, TypeOK, Version
    <3>. QED  BY <2>1, <3>1, VersionTypes, RecordTypes DEF IInv, TypeOK
  <2>2. CASE e # d
    <3>1. Version(next, e) = Version(snapshot, e)
      BY <2>2 DEF IInv, TypeOK, Version
    <3>. QED  BY <3>1, VersionTypes DEF IInv, TypeOK
  <2>. QED  BY <2>1, <2>2
<1>4. disk = snapshot
  BY DEF IInv
<1>. HIDE DEF next
<1>5. \/ snapshot' = next /\ disk' = next /\ poisoned' = FALSE
      \/ snapshot' = snapshot /\ disk' \in {snapshot, next} /\ poisoned' = TRUE
  BY <1>4 DEF Commit, Outcomes, next
<1>6. TypeOK' /\ AllRooted(snapshot, pinned)' /\ AllRooted(disk, pinned)'
  <2>1. snapshot' \in {snapshot, next} /\ disk' \in {snapshot, next} /\ poisoned' \in BOOLEAN
    BY <1>5
  <2>2. snapshot' \in [Devices -> AnyRecord \cup {NoRecord}]
    BY <2>1, <1>1 DEF IInv, TypeOK
  <2>3. disk' \in [Devices -> AnyRecord \cup {NoRecord}]
    BY <2>1, <1>1 DEF IInv, TypeOK
  <2>4. \A e \in Devices : Shown(snapshot', poisoned', e) \in Nat
    <3>. TAKE e \in Devices
    <3>1. Version(snapshot', e) \in Nat
      BY <2>2, VersionTypes
    <3>. QED  BY <3>1 DEF Shown, Version
  <2>5. seen' \in [Devices -> Nat]
    BY <2>4 DEF Shows, IInv, TypeOK
  <2>6. AllRooted(snapshot', pinned') /\ AllRooted(disk', pinned')
    BY <2>1, <1>2, <1>4
  <2>. QED  BY <2>1, <2>2, <2>3, <2>5, <2>6 DEF TypeOK, AllRooted, Rooted
<1>7. ~poisoned' => disk' = snapshot'
  BY <1>5
<1>8. \A e \in Devices :
        seen'[e] <= Version(snapshot', e) /\ Version(snapshot', e) <= Version(disk', e)
  <2>. TAKE e \in Devices
  <2>1. /\ Version(snapshot, e) \in Nat /\ Version(next, e) \in Nat /\ seen[e] \in Nat
        /\ seen[e] <= Version(snapshot, e) /\ Version(snapshot, e) <= Version(next, e)
    BY <1>1, <1>3, VersionTypes DEF IInv, TypeOK
  <2>2. seen'[e] = seen[e] \/ (~poisoned' /\ seen'[e] = Version(snapshot', e))
    <3>1. seen'[e] \in {seen[e], Shown(snapshot', poisoned', e)}
      BY DEF Shows
    <3>2. CASE poisoned'
      BY <3>2, <2>1 DEF Shows, Shown
    <3>3. CASE ~poisoned'
      BY <3>1, <3>3 DEF Shown, Version
    <3>. QED  BY <3>2, <3>3
  <2>. QED  BY <1>5, <2>1, <2>2
<1>9. \A e \in Devices : seen'[e] <= Version(snapshot, e)' /\ Version(snapshot, e)' <= Version(disk, e)'
  BY <1>8 DEF Version
<1>. QED  BY <1>6, <1>7, <1>9 DEF IInv

(* A key that Newer lets through is above the stored one.                  *)
LEMMA NewerIsAbove ==
  ASSUME IInv, NEW r \in AnyRecord, r.key.key_version > 0, Newer(r.key)
  PROVE  r.key.key_version > Version(snapshot, r.key.device)
BY RecordTypes DEF Newer, Version

(* Every action keeps the invariant.                                       *)
LEMMA NextKeeps == IInv /\ [Next]_vars => IInv'
<1>. SUFFICES ASSUME IInv, [Next]_vars PROVE IInv'
  OBVIOUS
<1>1. ASSUME NEW r \in Records, NEW outcome \in Outcomes, Import(r, outcome) PROVE IInv'
  <2>1. r \in AnyRecord /\ r.key.device \in Devices /\ r.key.key_version \in Nat
    BY RecordTypes DEF AnyRecord
  <2>2. r.key.key_version > Version(snapshot, r.key.device)
    BY <1>1, <2>1, NewerIsAbove DEF Import, verify_device_key, validate_device_key
  <2>3. Rooted(r, r.key.device, pinned')
    BY <1>1 DEF Import, verify_device_key, validate_device_key, Rooted
  <2>. QED  BY <1>1, <2>1, <2>2, <2>3, CommitKeeps DEF Import
<1>2. ASSUME NEW k \in Pins, NEW outcome \in Outcomes, Pin(k, outcome) PROVE IInv'
  <2>1. Pinned(k) \in AnyRecord /\ Pinned(k).key = k /\ k.device \in Devices
    BY TrustAssumption DEF AnyRecord, Pinned
  <2>2. k.key_version > Version(snapshot, k.device)
    BY <1>2, <2>1, NewerIsAbove DEF Pin, validate_device_key
  <2>3. Rooted(Pinned(k), k.device, pinned')
    BY <1>2 DEF Pin, validate_device_key, Rooted, Pinned
  <2>. QED  BY <1>2, <2>1, <2>2, <2>3, CommitKeeps DEF Pin, Pinned
<1>3. ASSUME NEW u \in Updates, NEW now \in Clocks, NEW outcome \in Outcomes,
             ApplyUpdate(u, now, outcome)
      PROVE  IInv'
  <2>. DEFINE r == u.new_record
              d == r.key.device
  <2>1. r \in AnyRecord /\ d \in Devices
    BY TrustAssumption, RecordTypes DEF AnyRecord
  <2>2. r.key.key_version > Version(snapshot, d)
    BY <1>3 DEF ApplyUpdate, ClientTakes, Version
  <2>3. Rooted(r, d, pinned')
    BY <1>3 DEF ApplyUpdate, ClientTakes, verify_device_key, validate_device_key, Rooted
  <2>. QED  BY <1>3, <2>1, <2>2, <2>3, CommitKeeps DEF ApplyUpdate
<1>4. ASSUME NEW u \in Updates, NEW now \in Clocks, Rotate(u, now) PROVE IInv'
  BY <1>4 DEF Rotate, IInv, TypeOK, AllRooted, Rooted, Version
<1>5. CASE Restore
  <2>1. snapshot' = disk /\ disk' = disk /\ poisoned' = FALSE /\ pinned' = pinned
    BY <1>5 DEF Restore
  <2>2. \A d \in Devices :
          /\ seen[d] \in Nat /\ Version(disk, d) \in Nat /\ seen[d] <= Version(disk, d)
          /\ Shown(disk, FALSE, d) = Version(disk, d)
    <3>. TAKE d \in Devices
    <3>1. Version(snapshot, d) \in Nat /\ Version(disk, d) \in Nat
      BY VersionTypes DEF IInv, TypeOK
    <3>. QED  BY <3>1 DEF IInv, TypeOK, Shown, Version
  <2>3. seen' = [d \in Devices |-> IF Shown(disk, FALSE, d) > seen[d]
                                   THEN Shown(disk, FALSE, d) ELSE seen[d]]
    BY <1>5, <2>1 DEF Restore, Shows
  <2>4. seen' \in [Devices -> Nat] /\ \A d \in Devices : seen'[d] <= Version(disk, d)
    <3>1. ASSUME NEW d \in Devices PROVE seen'[d] \in Nat /\ seen'[d] <= Version(disk, d)
      <4>1. /\ seen[d] \in Nat /\ Version(disk, d) \in Nat /\ seen[d] <= Version(disk, d)
            /\ seen'[d] \in {seen[d], Version(disk, d)}
        BY <2>2, <2>3
      <4>. QED  BY <4>1
    <3>. QED  BY <3>1, <2>3
  <2>5. ASSUME NEW d \in Devices PROVE Version(disk, d) <= Version(disk, d)
    <3>1. Version(disk, d) \in Nat
      BY <2>2
    <3>. QED  BY <3>1
  <2>. QED  BY <2>1, <2>4, <2>5 DEF IInv, TypeOK, AllRooted, Rooted, Version
<1>6. CASE UNCHANGED vars
  BY <1>6 DEF vars, IInv, TypeOK, AllRooted, Rooted, Version
<1>. QED  BY <1>1, <1>2, <1>3, <1>4, <1>5, <1>6 DEF Next

(* Memory, storage and what was shown keep their order for ever.           *)
THEOREM TrustInvariant == Spec => []IInv
<1>1. Init => IInv
  <2>. SUFFICES ASSUME Init PROVE IInv
    OBVIOUS
  <2>1. \A d \in Devices : snapshot[d] = NoRecord /\ disk[d] = NoRecord /\ seen[d] = 0
    BY DEF Init
  <2>2. TypeOK
    BY DEF Init, TypeOK
  <2>. QED  BY <2>1, <2>2 DEF Init, IInv, AllRooted, Version
<1>. QED  BY <1>1, NextKeeps, PTL DEF Spec

(* For any devices, records and updates, through ambiguous commits and     *)
(* restarts, a client is not shown an older key than before.               *)
THEOREM NoRollbackHolds == Spec => []NoRollback
<1>1. IInv => NoRollback
  <2>. SUFFICES ASSUME IInv, ~poisoned, NEW d \in Devices
                PROVE  Shown(snapshot, poisoned, d) >= seen[d]
    BY DEF NoRollback
  <2>1. Shown(snapshot, poisoned, d) = Version(snapshot, d)
    BY DEF Shown, Version
  <2>2. Version(snapshot, d) \in Nat /\ seen[d] \in Nat /\ seen[d] <= Version(snapshot, d)
    BY VersionTypes DEF IInv, TypeOK
  <2>. QED  BY <2>1, <2>2
<1>. QED  BY <1>1, TrustInvariant, PTL

(* Every stored key is signed by the issuer or was pinned by the user.     *)
THEOREM TrustIsRootedHolds == Spec => []TrustIsRooted
<1>1. IInv => TrustIsRooted
  BY DEF IInv, AllRooted, Rooted, TrustIsRooted
<1>. QED  BY <1>1, TrustInvariant, PTL

(* What the store writes, it can restore.                                  *)
THEOREM StoreRestoresHolds == Spec => []StoreRestores
<1>1. IInv => StoreRestores
  BY DEF IInv, AllRooted, Rooted, StoreRestores, Restorable, validate_device_key, verify_device_key
<1>. QED  BY <1>1, TrustInvariant, PTL

(* apply_update takes whatever read_key_update takes on the same key at    *)
(* the same time.                                                          *)
THEOREM ClientsFollowHolds == Spec => []ClientsFollow
<1>1. ASSUME NEW u \in Updates, NEW now \in Clocks, NEW old, old # NoRecord,
             DeviceTakes(u, old.key, now)
      PROVE  ClientTakes(u, old, now)
  <2>1. u.signer = IF u.by_issuer THEN Issuer ELSE old.key.rotation
    <3>1. u.signer \in {Issuer, old.key.rotation} /\ (u.signer = Issuer) = u.by_issuer
      BY <1>1, ZenonT(40) DEF DeviceTakes
    <3> QED BY <3>1, ZenonT(40)
  <2> QED BY <1>1, <2>1, ZenonT(40) DEF DeviceTakes, ClientTakes
<1>2. ClientsFollow
  BY <1>1, SMTT(30) DEF ClientsFollow
<1>. QED  BY <1>2, PTL
=============================================================================
