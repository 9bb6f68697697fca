----------------------------- MODULE TrustStore -----------------------------
(***************************************************************************)
(* The client's store of device keys (TrustStore, crates/openlock-crypto/  *)
(* src/trust.rs) beside a device that rotates its key (read_key_update).   *)
(* A signature is the key that made it; Nobody is the empty signature.     *)
(***************************************************************************)
EXTENDS Naturals

CONSTANTS
  Devices, Issuer, Nobody, NoRecord,
  Records,      \* device key records a client may be offered, [key, signer]
  Pins,         \* keys a user may pin
  Updates,      \* key updates a client or a device may be offered
  Clocks        \* clock samples, [lower, upper]

ASSUME TrustAssumption ==
  /\ Issuer # Nobody
  /\ NoRecord \notin Records \cup {[key |-> k, signer |-> Nobody] : k \in Pins}
  /\ \A r \in Records : r.key.device \in Devices /\ r.key.key_version \in Nat
  /\ \A k \in Pins : k.device \in Devices /\ k.key_version \in Nat
  /\ \A u \in Updates : u.new_record \in Records
  /\ \A now \in Clocks : now.lower \in Nat /\ now.upper \in Nat

VARIABLES
  snapshot,     \* the store in memory: the record of each device
  poisoned,
  disk,         \* the snapshot in durable storage
  device_key,   \* the key each device uses
  seen,         \* history: the highest version get has shown for a device
  pinned        \* history: the keys the user pinned

vars == <<snapshot, poisoned, disk, device_key, seen, pinned>>

(* new, on storage without a snapshot.                                     *)
Init ==
  /\ snapshot = [d \in Devices |-> NoRecord]
  /\ poisoned = FALSE
  /\ disk = snapshot
  /\ device_key \in {f \in [Devices -> Pins] :
                       \A d \in Devices : f[d].device = d /\ f[d].key_version > 0}
  /\ seen = [d \in Devices |-> 0]
  /\ pinned = {}

-----------------------------------------------------------------------------
validate_device_key(k) == k.key_version > 0
verify_device_key(r) == validate_device_key(r.key) /\ r.signer = Issuer

(* get: a poisoned store shows nothing.                                    *)
Shown(s, p, d) == IF p \/ s[d] = NoRecord THEN 0 ELSE s[d].key.key_version

(* Mutant: a failed commit is taken for one that wrote nothing.            *)
CommitFailsOpen(d, record, outcome) ==
  LET next == [snapshot EXCEPT ![d] = record] IN
  /\ disk' = IF outcome = "lost" THEN disk ELSE next
  /\ snapshot' = next
  /\ UNCHANGED <<poisoned, device_key>>

(* commit: a failure may have written, and closes the store.               *)
Commit(d, record, outcome) ==
  LET next == [snapshot EXCEPT ![d] = record] IN
  /\ disk' = IF outcome = "lost" THEN disk ELSE next
  /\ snapshot' = IF outcome = "ok" THEN next ELSE snapshot
  /\ poisoned' = (outcome # "ok")
  /\ UNCHANGED device_key

Outcomes == {"ok", "lost", "written"}

Shows == seen' = [d \in Devices |-> IF Shown(snapshot', poisoned', d) > seen[d]
                                    THEN Shown(snapshot', poisoned', d) ELSE seen[d]]

(* A key that replaces one the store already has.                          *)
Newer(k) ==
  LET old == snapshot[k.device] IN
  old # NoRecord => old.key.key_id = k.key_id /\ k.key_version > old.key.key_version

(* Mutant: a record is taken without its signature.                        *)
ImportUnverified(r, outcome) ==
  /\ ~poisoned
  /\ validate_device_key(r.key) /\ Newer(r.key)
  /\ Commit(r.key.device, r, outcome) /\ Shows
  /\ UNCHANGED pinned

Import(r, outcome) ==
  /\ ~poisoned
  /\ verify_device_key(r) /\ Newer(r.key)
  /\ Commit(r.key.device, r, outcome) /\ Shows
  /\ UNCHANGED pinned

(* Mutant: any key may be pinned.                                          *)
PinUnchecked(k, outcome) ==
  /\ ~poisoned
  /\ Newer(k)
  /\ Commit(k.device, [key |-> k, signer |-> Nobody], outcome) /\ Shows
  /\ pinned' = pinned \cup {k}

Pin(k, outcome) ==
  /\ ~poisoned
  /\ validate_device_key(k) /\ Newer(k)
  /\ Commit(k.device, [key |-> k, signer |-> Nobody], outcome) /\ Shows
  /\ pinned' = pinned \cup {k}

-----------------------------------------------------------------------------
(* Key updates, as the client and as the device judge them.                *)

ValidClock(now) == now.lower <= now.upper

(* Mutant: the window opens later for the client.                          *)
ClientTakesLater(u, old, now) ==
  /\ ValidClock(now)
  /\ old # NoRecord /\ old.key.key_id = u.old_key_id
  /\ u.new_record.key.key_version > old.key.key_version
  /\ now.lower > u.not_before /\ now.upper < u.retire_after
  /\ u.not_before < u.retire_after
  /\ verify_device_key(u.new_record)
  /\ u.signer = IF u.by_issuer THEN Issuer ELSE old.key.rotation

(* apply_update                                                            *)
ClientTakes(u, old, now) ==
  /\ ValidClock(now)
  /\ old # NoRecord /\ old.key.key_id = u.old_key_id
  /\ u.new_record.key.key_version > old.key.key_version
  /\ now.lower >= u.not_before /\ now.upper < u.retire_after
  /\ u.not_before < u.retire_after
  /\ verify_device_key(u.new_record)
  /\ u.signer = IF u.by_issuer THEN Issuer ELSE old.key.rotation

(* read_key_update                                                         *)
DeviceTakes(u, old, now) ==
  /\ ValidClock(now)
  /\ u.signer \in {Issuer, old.rotation}
  /\ (u.signer = Issuer) = u.by_issuer
  /\ validate_device_key(u.new_record.key) /\ u.not_before < u.retire_after
  /\ verify_device_key(u.new_record)
  /\ u.old_key_id = old.key_id /\ u.new_record.key.device = old.device
  /\ u.new_record.key.key_version > old.key_version
  /\ now.lower >= u.not_before /\ now.upper < u.retire_after

ApplyUpdate(u, now, outcome) ==
  LET d == u.new_record.key.device IN
  /\ ~poisoned
  /\ ClientTakes(u, snapshot[d], now)
  /\ Commit(d, u.new_record, outcome) /\ Shows
  /\ UNCHANGED pinned

(* The device's own rotation (DeviceController, RotateKey).                *)
Rotate(u, now) ==
  LET d == u.new_record.key.device IN
  /\ DeviceTakes(u, device_key[d], now)
  /\ device_key' = [device_key EXCEPT ![d] = u.new_record.key]
  /\ UNCHANGED <<snapshot, poisoned, disk, seen, pinned>>

(* from_snapshot                                                           *)
Restorable(s) ==
  \A d \in Devices : s[d] # NoRecord =>
    /\ s[d].key.device = d
    /\ validate_device_key(s[d].key)
    /\ s[d].signer # Nobody => verify_device_key(s[d])

(* The application restarts, or reloads a store that failed.               *)
Restore ==
  /\ Restorable(disk)
  /\ snapshot' = disk /\ poisoned' = FALSE /\ Shows
  /\ UNCHANGED <<disk, device_key, pinned>>

Next ==
  \/ \E r \in Records, outcome \in Outcomes : Import(r, outcome)
  \/ \E k \in Pins, outcome \in Outcomes : Pin(k, outcome)
  \/ \E u \in Updates, now \in Clocks :
       Rotate(u, now) \/ \E outcome \in Outcomes : ApplyUpdate(u, now, outcome)
  \/ Restore

Spec == Init /\ [][Next]_vars

-----------------------------------------------------------------------------
(* Properties.                                                             *)

(* A client is never shown an older key of a device than it was shown      *)
(* before, nor none once it had one, while its store answers at all:       *)
(* neither an ambiguous commit nor a restart rolls trust back (commit,     *)
(* ensure_healthy, from_snapshot).                                         *)
NoRollback ==
  ~poisoned => \A d \in Devices : Shown(snapshot, poisoned, d) >= seen[d]

(* Every key in the store, or in durable storage after whatever commit     *)
(* failed, carries the issuer's signature or was pinned by the user.       *)
TrustIsRooted ==
  \A s \in {snapshot, disk} : \A d \in Devices :
    s[d] # NoRecord => s[d].signer = Issuer \/ s[d].key \in pinned

(* Durable storage can always be restored: nothing import, pin or          *)
(* apply_update writes is refused by from_snapshot.                        *)
StoreRestores == Restorable(disk)

(* A client that trusts a device's current key follows its rotation: it    *)
(* takes every update the device takes at the same time, so the two        *)
(* validators (apply_update, read_key_update) never part a client from a   *)
(* device it knows.                                                        *)
ClientsFollow ==
  ~poisoned => \A u \in Updates, now \in Clocks :
    LET d == u.new_record.key.device IN
    (snapshot[d] # NoRecord /\ snapshot[d].key = device_key[d] /\ DeviceTakes(u, device_key[d], now))
      => ClientTakes(u, snapshot[d], now)
=============================================================================
