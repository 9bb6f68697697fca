------------------------------- MODULE MCTrust -------------------------------
(***************************************************************************)
(* Two devices; one is offered records, pins and updates of several        *)
(* versions, key ids, signers and windows.                                 *)
(***************************************************************************)
EXTENDS TrustStore

CONSTANTS lock, gate, issuer, rotA, rotB, stranger

MCKey(d, id, version, rotation) ==
  [device |-> d, key_id |-> id, key_version |-> version, rotation |-> rotation]
MCKeys ==
  {MCKey(lock, id, v, r) : id \in 1..2, v \in 0..3, r \in {rotA, rotB}} \cup {MCKey(gate, 1, 1, rotA)}
MCRecords == [key : MCKeys, signer : {issuer, stranger, Nobody}]
MCPins ==
  {MCKey(lock, 1, v, rotA) : v \in 0..2} \cup {MCKey(gate, 1, 1, rotA)}
MCUpdates ==
  {u \in [old_key_id : 1..2, new_record : {r \in MCRecords : r.key.key_id = 2 /\ r.key.key_version # 1},
          not_before : {1}, retire_after : {1, 3}, by_issuer : BOOLEAN,
          signer : {issuer, rotA, rotB}] : u.new_record.signer # Nobody}
MCClocks == {[lower |-> l, upper |-> 2] : l \in 0..3} \cup {[lower |-> 1, upper |-> 3]}
=============================================================================
