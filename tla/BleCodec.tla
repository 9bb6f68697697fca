------------------------------ MODULE BleCodec ------------------------------
(***************************************************************************)
(* BleCodec (crates/openlock-transport-ble/src/lib.rs): messages cut into  *)
(* fragments with an id and an offset, and put together in any order.  A   *)
(* byte is a model value; the bytes received so far are a function from    *)
(* their offsets, which stands for both `bytes` and `received`.            *)
(***************************************************************************)
EXTENDS Integers, Sequences, FiniteSetsExt

CONSTANTS
  HEADER_SIZE, MAX_FRAME_MESSAGE, MAX_ATTRIBUTE_VALUE, MIN_ATT_MTU,
  MaxMessageId      \* u16::MAX

ASSUME BleAssumption ==
  /\ {HEADER_SIZE, MAX_FRAME_MESSAGE, MAX_ATTRIBUTE_VALUE, MIN_ATT_MTU, MaxMessageId} \subseteq Nat
  /\ MIN_ATT_MTU > 3 + HEADER_SIZE /\ MAX_ATTRIBUTE_VALUE > HEADER_SIZE /\ MaxMessageId > 0

NoMessage == -1
NoBytes == [i \in {} |-> {}]

(* default                                                                 *)
NewBleCodec ==
  [att_mtu |-> MIN_ATT_MTU, next_id |-> 1, message_id |-> NoMessage, total |-> 0, bytes |-> NoBytes]

(* set_mtu, with_mtu                                                       *)
BleSetMtu(c, mtu) == IF mtu < MIN_ATT_MTU THEN c ELSE [c EXCEPT !.att_mtu = mtu]

payload_capacity(c) == Min({c.att_mtu - 3, MAX_ATTRIBUTE_VALUE}) - HEADER_SIZE

(* encode: the fragments of a message, and the codec after it.             *)
BleCanEncode(m) == Len(m) \in 1..MAX_FRAME_MESSAGE

BleFrames(c, m) ==
  LET max == payload_capacity(c) IN
  [i \in 1..((Len(m) + max - 1) \div max) |->
    [message_id |-> c.next_id, offset |-> (i - 1) * max, total |-> Len(m),
     payload |-> SubSeq(m, (i - 1) * max + 1, Min({i * max, Len(m)}))]]

BleEncoded(c, m) == [c EXCEPT !.next_id = IF @ = MaxMessageId THEN 1 ELSE @ + 1]

(* parse                                                                   *)
BleParses(c, f) ==
  /\ Len(f.payload) \in 1..payload_capacity(c)
  /\ f.total \in 1..MAX_FRAME_MESSAGE
  /\ f.offset + Len(f.payload) <= f.total

BleReset(c) == [c EXCEPT !.message_id = NoMessage, !.total = 0, !.bytes = NoBytes]

(* Mutant: a fragment of another message is taken for one of this.         *)
MatchesTotal(c, f) == c.message_id = NoMessage \/ c.total = f.total

Matches(c, f) == c.message_id = NoMessage \/ (c.message_id = f.message_id /\ c.total = f.total)

(* The bytes after a fragment: those before its first conflict are kept,   *)
(* even when it is refused.                                                *)
Stored(bytes, f) ==
  LET at(i) == f.offset + i - 1
      conflicts == {i \in 1..Len(f.payload) : at(i) \in DOMAIN bytes /\ bytes[at(i)] # f.payload[i]}
      kept == {i \in 1..Len(f.payload) : \A j \in conflicts : i < j}
      new == {at(i) : i \in kept}
  IN [ok |-> conflicts = {},
      bytes |-> [o \in DOMAIN bytes \cup new |->
                   IF o \in new THEN f.payload[o - f.offset + 1] ELSE bytes[o]]]

Complete(c) == DOMAIN c.bytes = 0..(c.total - 1)

(* push: the codec after it, whether the fragment was accepted, and the    *)
(* message it completed.                                                   *)
BlePush(c, f) ==
  IF ~BleParses(c, f) \/ ~Matches(c, f) THEN [codec |-> c, ok |-> FALSE, message |-> <<>>]
  ELSE LET stored == Stored(c.bytes, f)
           next == [c EXCEPT !.message_id = f.message_id, !.total = f.total,
                             !.bytes = stored.bytes]
       IN IF stored.ok /\ Complete(next)
          THEN [codec |-> BleReset(next), ok |-> TRUE,
                message |-> [i \in 1..next.total |-> next.bytes[i - 1]]]
          ELSE [codec |-> next, ok |-> stored.ok, message |-> <<>>]
=============================================================================
