---------------------------- MODULE IsoDepCodec -----------------------------
(***************************************************************************)
(* IsoDepCodec (crates/openlock-transport-nfc/src/lib.rs): messages cut    *)
(* into numbered fragments that arrive in order.  The numbers run on from  *)
(* one message to the next and wrap.                                       *)
(***************************************************************************)
EXTENDS Integers, Sequences, FiniteSetsExt

CONSTANTS
  MAX_NDEF_RECORD, MAX_APDU_PAYLOAD,
  SequenceRange     \* 2^8

ASSUME IsoDepAssumption ==
  {MAX_NDEF_RECORD, MAX_APDU_PAYLOAD, SequenceRange} \subseteq Nat \ {0}

Unset == -1
NewIsoDepCodec == [sequence |-> 0, expected_sequence |-> Unset, inner |-> <<>>, expected |-> Unset]

(* encode                                                                  *)
IsoDepCanEncode(m) == Len(m) \in 1..MAX_NDEF_RECORD
Chunks(m) == (Len(m) + MAX_APDU_PAYLOAD - 1) \div MAX_APDU_PAYLOAD

IsoDepFrames(c, m) ==
  [i \in 1..Chunks(m) |->
    [sequence |-> (c.sequence + i - 1) % SequenceRange, total |-> Len(m),
     payload |-> SubSeq(m, (i - 1) * MAX_APDU_PAYLOAD + 1, Min({i * MAX_APDU_PAYLOAD, Len(m)}))]]

IsoDepEncoded(c, m) == [c EXCEPT !.sequence = (@ + Chunks(m)) % SequenceRange]

(* Mutant: a reset keeps the bytes.                                        *)
IsoDepResetHeader(c) == [c EXCEPT !.expected = Unset, !.expected_sequence = Unset]

IsoDepReset(c) == [c EXCEPT !.inner = <<>>, !.expected = Unset, !.expected_sequence = Unset]

(* push: a first fragment sets what is expected before it is checked.      *)
IsoDepPush(c, f) ==
  LET begun == IF c.expected = Unset
               THEN [c EXCEPT !.expected = f.total, !.expected_sequence = f.sequence] ELSE c
      inner == begun.inner \o f.payload
      next == [begun EXCEPT !.inner = inner, !.expected_sequence = (@ + 1) % SequenceRange]
      refused(codec) == [codec |-> codec, ok |-> FALSE, message |-> <<>>]
  IN CASE f.total \notin 1..MAX_NDEF_RECORD \/ Len(f.payload) > MAX_APDU_PAYLOAD -> refused(c)
       [] OTHER ->
            IF begun.expected # f.total \/ begun.expected_sequence # f.sequence
               \/ Len(inner) > f.total
            THEN refused(begun)
            ELSE IF Len(inner) = f.total
                 THEN [codec |-> IsoDepReset(next), ok |-> TRUE, message |-> inner]
                 ELSE [codec |-> next, ok |-> TRUE, message |-> <<>>]
=============================================================================
