------------------------------- MODULE MCFrames -------------------------------
(***************************************************************************)
(* A connection over BLE or over ISO-DEP.                                  *)
(*                                                                         *)
(* BLE may lose, repeat and reorder fragments, of one or two bytes here;   *)
(* message ids wrap after MaxMessageId.  ISO-DEP numbers its blocks        *)
(* itself: nothing is promised of a message after a fault, but the field   *)
(* may be left at any time; the fragment numbers wrap after SequenceRange. *)
(***************************************************************************)
EXTENDS BleCodec, IsoDepCodec

CONSTANTS BleMessages, IsoDepMessages, MaxFaults    \* per connection

(* No id comes back while a BLE connection lasts.                          *)
ASSUME FewMessages == BleMessages <= MaxMessageId

VARIABLES transport, sender, receiver, mtu, link, carried, sent, delivered, refused, faults

MCMessages == {<<1>>, <<1, 2, 1>>, <<2, 1, 2>>}
BleForeign == {[message_id |-> i, offset |-> 0, total |-> 3, payload |-> <<1>>] : i \in 0..1}
IsoDepForeign == {[sequence |-> 0, total |-> 1, payload |-> <<1, 1>>],
                  [sequence |-> 1, total |-> 2, payload |-> <<2>>]}
AnyMtu(c, n) == c

Ble == INSTANCE FrameLink WITH
  NewCodec <- NewBleCodec, CanEncode <- BleCanEncode, Frames <- BleFrames,
  Encoded <- BleEncoded, Push <- BlePush, Reset <- BleReset, SetMtu <- BleSetMtu,
  Mtus <- {MIN_ATT_MTU, MIN_ATT_MTU + 1}, Messages <- MCMessages, Foreign <- BleForeign,
  Tolerated <- {"lost", "repeated", "reordered"}, MaxMessages <- BleMessages

IsoDep == INSTANCE FrameLink WITH
  NewCodec <- NewIsoDepCodec, CanEncode <- IsoDepCanEncode, Frames <- IsoDepFrames,
  Encoded <- IsoDepEncoded, Push <- IsoDepPush, Reset <- IsoDepReset, SetMtu <- AnyMtu,
  Mtus <- {0}, Messages <- MCMessages, Foreign <- IsoDepForeign,
  Tolerated <- {}, MaxMessages <- IsoDepMessages

EitherVars ==
  <<transport, sender, receiver, mtu, link, carried, sent, delivered, refused, faults>>

EitherInit == (transport = "BLE" /\ Ble!Init) \/ (transport = "ISO-DEP" /\ IsoDep!Init)

EitherNext ==
  \/ transport = "BLE" /\ Ble!Next /\ UNCHANGED transport
  \/ transport = "ISO-DEP" /\ IsoDep!Next /\ UNCHANGED transport

EitherSpec == EitherInit /\ [][EitherNext]_EitherVars

(* Over BLE, whatever faults it is meant to stand, the receiver gets only  *)
(* whole messages of this connection (push of BleCodec).                   *)
MessagesAreWhole == transport = "BLE" => Ble!MessagesAreWhole

(* Over either, a connection without faults delivers everything in order   *)
(* and once, whatever happened before it (push, reset).                    *)
CleanConnectionDelivers ==
  IF transport = "BLE" THEN Ble!CleanConnectionDelivers ELSE IsoDep!CleanConnectionDelivers
=============================================================================
