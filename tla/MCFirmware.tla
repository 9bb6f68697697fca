----------------------------- MODULE MCFirmware -----------------------------
(***************************************************************************)
(* Two images with the same security version and a newer one, of different *)
(* sizes, sent in chunks of one or two bytes.                              *)
(***************************************************************************)
EXTENDS Firmware

MCManifests ==
  {[image |-> <<"a", "b">>, security |-> 1],
   [image |-> <<"b", "b">>, security |-> 1],
   [image |-> <<"a">>, security |-> 2]}
=============================================================================
