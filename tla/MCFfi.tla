-------------------------------- MODULE MCFfi --------------------------------
(***************************************************************************)
(* A client and a device, both behind the C ABI, with several requests in  *)
(* flight that are answered in any order.                                  *)
(***************************************************************************)
EXTENDS FfiSession, TLC

CONSTANTS phone, front

MCRoles == (phone :> "initiator") @@ (front :> "responder")
MCCommands == {[op |-> "Unlock", arg |-> 1], [op |-> "Status", arg |-> 1]}
MCCapabilities == [n \in {phone, front} |-> {"Unlock", "Status"}]
=============================================================================
