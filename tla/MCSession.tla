------------------------------ MODULE MCSession ------------------------------
(***************************************************************************)
(* Two connections of clients and two sessions of the device, which do not *)
(* all offer everything.  A connection may have two requests under way, of *)
(* different opcodes, that are answered in either order.                   *)
(***************************************************************************)
EXTENDS SessionNetwork, TLC

CONSTANTS phone, tablet, front, back

MCRoles == (phone :> "initiator") @@ (tablet :> "initiator") @@ (front :> "responder")
             @@ (back :> "responder")
MCCommands == {[op |-> "Unlock", arg |-> 1], [op |-> "Status", arg |-> 1]}
MCCapabilities ==
  (phone :> {"Unlock", "Status"}) @@ (tablet :> {"Status"}) @@ (front :> {"Unlock", "Status"})
    @@ (back :> {"Unlock"})
=============================================================================
