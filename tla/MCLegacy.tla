------------------------------ MODULE MCLegacy -------------------------------
(***************************************************************************)
(* Two credentials, one of them with two uses in each epoch and a second   *)
(* signing for one use, and policies of two epochs.                        *)
(***************************************************************************)
EXTENDS LegacyLock

CONSTANTS ann, bob

MCGrants ==
  {[credential |-> ann, epoch |-> e, max_uses |-> 2] : e \in 0..1}
    \cup {[credential |-> ann, epoch |-> 0, max_uses |-> 1],
          [credential |-> bob, epoch |-> 0, max_uses |-> None]}
MCPolicies ==
  {[epoch |-> e, version |-> v, revoked |-> r] : e \in 0..1, v \in 1..2, r \in {{}, {ann}, {bob}}}
=============================================================================
