------------------------------ MODULE MCAudit ------------------------------
(***************************************************************************)
(* A log of two events and a reader that falls behind it.                  *)
(***************************************************************************)
EXTENDS AuditLog
=============================================================================
