------------------------------ MODULE MCAuditLog ------------------------------
(***************************************************************************)
(* Two appending threads and two record bodies.                            *)
(***************************************************************************)
EXTENDS AuditLog

CONSTANTS t1, t2, b1, b2
=============================================================================
