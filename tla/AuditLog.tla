------------------------------ MODULE AuditLog ------------------------------
(***************************************************************************)
(* The audit trail: what app/models/auth_audit_event.py says of the table, *)
(* over the table the migration creates.                                   *)
(***************************************************************************)
EXTENDS Store

(* A recorded event is never changed or removed (auth_audit_event.py:      *)
(* "Append-only audit log.  Enforced twice, deliberately": by the grants   *)
(* of the database role and by a trigger).                                 *)
AuditIsAppendOnly == [][db["auth_audit_events"] \subseteq db'["auth_audit_events"]]_db
=============================================================================
