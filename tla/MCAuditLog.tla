----------------------------- MODULE MCAuditLog -----------------------------
(***************************************************************************)
(* Two failed logins are recorded; one record is rewritten or removed.     *)
(***************************************************************************)
EXTENDS AuditLog

CONSTANTS a1, a2

MCValue == {NULL, a1, a2, "anonymous", "login", "failure", "success",
            "teachassist-api", "teachassist-auth"}
             \cup DefaultScopes["admin"] \cup DOMAIN DefaultScopes

MCStatements ==
    {[op |-> "insert", table |-> "auth_audit_events",
      row |-> [id |-> a, actor_type |-> "anonymous", action |-> "login", outcome |-> "failure"]] :
        a \in {a1, a2}}
    \cup {[op |-> "update", table |-> "auth_audit_events",
           where |-> [id |-> a1], set |-> [outcome |-> "success"]],
          [op |-> "delete", table |-> "auth_audit_events", where |-> [id |-> a1]]}
=============================================================================
