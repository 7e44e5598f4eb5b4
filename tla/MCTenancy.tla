----------------------------- MODULE MCTenancy ------------------------------
(***************************************************************************)
(* Two institutions, two people and two roles over one address, one        *)
(* template and one scope of the catalogue.                                *)
(***************************************************************************)
EXTENDS Tenancy

CONSTANTS t1, t2, u1, u2, r1, r2, e1, s1, s2, deletion

MCSlugs  == {s1, s2}
MCScope  == "chat:use"
MCTemplate == "tutor"

MCValue == {NULL, t1, t2, u1, u2, r1, r2, e1, s1, s2, deletion,
            "active", "renamed", "teachassist-api", "teachassist-auth", "lead"}
             \cup DefaultScopes["admin"] \cup DOMAIN DefaultScopes

Ins(t, rows) == {[op |-> "insert", table |-> t, row |-> r] : r \in rows}
Upd(t, ws, ps) == {[op |-> "update", table |-> t, where |-> w, set |-> p] : w \in ws, p \in ps}
Del(t, ws) == {[op |-> "delete", table |-> t, where |-> w] : w \in ws}

MCStatements ==
    Ins("tenants", {[id |-> t1, slug |-> s1, status |-> "active"],
                    [id |-> t2, slug |-> s2, status |-> "active"],
                    [id |-> t2, slug |-> s1, status |-> "active"]})
    \cup Ins("users", [id : {u1}, tenant_id : {t1}, email_normalized : {e1},
                       status : {"active"}, deleted_at : {NULL}])
    \cup Ins("users", [id : {u2}, tenant_id : {t2}, email_normalized : {e1},
                       status : {"active"}, deleted_at : {NULL}])
    \cup Ins("roles", [id : {r1}, tenant_id : {t1}, key : {"lead"},
                       template_key : {MCTemplate}])
    \cup Ins("roles", [id : {r2}, tenant_id : {t2}, key : {"lead"},
                       template_key : {NULL}])
    \cup Ins("role_scopes", [role_id : {r1, r2}, scope_key : {MCScope}])
    \cup Ins("user_roles", [user_id : {u1, u2}, role_id : {r1}, tenant_id : {t1}])
    \cup Ins("user_roles", [user_id : {u2}, role_id : {r2}, tenant_id : {t1, t2}])
    \cup Ins("user_roles", [user_id : {u2}, role_id : {r1}, tenant_id : {NULL}])
    \cup Upd("users", [id : {u1, u2}],
             [tenant_id : {t1, t2}] \cup [deleted_at : {NULL, deletion}])
    \cup Upd("roles", [id : {r2}], [tenant_id : {t1, t2}])
    \cup Upd("scopes", [key : {MCScope}], [key : {"renamed"}])
    \cup Del("tenants", [id : {t1, t2}])
    \cup Del("users", [id : {u1, u2}])
    \cup Del("roles", [id : {r1, r2}])
    \cup Del("role_scopes", [role_id : {r1}])
    \cup Del("scopes", [key : {MCScope}])
    \cup Del("role_templates", [key : {MCTemplate}])

(* The statements above find roles, entries and grants as supposed.        *)
ASSUME AuthorityIsFound == AuthorityIsNamed
=============================================================================
