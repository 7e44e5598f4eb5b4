------------------------------ MODULE Tenancy -------------------------------
(***************************************************************************)
(* What the schema promises about institutions (tenants), people, roles    *)
(* and scopes, said in the terms of app/models and not in terms of the     *)
(* constraints that bring it about.                                        *)
(***************************************************************************)
EXTENDS Store

ScopesOfRole(d, role)  == {rs.scope_key : rs \in {x \in d["role_scopes"] : x.role_id = role}}

(* What a login of this user would put in its access token: the scopes of  *)
(* every role granted, by role id alone -- no tenant in the query.         *)
EffectiveScopes(d, user) ==
    UNION {ScopesOfRole(d, g.role_id) : g \in {x \in d["user_roles"] : x.user_id = user}}

UserIds(d) == {u.id : u \in d["users"]}

LiveUsers(d) == {u \in d["users"] : u.deleted_at = NULL}

-----------------------------------------------------------------------------
(* A grant never joins a user of one tenant to a role of another, whatever *)
(* order users are moved, roles re-homed and grants written in             *)
(* (user_role.py: "the database itself refuses").                          *)
NoCrossTenantGrant ==
    \A g \in db["user_roles"] : \A u \in db["users"] : \A r \in db["roles"] :
        (g.user_id = u.id /\ g.role_id = r.id) => u.tenant_id = r.tenant_id

(* An institution's slug and an address name at most one person who can    *)
(* log in, through soft deletes, restores, address changes and moves       *)
(* between tenants (user.py: unique among live rows only).                 *)
OneLoginPerAddress ==
    \A t1, t2 \in db["tenants"] : \A u1, u2 \in LiveUsers(db) :
        (/\ t1.slug = t2.slug
         /\ u1.tenant_id = t1.id
         /\ u2.tenant_id = t2.id
         /\ u1.email_normalized = u2.email_normalized) => u1 = u2

(* Authority never outlives what it was given to or derived from: a grant  *)
(* has its user and its role, a role's scope entry has its role and its    *)
(* catalogued scope, and users and roles have their tenant.                *)
NoDanglingAuthority ==
    /\ \A g \in db["user_roles"] :
          /\ \E u \in db["users"] : u.id = g.user_id
          /\ \E r \in db["roles"] : r.id = g.role_id
    /\ \A rs \in db["role_scopes"] :
          /\ \E r \in db["roles"] : r.id = rs.role_id
          /\ \E s \in db["scopes"] : s.key = rs.scope_key
    /\ \A x \in db["users"] \cup db["roles"] :
          \E t \in db["tenants"] : t.id = x.tenant_id

(* Removing or renaming a catalogued scope takes no scope away from        *)
(* anybody: either nobody had it or the statement is refused               *)
(* (role_scope.py: "must fail loudly rather than quietly de-authorise").   *)
NoQuietDeauthorisation ==
    [][\A s \in db["scopes"] :
          s.key \notin {x.key : x \in db'["scopes"]} =>
             \A u \in UserIds(db) : EffectiveScopes(db', u) = EffectiveScopes(db, u)]_db

(* How authority is edited: a role goes by its id or with its tenant's     *)
(* others, an entry of role_scopes is found by its role, a grant by any    *)
(* part of itself, and neither passes to another role or user by UPDATE.   *)
(* The schema does not ask for this; one statement that goes by a scope    *)
(* alone touches every institution.                                        *)
AuthorityIsNamed ==
    \A st \in Statements : st.op # "insert" =>
        /\ (st.table = "roles" /\ st.op = "delete") =>
               "id" \in DOMAIN st.where \/ "tenant_id" \in DOMAIN st.where
        /\ st.table = "role_scopes" =>
               /\ "role_id" \in DOMAIN st.where
               /\ st.op = "update" => "role_id" \notin DOMAIN st.set
        /\ st.table = "user_roles" =>
               /\ DOMAIN st.where # {}
               /\ st.op = "update" => "user_id" \notin DOMAIN st.set

(* One statement changes the effective scopes of the users of at most one  *)
(* tenant: a role is shared by nobody outside its institution, and a       *)
(* tenant, template or scope that several depend on cannot be pulled away. *)
StepTouchesOneTenant ==
    [][\A u1, u2 \in db["users"] :
          (/\ u1.id \in UserIds(db') /\ EffectiveScopes(db', u1.id) # EffectiveScopes(db, u1.id)
           /\ u2.id \in UserIds(db') /\ EffectiveScopes(db', u2.id) # EffectiveScopes(db, u2.id))
            => u1.tenant_id = u2.tenant_id]_db
=============================================================================
