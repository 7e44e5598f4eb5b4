----------------------------- MODULE Lifecycles -----------------------------
(***************************************************************************)
(* What the schema promises about credentials over their life: refresh     *)
(* token chains, one-time tokens, machine clients and their secrets, when  *)
(* rows are rotated, revoked, reaped, and when their owners are erased.    *)
(***************************************************************************)
EXTENDS Store

Ids(rows) == {r.id : r \in rows}

CONSTANT NotExpired     \* an expires_at the reaper does not reach yet

-----------------------------------------------------------------------------
(* Every credential has its owner: a refresh or one-time token its user, a *)
(* client secret its client, a tenant's client its tenant.  Erasing a user *)
(* or a tenant leaves nothing that could still be redeemed.                *)
NoOrphanCredential ==
    /\ \A k \in db["refresh_tokens"] \cup db["verification_tokens"] :
          k.user_id \in Ids(db["users"])
    /\ \A s \in db["oauth_client_secrets"] : s.client_id \in Ids(db["oauth_clients"])
    /\ \A c \in db["oauth_clients"] :
          c.tenant_id = NULL \/ c.tenant_id \in Ids(db["tenants"])

(* How tokens leave: the expiry reaper and the cascades, nothing else; and *)
(* nobody gives a token another id.                                        *)
OnlyReaped ==
    \A st \in Statements : st.table = "refresh_tokens" =>
        /\ st.op = "delete" => "expires_at" \in DOMAIN st.where /\ st.where["expires_at"] # NotExpired
        /\ st.op = "update" => "id" \notin DOMAIN st.set

(* Reaping an expired token never takes an unexpired one with it, however  *)
(* the two are chained by rotation: a device stays logged in as long as    *)
(* its newest token lives and its user exists (refresh_token.py: parent_id *)
(* is SET NULL; expires_at "drives the expiry reaper").                    *)
ReaperSparesDescendants ==
    [][\A k \in db["refresh_tokens"] :
          (k.expires_at = NotExpired /\ k.user_id \in Ids(db'["users"]))
             => k.id \in Ids(db'["refresh_tokens"])]_db

(* Nothing stands in the way of a removal that must not wait: the reaper   *)
(* may delete a token others descend from, and an account, a role or a     *)
(* client goes however much still refers to it; only people stop the       *)
(* removal of their institution, and they always do (the ON DELETE rules;  *)
(* refresh_token.py: the index on expires_at "drives the expiry reaper").  *)
OnlyPeopleStopErasure ==
    /\ \A st \in Statements :
          st.op = "delete" /\ st.table \notin {"tenants", "scopes"} => Accepts(db, st)
    /\ \A t \in db["tenants"] :
          DeleteOK(db, "tenants", [id |-> t.id])
             <=> \A u \in db["users"] : u.tenant_id # t.id

(* Erasing a tenant erases what that tenant owned and nothing else: no     *)
(* user and no token goes (RESTRICT stops it while people remain), and the *)
(* clients of other tenants and the global ones keep their secrets.        *)
TenantErasureIsContained ==
    [][Ids(db'["tenants"]) # Ids(db["tenants"]) /\ db'["tenants"] \subseteq db["tenants"] =>
         LET erased == Ids(db["tenants"]) \ Ids(db'["tenants"])
             kept   == {c \in db["oauth_clients"] : c.tenant_id \notin erased}
         IN  /\ db'["users"] = db["users"]
             /\ db'["refresh_tokens"] = db["refresh_tokens"]
             /\ db'["oauth_clients"] = kept
             /\ db'["oauth_client_secrets"] =
                  {s \in db["oauth_client_secrets"] : s.client_id \in Ids(kept)}]_db
=============================================================================
