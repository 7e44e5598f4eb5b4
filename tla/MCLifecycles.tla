---------------------------- MODULE MCLifecycles ----------------------------
(***************************************************************************)
(* One login's rotation chain of three tokens, a one-time token, a client  *)
(* of a tenant and a global client, each with a secret.                    *)
(***************************************************************************)
EXTENDS Lifecycles

CONSTANTS t1, t2, u1, k1, k2, k3, v1, c1, c2, x1, x2, h1, h2, fam, slug1, slug2, e1, past, later

MCSlugs == {slug1, slug2}

MCValue == {NULL, t1, t2, u1, k1, k2, k3, v1, c1, c2, x1, x2, h1, h2, fam, slug1, slug2,
            e1, past, later, "active", "rotated", "reuse_detected", "invite",
            "teachassist-api", "teachassist-auth"}
             \cup DefaultScopes["admin"] \cup DOMAIN DefaultScopes

Ins(t, rows) == {[op |-> "insert", table |-> t, row |-> r] : r \in rows}
Upd(t, ws, ps) == {[op |-> "update", table |-> t, where |-> w, set |-> p] : w \in ws, p \in ps}
Del(t, ws) == {[op |-> "delete", table |-> t, where |-> w] : w \in ws}

Token(id, parent, hash, expiry) ==
    [id |-> id, family_id |-> fam, user_id |-> u1, tenant_id |-> t1, token_hash |-> hash,
     parent_id |-> parent, expires_at |-> expiry, used_at |-> NULL, revoked_at |-> NULL,
     revoked_reason |-> NULL]

MCStatements ==
    Ins("tenants", {[id |-> t1, slug |-> slug1, status |-> "active"],
                    [id |-> t2, slug |-> slug2, status |-> "active"]})
    \cup Ins("users", {[id |-> u1, tenant_id |-> t1, email_normalized |-> e1,
                        status |-> "active", deleted_at |-> NULL]})
    \cup Ins("refresh_tokens", {Token(k1, NULL, h1, past), Token(k2, k1, h2, past),
                                Token(k2, k1, h2, later), Token(k3, k2, k3, later),
                                Token(k3, k2, h1, later)})
    \cup Upd("refresh_tokens", [id : {k1, k2}], {[used_at |-> later, revoked_reason |-> "rotated"]})
    \cup Upd("refresh_tokens", [family_id : {fam}],
             {[revoked_at |-> later, revoked_reason |-> "reuse_detected"]})
    \cup Del("refresh_tokens", [expires_at : {past}])
    \cup Ins("verification_tokens", {[id |-> v1, user_id |-> u1, tenant_id |-> t1,
              purpose |-> "invite", token_hash |-> h1, consumed_at |-> NULL]})
    \cup Ins("oauth_clients", {[id |-> c1, client_id |-> c1, tenant_id |-> t1],
                               [id |-> c2, client_id |-> c2, tenant_id |-> NULL],
                               [id |-> c2, client_id |-> c2, tenant_id |-> t2]})
    \cup Ins("oauth_client_secrets", {[id |-> x1, client_id |-> c1, secret_hash |-> h1, revoked_at |-> NULL],
                                      [id |-> x2, client_id |-> c2, secret_hash |-> h1, revoked_at |-> NULL]})
    \cup Del("oauth_clients", [id : {c1}])
    \cup Del("users", [id : {u1}])
    \cup Del("tenants", [id : {t1, t2}])

ASSUME TokensAreReaped == OnlyReaped
=============================================================================
