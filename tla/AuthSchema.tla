----------------------------- MODULE AuthSchema -----------------------------
(***************************************************************************)
(* The relational schema of the identity service, as data.                 *)
(*                                                                         *)
(* Every table of app/models (and of the initial Alembic migration) is a   *)
(* record of the facts PostgreSQL enforces about its rows:                 *)
(*   columns   the columns some constraint or property reads               *)
(*   key       the primary key                                             *)
(*   notNull   the other columns declared NOT NULL                         *)
(*   unique    UNIQUE constraints and unique indexes, a partial one with   *)
(*             its WHERE clause as a set of <<column, value>> equalities   *)
(*   foreign   foreign keys: pairs <<child column, parent column>>, the    *)
(*             parent table and the ON DELETE rule; none of them has an    *)
(*             ON UPDATE rule, so all are NO ACTION for updates            *)
(*   checks    column -> the values its CHECK accepts (NULL always passes) *)
(* Columns that nothing here reads (names, descriptions, JSON settings,    *)
(* timestamps that are only displayed) are left out.                       *)
(*                                                                         *)
(* A definition X_Variant just before X is a plausible mistake in X, used  *)
(* to show that a property would notice it; nothing else refers to it.     *)
(***************************************************************************)

CONSTANTS
    NULL,        \* SQL NULL
    SlugFormat   \* the slugs that match ^[a-z0-9][a-z0-9-]{1,62}$

Over(cols) == [cols |-> cols, where |-> {}]
OverWhere(cols, where) == [cols |-> cols, where |-> where]
FK(on, parent, onDelete) ==
    [on |-> on, parent |-> parent, onDelete |-> onDelete]

-----------------------------------------------------------------------------
(* Institutions, people and what they may do.                              *)

tenants ==
    [columns |-> {"id", "slug", "status"},
     key     |-> {"id"},
     notNull |-> {"slug", "status"},
     unique  |-> {Over({"slug"})},
     foreign |-> {},
     checks  |-> [slug   |-> SlugFormat,
                  status |-> {"active", "suspended", "deleted"}]]

(* An address is unique per tenant among the rows not soft-deleted;        *)
(* (id, tenant_id) is there for the grants to refer to.                    *)
UserUnique_DeletedAtInKey ==
    {Over({"id", "tenant_id"}), Over({"tenant_id", "email_normalized", "deleted_at"})}
UserUnique ==
    {Over({"id", "tenant_id"}),
     OverWhere({"tenant_id", "email_normalized"}, {<<"deleted_at", NULL>>})}

users ==
    [columns |-> {"id", "tenant_id", "email_normalized", "status", "deleted_at"},
     key     |-> {"id"},
     notNull |-> {"tenant_id", "email_normalized", "status"},
     unique  |-> UserUnique,
     foreign |-> {FK({<<"tenant_id", "id">>}, "tenants", "RESTRICT")},
     checks  |-> [status |-> {"invited", "active", "disabled", "deleted"}]]

role_templates ==
    [columns |-> {"key"},
     key     |-> {"key"},
     notNull |-> {},
     unique  |-> {},
     foreign |-> {},
     checks  |-> [c \in {} |-> {}]]

roles ==
    [columns |-> {"id", "tenant_id", "key", "template_key"},
     key     |-> {"id"},
     notNull |-> {"tenant_id", "key"},
     unique  |-> {Over({"tenant_id", "key"}), Over({"id", "tenant_id"})},
     foreign |-> {FK({<<"tenant_id", "id">>}, "tenants", "CASCADE"),
                  FK({<<"template_key", "key">>}, "role_templates", "SET_NULL")},
     checks  |-> [c \in {} |-> {}]]

scopes ==
    [columns |-> {"key", "audience"},
     key     |-> {"key"},
     notNull |-> {"audience"},
     unique  |-> {},
     foreign |-> {},
     checks  |-> [c \in {} |-> {}]]

RoleScopeForeign_Cascade ==
    {FK({<<"role_id", "id">>}, "roles", "CASCADE"),
     FK({<<"scope_key", "key">>}, "scopes", "CASCADE")}
RoleScopeForeign_NoScope == {FK({<<"role_id", "id">>}, "roles", "CASCADE")}
RoleScopeForeign ==
    {FK({<<"role_id", "id">>}, "roles", "CASCADE"),
     FK({<<"scope_key", "key">>}, "scopes", "RESTRICT")}

role_scopes ==
    [columns |-> {"role_id", "scope_key"},
     key     |-> {"role_id", "scope_key"},
     notNull |-> {},
     unique  |-> {},
     foreign |-> RoleScopeForeign,
     checks  |-> [c \in {} |-> {}]]

(* The two composite foreign keys share the column tenant_id; it is NOT    *)
(* NULL because a NULL part would exempt a row from both (MATCH SIMPLE).   *)
GrantNotNull_TenantOptional == {}
GrantNotNull == {"tenant_id"}

GrantForeign_ById ==
    {FK({<<"user_id", "id">>}, "users", "CASCADE"),
     FK({<<"role_id", "id">>}, "roles", "CASCADE")}
GrantForeign ==
    {FK({<<"user_id", "id">>, <<"tenant_id", "tenant_id">>}, "users", "CASCADE"),
     FK({<<"role_id", "id">>, <<"tenant_id", "tenant_id">>}, "roles", "CASCADE")}

user_roles ==
    [columns |-> {"user_id", "role_id", "tenant_id"},
     key     |-> {"user_id", "role_id"},
     notNull |-> GrantNotNull,
     unique  |-> {},
     foreign |-> GrantForeign,
     checks  |-> [c \in {} |-> {}]]

-----------------------------------------------------------------------------
(* Tokens.  tenant_id is a plain column here: no foreign key ties it to    *)
(* the user's tenant.                                                      *)

RefreshTokenForeign_CascadeParent ==
    {FK({<<"user_id", "id">>}, "users", "CASCADE"),
     FK({<<"parent_id", "id">>}, "refresh_tokens", "CASCADE")}
RefreshTokenForeign_NoRule ==
    {FK({<<"user_id", "id">>}, "users", "CASCADE"),
     FK({<<"parent_id", "id">>}, "refresh_tokens", "RESTRICT")}
RefreshTokenForeign_NoUser ==
    {FK({<<"parent_id", "id">>}, "refresh_tokens", "SET_NULL")}
RefreshTokenForeign ==
    {FK({<<"user_id", "id">>}, "users", "CASCADE"),
     FK({<<"parent_id", "id">>}, "refresh_tokens", "SET_NULL")}

refresh_tokens ==
    [columns |-> {"id", "family_id", "user_id", "tenant_id", "token_hash", "parent_id",
                  "expires_at", "used_at", "revoked_at", "revoked_reason"},
     key     |-> {"id"},
     notNull |-> {"family_id", "user_id", "tenant_id", "token_hash", "expires_at"},
     unique  |-> {Over({"token_hash"})},
     foreign |-> RefreshTokenForeign,
     checks  |-> [revoked_reason |->
                    {"rotated", "logout", "reuse_detected", "admin_revoked",
                     "password_change", "user_disabled"}]]

verification_tokens ==
    [columns |-> {"id", "user_id", "tenant_id", "purpose", "token_hash",
                  "consumed_at"},
     key     |-> {"id"},
     notNull |-> {"user_id", "tenant_id", "purpose", "token_hash"},
     unique  |-> {Over({"token_hash"})},
     foreign |-> {FK({<<"user_id", "id">>}, "users", "CASCADE")},
     checks  |-> [purpose |-> {"password_reset", "email_verify", "invite"}]]

-----------------------------------------------------------------------------
(* Machine clients, keys and the append-only tables.                       *)

ClientForeign_None == {}
ClientForeign == {FK({<<"tenant_id", "id">>}, "tenants", "CASCADE")}

oauth_clients ==
    [columns |-> {"id", "client_id", "tenant_id"},
     key     |-> {"id"},
     notNull |-> {"client_id"},
     unique  |-> {Over({"client_id"})},
     foreign |-> ClientForeign,
     checks  |-> [c \in {} |-> {}]]

oauth_client_secrets ==
    [columns |-> {"id", "client_id", "secret_hash", "revoked_at"},
     key     |-> {"id"},
     notNull |-> {"client_id", "secret_hash"},
     unique  |-> {},
     foreign |-> {FK({<<"client_id", "id">>}, "oauth_clients", "CASCADE")},
     checks  |-> [c \in {} |-> {}]]

KeyUnique_None == {}
KeyUnique == {OverWhere({"status"}, {<<"status", "active">>})}

signing_keys ==
    [columns |-> {"kid", "status"},
     key     |-> {"kid"},
     notNull |-> {"status"},
     unique  |-> KeyUnique,
     foreign |-> {},
     checks  |-> [status |-> {"pending", "active", "retiring", "revoked"}]]

revocation_events ==
    [columns |-> {"seq", "subject_type", "subject_id"},
     key     |-> {"seq"},
     notNull |-> {"subject_type", "subject_id"},
     unique  |-> {},
     foreign |-> {},
     checks  |-> [subject_type |-> {"user", "tenant", "session", "jti", "client"}]]

throttle_buckets ==
    [columns |-> {"bucket_key", "window_start"},
     key     |-> {"bucket_key", "window_start"},
     notNull |-> {},
     unique  |-> {},
     foreign |-> {},
     checks  |-> [c \in {} |-> {}]]

auth_audit_events ==
    [columns |-> {"id", "actor_type", "action", "outcome"},
     key     |-> {"id"},
     notNull |-> {"actor_type", "action", "outcome"},
     unique  |-> {},
     foreign |-> {},
     checks  |-> [actor_type |-> {"user", "client", "system", "anonymous"},
                  outcome    |-> {"success", "failure"}]]

-----------------------------------------------------------------------------
(* The metadata of app/models/__init__.py: every table, by name.           *)
Schema ==
    [tenants              |-> tenants,
     users                |-> users,
     role_templates       |-> role_templates,
     roles                |-> roles,
     scopes               |-> scopes,
     role_scopes          |-> role_scopes,
     user_roles           |-> user_roles,
     refresh_tokens       |-> refresh_tokens,
     verification_tokens  |-> verification_tokens,
     oauth_clients        |-> oauth_clients,
     oauth_client_secrets |-> oauth_client_secrets,
     signing_keys         |-> signing_keys,
     revocation_events    |-> revocation_events,
     throttle_buckets     |-> throttle_buckets,
     auth_audit_events    |-> auth_audit_events]

Tables == DOMAIN Schema

Columns(t)  == Schema[t].columns
Key(t)      == Schema[t].key
NotNull(t)  == Schema[t].key \cup Schema[t].notNull
UniqueOn(t) == {Over(Schema[t].key)} \cup Schema[t].unique
Foreign(t)  == Schema[t].foreign
Checks(t)   == Schema[t].checks
-----------------------------------------------------------------------------
(* The reference data the migration inserts: the scope catalogue, each     *)
(* scope with the service it means something to, and the role templates    *)
(* with the scopes a role made from them starts with.                      *)

AdminScopes == {"admin:users:read", "admin:users:write", "admin:roles",
                "admin:audit", "admin:tenant"}

TutorScopes == {"students:read", "courses:read", "materials:read", "chat:use"}

TeacherScopes == TutorScopes \cup {"students:write", "enrolments:write",
                                   "materials:write", "proposals:approve"}

DefaultScopes ==
    [admin   |-> TeacherScopes \cup {"courses:write"} \cup AdminScopes,
     teacher |-> TeacherScopes,
     tutor   |-> TutorScopes]

SeededScopes ==
    [key : TeacherScopes \cup {"courses:write"}, audience : {"teachassist-api"}]
      \cup [key : AdminScopes, audience : {"teachassist-auth"}]

SeededTemplates == [key : DOMAIN DefaultScopes]
=============================================================================
