--------------------------- MODULE DatabaseProofs ---------------------------
(***************************************************************************)
(* Facts about the schema and about single statements, for every database: *)
(* an accepted INSERT, UPDATE or DELETE leaves rows of the right columns   *)
(* and keeps every constraint of every table.                              *)
(*                                                                         *)
(* The schema is used through the lemmas of the first section: they        *)
(* expand the table definitions once, so that the proofs about statements  *)
(* speak of foreign keys and unique indexes and never of a table by name.  *)
(***************************************************************************)
EXTENDS Database, TLAPS

(* The names the model knows are those of the fifteen tables.              *)
LEMMA TableNames ==
    Tables = {"tenants", "users", "role_templates", "roles", "scopes", "role_scopes",
              "user_roles", "refresh_tokens", "verification_tokens", "oauth_clients",
              "oauth_client_secrets", "signing_keys", "revocation_events",
              "throttle_buckets", "auth_audit_events"}
BY DEF Tables, Schema

(* The foreign keys of each table, as one list.                            *)
LEMMA Foreigns ==
    /\ Foreign("tenants") = {}
    /\ Foreign("users") = {FK({<<"tenant_id", "id">>}, "tenants", "RESTRICT")}
    /\ Foreign("role_templates") = {}
    /\ Foreign("roles") = {FK({<<"tenant_id", "id">>}, "tenants", "CASCADE"),
                           FK({<<"template_key", "key">>}, "role_templates", "SET_NULL")}
    /\ Foreign("scopes") = {}
    /\ Foreign("role_scopes") = {FK({<<"role_id", "id">>}, "roles", "CASCADE"),
                                 FK({<<"scope_key", "key">>}, "scopes", "RESTRICT")}
    /\ Foreign("user_roles") =
          {FK({<<"user_id", "id">>, <<"tenant_id", "tenant_id">>}, "users", "CASCADE"),
           FK({<<"role_id", "id">>, <<"tenant_id", "tenant_id">>}, "roles", "CASCADE")}
    /\ Foreign("refresh_tokens") = {FK({<<"user_id", "id">>}, "users", "CASCADE"),
                                    FK({<<"parent_id", "id">>}, "refresh_tokens", "SET_NULL")}
    /\ Foreign("verification_tokens") = {FK({<<"user_id", "id">>}, "users", "CASCADE")}
    /\ Foreign("oauth_clients") = {FK({<<"tenant_id", "id">>}, "tenants", "CASCADE")}
    /\ Foreign("oauth_client_secrets") = {FK({<<"client_id", "id">>}, "oauth_clients", "CASCADE")}
    /\ Foreign("signing_keys") = {}
    /\ Foreign("revocation_events") = {}
    /\ Foreign("throttle_buckets") = {}
    /\ Foreign("auth_audit_events") = {}
BY DEF Foreign, Schema, tenants, users, role_templates, roles, scopes, role_scopes,
     user_roles, refresh_tokens, verification_tokens, oauth_clients, oauth_client_secrets,
     signing_keys, revocation_events, throttle_buckets, auth_audit_events,
     RoleScopeForeign, GrantForeign, RefreshTokenForeign, ClientForeign

(* The fields of a foreign key.                                            *)
LEMMA FKFields ==
    ASSUME NEW on, NEW parent, NEW onDelete
    PROVE  LET f == FK(on, parent, onDelete)
           IN  f.on = on /\ f.parent = parent /\ f.onDelete = onDelete
BY DEF FK

(* Every foreign key of the schema is one of these twelve.                 *)
LEMMA ForeignKeyCases ==
    ASSUME NEW t \in Tables, NEW f \in Foreign(t)
    PROVE  \/ /\ t = "users" /\ f.parent = "tenants" /\ f.onDelete = "RESTRICT"
              /\ f.on = {<<"tenant_id", "id">>}
           \/ /\ t = "roles" /\ f.parent = "tenants" /\ f.onDelete = "CASCADE"
              /\ f.on = {<<"tenant_id", "id">>}
           \/ /\ t = "roles" /\ f.parent = "role_templates" /\ f.onDelete = "SET_NULL"
              /\ f.on = {<<"template_key", "key">>}
           \/ /\ t = "role_scopes" /\ f.parent = "roles" /\ f.onDelete = "CASCADE"
              /\ f.on = {<<"role_id", "id">>}
           \/ /\ t = "role_scopes" /\ f.parent = "scopes" /\ f.onDelete = "RESTRICT"
              /\ f.on = {<<"scope_key", "key">>}
           \/ /\ t = "user_roles" /\ f.parent = "users" /\ f.onDelete = "CASCADE"
              /\ f.on = {<<"user_id", "id">>, <<"tenant_id", "tenant_id">>}
           \/ /\ t = "user_roles" /\ f.parent = "roles" /\ f.onDelete = "CASCADE"
              /\ f.on = {<<"role_id", "id">>, <<"tenant_id", "tenant_id">>}
           \/ /\ t = "refresh_tokens" /\ f.parent = "users" /\ f.onDelete = "CASCADE"
              /\ f.on = {<<"user_id", "id">>}
           \/ /\ t = "refresh_tokens" /\ f.parent = "refresh_tokens"
              /\ f.onDelete = "SET_NULL" /\ f.on = {<<"parent_id", "id">>}
           \/ /\ t = "verification_tokens" /\ f.parent = "users" /\ f.onDelete = "CASCADE"
              /\ f.on = {<<"user_id", "id">>}
           \/ /\ t = "oauth_clients" /\ f.parent = "tenants" /\ f.onDelete = "CASCADE"
              /\ f.on = {<<"tenant_id", "id">>}
           \/ /\ t = "oauth_client_secrets" /\ f.parent = "oauth_clients"
              /\ f.onDelete = "CASCADE" /\ f.on = {<<"client_id", "id">>}
<1>1. t \in {"users", "roles", "role_scopes", "user_roles", "refresh_tokens",
            "verification_tokens", "oauth_clients", "oauth_client_secrets"}
  BY TableNames, Foreigns
<1>2. CASE t = "users"
  BY <1>2, Foreigns, FKFields
<1>3. CASE t = "roles"
  BY <1>3, Foreigns, FKFields
<1>4. CASE t = "role_scopes"
  BY <1>4, Foreigns, FKFields
<1>5. CASE t = "user_roles"
  BY <1>5, Foreigns, FKFields
<1>6. CASE t = "refresh_tokens"
  BY <1>6, Foreigns, FKFields
<1>7. CASE t \in {"verification_tokens", "oauth_clients", "oauth_client_secrets"}
  BY <1>7, Foreigns, FKFields
<1> QED BY <1>1, <1>2, <1>3, <1>4, <1>5, <1>6, <1>7

(* A foreign key refers to a table and has one of three ON DELETE rules.   *)
LEMMA ForeignShape ==
    ASSUME NEW t \in Tables, NEW f \in Foreign(t)
    PROVE  /\ f.parent \in Tables
           /\ f.onDelete \in {"CASCADE", "RESTRICT", "SET_NULL"}
BY ForeignKeyCases, TableNames

(* No three ON DELETE CASCADE keys form a chain: the longest lead from     *)
(* tenants over roles to grants and over clients to their secrets.         *)
LEMMA CascadeDepth ==
    ASSUME NEW t \in Tables, NEW f \in Foreign(t), f.onDelete = "CASCADE",
           NEW g \in Foreign(f.parent), g.onDelete = "CASCADE",
           NEW h \in Foreign(g.parent), h.onDelete = "CASCADE"
    PROVE  FALSE
BY ForeignKeyCases, ForeignShape

(* Only two foreign keys clear columns, one column each.                   *)
LEMMA SetNulls ==
    ASSUME NEW t \in Tables, NEW f \in Foreign(t), f.onDelete = "SET_NULL"
    PROVE  \/ t = "roles" /\ f.on = {<<"template_key", "key">>}
           \/ t = "refresh_tokens" /\ f.on = {<<"parent_id", "id">>}
BY ForeignKeyCases

(* What the constraints of those two tables read.                          *)
LEMMA RolesShape ==
    /\ Columns("roles") = {"id", "tenant_id", "key", "template_key"}
    /\ NotNull("roles") = {"id", "tenant_id", "key"}
    /\ DOMAIN Checks("roles") = {}
    /\ UniqueOn("roles") = {Over({"id"}), Over({"tenant_id", "key"}), Over({"id", "tenant_id"})}
BY DEF Columns, NotNull, Checks, UniqueOn, Schema, roles

(* The same of refresh_tokens.                                             *)
LEMMA RefreshTokensShape ==
    /\ Columns("refresh_tokens") = {"id", "family_id", "user_id", "tenant_id", "token_hash",
                  "parent_id", "expires_at", "used_at", "revoked_at", "revoked_reason"}
    /\ NotNull("refresh_tokens") = {"id", "family_id", "user_id", "tenant_id", "token_hash",
                  "expires_at"}
    /\ DOMAIN Checks("refresh_tokens") = {"revoked_reason"}
    /\ UniqueOn("refresh_tokens") = {Over({"id"}), Over({"token_hash"})}
BY DEF Columns, NotNull, Checks, UniqueOn, Schema, refresh_tokens

(* The fields of an index over whole columns.                              *)
LEMMA OverFields ==
    ASSUME NEW cols
    PROVE  Over(cols).cols = cols /\ Over(cols).where = {}
BY DEF Over

(* The referencing columns are columns of the child, the referenced ones   *)
(* of the parent, and no referenced column is one that SET NULL clears.    *)
LEMMA ForeignColumns ==
    ASSUME NEW t \in Tables, NEW f \in Foreign(t), NEW e \in f.on
    PROVE  /\ e[1] \in Columns(t)
           /\ e[2] \in Columns(f.parent)
           /\ e[2] # "template_key" /\ e[2] # "parent_id"
<1>1. e[2] \in {"id", "key", "tenant_id"}
  BY ForeignKeyCases
<1>2. e[1] \in Columns(t)
  <2>1. CASE t = "users"
    BY <2>1, ForeignKeyCases DEF Columns, Schema, users
  <2>2. CASE t = "roles"
    BY <2>2, ForeignKeyCases DEF Columns, Schema, roles
  <2>3. CASE t = "role_scopes"
    BY <2>3, ForeignKeyCases DEF Columns, Schema, role_scopes
  <2>4. CASE t = "user_roles"
    BY <2>4, ForeignKeyCases DEF Columns, Schema, user_roles
  <2>5. CASE t = "refresh_tokens"
    BY <2>5, ForeignKeyCases DEF Columns, Schema, refresh_tokens
  <2>6. CASE t = "verification_tokens"
    BY <2>6, ForeignKeyCases DEF Columns, Schema, verification_tokens
  <2>7. CASE t = "oauth_clients"
    BY <2>7, ForeignKeyCases DEF Columns, Schema, oauth_clients
  <2>8. CASE t = "oauth_client_secrets"
    BY <2>8, ForeignKeyCases DEF Columns, Schema, oauth_client_secrets
  <2> QED BY <2>1, <2>2, <2>3, <2>4, <2>5, <2>6, <2>7, <2>8, ForeignKeyCases
<1>3. e[2] \in Columns(f.parent)
  <2>1. CASE f.parent = "tenants"
    BY <2>1, ForeignKeyCases DEF Columns, Schema, tenants
  <2>2. CASE f.parent = "roles"
    BY <2>2, ForeignKeyCases DEF Columns, Schema, roles
  <2>3. CASE f.parent = "role_templates"
    BY <2>3, ForeignKeyCases DEF Columns, Schema, role_templates
  <2>4. CASE f.parent = "scopes"
    BY <2>4, ForeignKeyCases DEF Columns, Schema, scopes
  <2>5. CASE f.parent = "users"
    BY <2>5, ForeignKeyCases DEF Columns, Schema, users
  <2>6. CASE f.parent = "refresh_tokens"
    BY <2>6, ForeignKeyCases DEF Columns, Schema, refresh_tokens
  <2>7. CASE f.parent = "oauth_clients"
    BY <2>7, ForeignKeyCases DEF Columns, Schema, oauth_clients
  <2> QED BY <2>1, <2>2, <2>3, <2>4, <2>5, <2>6, <2>7, ForeignKeyCases
<1> QED BY <1>1, <1>2, <1>3

-----------------------------------------------------------------------------
(* INSERT and UPDATE.                                                      *)

(* An inserted row leaves a database of typed rows.                        *)
LEMMA InsertTyped ==
    ASSUME NEW d, IsDatabase(d), NEW t \in Tables, NEW r \in RowsOf(t)
    PROVE  IsDatabase(AfterInsert(d, t, r))
BY DEF IsDatabase, AfterInsert

(* An accepted INSERT keeps every constraint of every table.               *)
LEMMA InsertKeepsIntegrity ==
    ASSUME NEW d, IsDatabase(d), Integrity(d), NEW t \in Tables, NEW r \in RowsOf(t),
           InsertOK(d, t, r)
    PROVE  Integrity(AfterInsert(d, t, r))
<1> DEFINE after == AfterInsert(d, t, r)
<1>1. /\ after[t] = d[t] \cup {r}
      /\ \A x \in Tables : x # t => after[x] = d[x]
      /\ \A x \in Tables : d[x] \subseteq after[x]
  BY DEF IsDatabase, AfterInsert
<1> HIDE DEF after
<1>2. RowsAllowed(after)
  BY <1>1 DEF Integrity, RowsAllowed, InsertOK
<1>3. UniqueHolds(after)
  <2> SUFFICES ASSUME NEW x \in Tables, NEW u \in UniqueOn(x),
                      NEW a \in after[x], NEW b \in after[x], Clash(u, a, b)
               PROVE  a = b
    BY DEF UniqueHolds
  <2>1. Clash(u, b, a)
    BY DEF Clash
  <2>2. CASE a \in d[x] /\ b \in d[x]
    BY <2>2 DEF Integrity, UniqueHolds
  <2>3. CASE x = t /\ (a = r \/ b = r)
    BY <2>1, <2>3, <1>1 DEF InsertOK
  <2> QED BY <2>2, <2>3, <1>1
<1>4. ForeignHolds(after)
  <2> SUFFICES ASSUME NEW x \in Tables, NEW f \in Foreign(x), NEW a \in after[x]
               PROVE  HasParent(after, f, a)
    BY DEF ForeignHolds
  <2>1. CASE a \in d[x]
    <3>1. HasParent(d, f, a)
      BY <2>1 DEF Integrity, ForeignHolds
    <3>2. f.parent \in Tables
      BY ForeignShape
    <3> QED BY <3>1, <3>2, <1>1 DEF HasParent
  <2>2. CASE x = t /\ a = r
    BY <2>2 DEF InsertOK, after
  <2> QED BY <2>1, <2>2, <1>1
<1> QED BY <1>2, <1>3, <1>4 DEF Integrity, after

(* Updating columns to column values leaves rows of the same columns.      *)
LEMMA UpdateTyped ==
    ASSUME NEW d, IsDatabase(d), NEW t \in Tables, NEW where, NEW set,
           DOMAIN set \subseteq Columns(t), \A c \in DOMAIN set : set[c] \in Value
    PROVE  IsDatabase(AfterUpdate(d, t, where, set))
<1>1. ASSUME NEW r \in d[t]
      PROVE  UpdatedRow(d, t, where, set, r) \in RowsOf(t)
  <2>1. r \in RowsOf(t)
    BY DEF IsDatabase
  <2>2. Patched(r, set) \in RowsOf(t)
    BY <2>1 DEF Patched, RowsOf
  <2> QED BY <2>1, <2>2 DEF UpdatedRow
<1> QED BY <1>1 DEF IsDatabase, AfterUpdate

(* An accepted UPDATE keeps every constraint, those of the referring       *)
(* tables included: a changed key must leave its referrers a parent.       *)
LEMMA UpdateKeepsIntegrity ==
    ASSUME NEW d, IsDatabase(d), Integrity(d), NEW t \in Tables, NEW where, NEW set,
           UpdateOK(d, t, where, set)
    PROVE  Integrity(AfterUpdate(d, t, where, set))
<1> DEFINE after  == AfterUpdate(d, t, where, set)
           hit    == Matching(d, t, where)
           New(r) == UpdatedRow(d, t, where, set, r)
<1>1. /\ after[t] = {New(r) : r \in d[t]}
      /\ \A x \in Tables : x # t => after[x] = d[x]
  BY DEF IsDatabase, AfterUpdate
<1>2. /\ hit \subseteq d[t]
      /\ \A r \in hit : New(r) = Patched(r, set)
      /\ \A r \in d[t] \ hit : New(r) = r
  BY DEF Matching, UpdatedRow
<1>3. /\ \A r \in hit : RowAllowed(t, Patched(r, set))
      /\ \A u \in UniqueOn(t) : \A r \in hit : \A o \in d[t] \ {r} : ~Clash(u, Patched(r, set), New(o))
      /\ \A f \in Foreign(t) : \A r \in hit : HasParent(after, f, Patched(r, set))
      /\ \A x \in Tables : \A f \in Foreign(x) : \A r \in after[x] :
            (f.parent = t /\ \E p \in hit : Refers(f, r, p)) => HasParent(after, f, r)
  BY DEF UpdateOK
<1> HIDE DEF after, hit, New
<1>4. RowsAllowed(after)
  <2> SUFFICES ASSUME NEW x \in Tables, NEW a \in after[x]
               PROVE  RowAllowed(x, a)
    BY DEF RowsAllowed
  <2>1. CASE x # t
    BY <2>1, <1>1 DEF Integrity, RowsAllowed
  <2>2. CASE x = t
    <3>1. PICK r \in d[t] : a = New(r)
      BY <2>2, <1>1
    <3> QED BY <3>1, <2>2, <1>2, <1>3 DEF Integrity, RowsAllowed
  <2> QED BY <2>1, <2>2
<1>5. UniqueHolds(after)
  <2> SUFFICES ASSUME NEW x \in Tables, NEW u \in UniqueOn(x),
                      NEW a \in after[x], NEW b \in after[x], Clash(u, a, b)
               PROVE  a = b
    BY DEF UniqueHolds
  <2>1. CASE x # t
    BY <2>1, <1>1 DEF Integrity, UniqueHolds
  <2>2. CASE x = t
    <3>1. PICK r \in d[t] : a = New(r)
      BY <2>2, <1>1
    <3>2. PICK o \in d[t] : b = New(o)
      BY <2>2, <1>1
    <3>3. Clash(u, b, a)
      BY DEF Clash
    <3>4. CASE r \in hit /\ o # r
      BY <3>1, <3>2, <3>4, <2>2, <1>2, <1>3
    <3>5. CASE o \in hit /\ o # r
      BY <3>1, <3>2, <3>3, <3>5, <2>2, <1>2, <1>3
    <3>6. CASE r \notin hit /\ o \notin hit
      BY <3>1, <3>2, <3>6, <2>2, <1>2 DEF Integrity, UniqueHolds
    <3> QED BY <3>1, <3>2, <3>4, <3>5, <3>6
  <2> QED BY <2>1, <2>2
<1>6. ForeignHolds(after)
  <2> SUFFICES ASSUME NEW x \in Tables, NEW f \in Foreign(x), NEW a \in after[x]
               PROVE  HasParent(after, f, a)
    BY DEF ForeignHolds
  <2>1. f.parent \in Tables
    BY ForeignShape
  <2>2. CASE a \in d[x]
    <3>1. HasParent(d, f, a)
      BY <2>2 DEF Integrity, ForeignHolds
    <3>2. CASE \E e \in f.on : a[e[1]] = NULL
      BY <3>2 DEF HasParent
    <3>3. CASE \E p \in d[f.parent] : Refers(f, a, p)
      <4>1. PICK p \in d[f.parent] : Refers(f, a, p)
        BY <3>3
      <4>2. CASE f.parent = t /\ p \in hit
        BY <4>1, <4>2, <1>3
      <4>3. CASE f.parent = t /\ p \notin hit
        <5>1. p \in after[f.parent]
          BY <4>1, <4>3, <1>1, <1>2
        <5> QED BY <4>1, <5>1 DEF HasParent
      <4>4. CASE f.parent # t
        BY <4>1, <4>4, <2>1, <1>1 DEF HasParent
      <4> QED BY <4>2, <4>3, <4>4
    <3> QED BY <3>1, <3>2, <3>3 DEF HasParent
  <2>3. CASE a \notin d[x]
    <3>1. x = t
      BY <2>3, <1>1
    <3>2. PICK r \in d[t] : a = New(r)
      BY <3>1, <1>1
    <3>3. r \in hit
      BY <2>3, <3>1, <3>2, <1>2
    <3> QED BY <3>1, <3>2, <3>3, <1>2, <1>3
  <2> QED BY <2>2, <2>3
<1> QED BY <1>4, <1>5, <1>6 DEF Integrity, after

-----------------------------------------------------------------------------
(* DELETE.                                                                 *)

(* Doomed is closed under cascades: two rounds reach every row a deletion  *)
(* takes along.                                                            *)
LEMMA DoomedClosed ==
    ASSUME NEW d, NEW t \in Tables, NEW rows,
           NEW x \in Tables, NEW f \in Foreign(x), f.onDelete = "CASCADE",
           NEW r \in d[x], NEW p \in Doomed(d, t, rows)[f.parent], Refers(f, r, p)
    PROVE  r \in Doomed(d, t, rows)[x]
<1> DEFINE own    == OnlyIn(t, rows)
           kids   == Kids(d, own)
           nested == Kids(d, kids)
<1>0. f.parent \in Tables
  BY ForeignShape
<1>1. \A y \in Tables : Doomed(d, t, rows)[y] = own[y] \cup kids[y] \cup nested[y]
  BY DEF Doomed
<1>2. /\ \A y \in Tables : kids[y] = Orphans(d, "CASCADE", own, y)
      /\ \A y \in Tables : nested[y] = Orphans(d, "CASCADE", kids, y)
  BY DEF Kids
<1> HIDE DEF own, kids, nested
<1>3. CASE p \in own[f.parent]
  BY <1>1, <1>2, <1>3 DEF Orphans
<1>4. CASE p \in kids[f.parent]
  BY <1>1, <1>2, <1>4 DEF Orphans
<1>5. CASE p \in nested[f.parent]
  <2>1. PICK g \in Foreign(f.parent) :
           g.onDelete = "CASCADE" /\ \E q \in kids[g.parent] : Refers(g, p, q)
    BY <1>0, <1>2, <1>5 DEF Orphans
  <2>2. g.parent \in Tables
    BY <1>0, <2>1, ForeignShape
  <2>3. PICK q \in kids[g.parent] : Refers(g, p, q)
    BY <2>1
  <2>4. PICK h \in Foreign(g.parent) : h.onDelete = "CASCADE"
    BY <1>2, <2>2, <2>3 DEF Orphans
  <2> QED BY <2>1, <2>4, CascadeDepth
<1> QED BY <1>0, <1>1, <1>3, <1>4, <1>5

(* What a deletion takes, seen from a row it takes: the row was named, or  *)
(* a cascade leads to it from another row that goes.                       *)
LEMMA DoomedBy ==
    ASSUME NEW d, NEW t \in Tables, NEW rows, NEW x \in Tables, NEW r \in Doomed(d, t, rows)[x]
    PROVE  \/ x = t /\ r \in rows
           \/ \E f \in Foreign(x) : /\ f.onDelete = "CASCADE"
                                    /\ \E p \in Doomed(d, t, rows)[f.parent] : Refers(f, r, p)
<1> DEFINE own    == OnlyIn(t, rows)
           kids   == Kids(d, own)
           nested == Kids(d, kids)
           gone   == Doomed(d, t, rows)
<1>1. \A y \in Tables : gone[y] = own[y] \cup kids[y] \cup nested[y]
  BY DEF Doomed
<1>2. CASE r \in own[x]
  BY <1>2 DEF OnlyIn
<1>3. CASE r \in kids[x]
  <2> HIDE DEF own, gone
  <2>1. PICK f \in Foreign(x) : f.onDelete = "CASCADE" /\ \E p \in own[f.parent] : Refers(f, r, p)
    BY <1>3 DEF Kids, Orphans
  <2> QED BY <1>1, <2>1, ForeignShape DEF gone
<1>4. CASE r \in nested[x]
  <2> HIDE DEF kids, gone
  <2>1. PICK f \in Foreign(x) : f.onDelete = "CASCADE" /\ \E p \in kids[f.parent] : Refers(f, r, p)
    BY <1>4 DEF Kids, Orphans
  <2> QED BY <1>1, <2>1, ForeignShape DEF gone
<1> QED BY <1>1, <1>2, <1>3, <1>4

(* No cascade reaches tenants, users or scopes.                            *)
LEMMA RootsGo ==
    ASSUME NEW d, NEW t \in Tables, NEW rows, NEW x \in {"tenants", "users", "scopes"},
           NEW r \in Doomed(d, t, rows)[x]
    PROVE  t = x /\ r \in rows
<1>1. x \in Tables
  BY TableNames
<1>2. \A f \in Foreign(x) : f.onDelete # "CASCADE"
  BY <1>1, ForeignKeyCases
<1>3. \/ x = t /\ r \in rows
      \/ \E f \in Foreign(x) : /\ f.onDelete = "CASCADE"
                               /\ \E p \in Doomed(d, t, rows)[f.parent] : Refers(f, r, p)
  BY <1>1, DoomedBy
<1> QED BY <1>2, <1>3

(* A row that stays keeps every column except, in two tables, one.         *)
LEMMA DetachedKeeps ==
    ASSUME NEW x \in Tables, NEW gone, NEW r \in RowsOf(x)
    PROVE  /\ Detached(x, gone, r) \in RowsOf(x)
           /\ \A c \in Columns(x) :
                 \/ Detached(x, gone, r)[c] = r[c]
                 \/ /\ Detached(x, gone, r)[c] = NULL
                    /\ \/ x = "roles" /\ c = "template_key"
                       \/ x = "refresh_tokens" /\ c = "parent_id"
<1>1. DOMAIN r = Columns(x) /\ \A c \in Columns(x) : r[c] \in Value
  BY DEF RowsOf
<1>2. ASSUME NEW c \in Nulled(x, gone, r)
      PROVE  \/ x = "roles" /\ c = "template_key"
             \/ x = "refresh_tokens" /\ c = "parent_id"
  <2>1. PICK f \in Foreign(x) : f.onDelete = "SET_NULL" /\ \E e \in f.on : e[1] = c
    BY DEF Nulled
  <2>2. PICK e \in f.on : e[1] = c
    BY <2>1
  <2>3. CASE x = "roles" /\ f.on = {<<"template_key", "key">>}
    BY <2>2, <2>3
  <2>4. CASE x = "refresh_tokens" /\ f.on = {<<"parent_id", "id">>}
    BY <2>2, <2>4
  <2> QED BY <2>1, <2>3, <2>4, SetNulls
<1>3. Detached(x, gone, r) = [c \in Columns(x) |-> IF c \in Nulled(x, gone, r) THEN NULL ELSE r[c]]
  BY <1>1 DEF Detached
<1> QED BY <1>1, <1>2, <1>3, NullIsValue DEF RowsOf

(* SET NULL only ever meets nullable columns: it refuses no DELETE.        *)
LEMMA NulledNullable ==
    ASSUME NEW x \in Tables, NEW gone, NEW r
    PROVE  Nulled(x, gone, r) \cap NotNull(x) = {}
<1> SUFFICES ASSUME NEW c \in Nulled(x, gone, r)
             PROVE  c \notin NotNull(x)
  OBVIOUS
<1>1. PICK f \in Foreign(x) : f.onDelete = "SET_NULL" /\ \E e \in f.on : e[1] = c
  BY DEF Nulled
<1>2. \/ x = "roles" /\ c = "template_key"
      \/ x = "refresh_tokens" /\ c = "parent_id"
  <2>1. PICK e \in f.on : e[1] = c
    BY <1>1
  <2>2. CASE x = "roles" /\ f.on = {<<"template_key", "key">>}
    BY <2>1, <2>2
  <2>3. CASE x = "refresh_tokens" /\ f.on = {<<"parent_id", "id">>}
    BY <2>1, <2>3
  <2> QED BY <1>1, <2>2, <2>3, SetNulls
<1> QED BY <1>2, RolesShape, RefreshTokensShape

(* What a DELETE leaves are typed rows.                                    *)
LEMMA DeleteTyped ==
    ASSUME NEW d, IsDatabase(d), NEW t \in Tables, NEW where
    PROVE  IsDatabase(AfterDelete(d, t, where))
BY DetachedKeeps DEF IsDatabase, AfterDelete

(* Clearing a SET NULL column breaks no NOT NULL and no CHECK.             *)
LEMMA DetachedAllowed ==
    ASSUME NEW x \in Tables, NEW gone, NEW r \in RowsOf(x), RowAllowed(x, r)
    PROVE  RowAllowed(x, Detached(x, gone, r))
<1> DEFINE n == Detached(x, gone, r)
<1>1. CASE x = "roles"
  BY <1>1, DetachedKeeps, RolesShape DEF RowAllowed
<1>2. CASE x = "refresh_tokens"
  BY <1>2, DetachedKeeps, RefreshTokensShape DEF RowAllowed
<1>3. CASE x # "roles" /\ x # "refresh_tokens"
  <2>1. \A c \in Columns(x) : n[c] = r[c]
    BY <1>3, DetachedKeeps
  <2>2. n = r
    BY <2>1, DetachedKeeps DEF RowsOf
  <2> QED BY <2>2
<1> QED BY <1>1, <1>2, <1>3

(* Clearing a SET NULL column makes no two rows clash.                     *)
LEMMA DetachedClash ==
    ASSUME NEW x \in Tables, NEW gone, NEW r \in RowsOf(x), NEW o \in RowsOf(x),
           NEW u \in UniqueOn(x),
           Clash(u, Detached(x, gone, r), Detached(x, gone, o))
    PROVE  Clash(u, r, o)
<1> DEFINE n == Detached(x, gone, r)
           m == Detached(x, gone, o)
<1>1. CASE x = "roles"
  <2>1. \A c \in {"id", "tenant_id", "key"} : n[c] = r[c] /\ m[c] = o[c]
    BY <1>1, DetachedKeeps, RolesShape
  <2>2. u.where = {} /\ u.cols \subseteq {"id", "tenant_id", "key"}
    BY <1>1, RolesShape, OverFields
  <2> HIDE DEF n, m
  <2> QED BY <2>1, <2>2 DEF Clash, Indexed, n, m
<1>2. CASE x = "refresh_tokens"
  <2>1. \A c \in {"id", "token_hash"} : n[c] = r[c] /\ m[c] = o[c]
    BY <1>2, DetachedKeeps, RefreshTokensShape
  <2>2. u.where = {} /\ u.cols \subseteq {"id", "token_hash"}
    BY <1>2, RefreshTokensShape, OverFields
  <2> QED BY <2>1, <2>2 DEF Clash, Indexed
<1>3. CASE x # "roles" /\ x # "refresh_tokens"
  <2>1. \A c \in Columns(x) : n[c] = r[c] /\ m[c] = o[c]
    BY <1>3, DetachedKeeps
  <2>2. n = r /\ m = o
    BY <2>1, DetachedKeeps DEF RowsOf
  <2> QED BY <2>2
<1> QED BY <1>1, <1>2, <1>3

(* An accepted DELETE, with its cascades and cleared columns, leaves every *)
(* remaining row its parents and its unique keys.                          *)
LEMMA DeleteKeepsIntegrity ==
    ASSUME NEW d, IsDatabase(d), Integrity(d), NEW t \in Tables, NEW where,
           DeleteOK(d, t, where)
    PROVE  Integrity(AfterDelete(d, t, where))
<1> DEFINE hit    == Matching(d, t, where)
           gone   == Doomed(d, t, hit)
           after  == AfterDelete(d, t, where)
           Cut(x, r) == Detached(x, gone, r)
<1>1. \A x \in Tables : after[x] = {Cut(x, r) : r \in d[x] \ gone[x]}
  BY DEF AfterDelete
<1>2. \A x \in Tables : Orphans(d, "RESTRICT", gone, x) = {}
  BY DEF DeleteOK
<1>3. \A x \in Tables : d[x] \subseteq RowsOf(x)
  BY DEF IsDatabase
<1>4. \A x \in Tables : \A f \in Foreign(x) : \A r \in d[x] : \A p \in gone[f.parent] :
         f.onDelete = "CASCADE" /\ Refers(f, r, p) => r \in gone[x]
  BY DoomedClosed
<1> HIDE DEF hit, gone, after
<1>5. RowsAllowed(after)
  BY <1>1, <1>3, DetachedAllowed DEF Integrity, RowsAllowed
<1>6. UniqueHolds(after)
  <2> SUFFICES ASSUME NEW x \in Tables, NEW u \in UniqueOn(x),
                      NEW a \in after[x], NEW b \in after[x], Clash(u, a, b)
               PROVE  a = b
    BY DEF UniqueHolds
  <2>1. PICK r \in d[x] : a = Cut(x, r)
    BY <1>1
  <2>2. PICK o \in d[x] : b = Cut(x, o)
    BY <1>1
  <2>3. Clash(u, r, o)
    BY <2>1, <2>2, <1>3, DetachedClash
  <2> QED BY <2>1, <2>2, <2>3 DEF Integrity, UniqueHolds
<1>7. ForeignHolds(after)
  <2> SUFFICES ASSUME NEW x \in Tables, NEW f \in Foreign(x), NEW a \in after[x]
               PROVE  HasParent(after, f, a)
    BY DEF ForeignHolds
  <2>0. f.parent \in Tables /\ f.onDelete \in {"CASCADE", "RESTRICT", "SET_NULL"}
    BY ForeignShape
  <2>1. PICK r \in d[x] : r \notin gone[x] /\ a = Cut(x, r)
    BY <1>1
  <2>2. \A e \in f.on : e[1] \in Columns(x) /\ (a[e[1]] = r[e[1]] \/ a[e[1]] = NULL)
    BY <1>3, <2>1, ForeignColumns, DetachedKeeps
  <2>3. HasParent(d, f, r)
    BY DEF Integrity, ForeignHolds
  <2>4. CASE \E e \in f.on : r[e[1]] = NULL
    BY <2>2, <2>4 DEF HasParent
  <2>5. CASE \E p \in d[f.parent] : Refers(f, r, p)
    <3>1. PICK p \in d[f.parent] : Refers(f, r, p)
      BY <2>5
    <3>2. CASE p \in gone[f.parent]
      <4>1. f.onDelete # "CASCADE"
        BY <1>4, <2>1, <3>1, <3>2
      <4>2. f.onDelete # "RESTRICT"
        BY <1>2, <3>1, <3>2 DEF Orphans
      <4>3. f.onDelete = "SET_NULL"
        BY <2>0, <4>1, <4>2
      <4>4. PICK e \in f.on : TRUE
        BY <4>3, SetNulls
      <4>5. e[1] \in Nulled(x, gone, r)
        BY <2>2, <3>1, <3>2, <4>3 DEF Nulled
      <4>6. a[e[1]] = NULL
        BY <1>3, <2>1, <2>2, <4>5 DEF Detached, RowsOf
      <4> QED BY <4>6 DEF HasParent
    <3>3. CASE p \notin gone[f.parent]
      <4> DEFINE q == Cut(f.parent, p)
      <4>1. q \in after[f.parent]
        BY <1>1, <2>0, <3>3
      <4>2. \A e \in f.on : q[e[2]] = p[e[2]]
        BY <1>3, <2>0, ForeignColumns, DetachedKeeps
      <4>3. \A e \in f.on : a[e[1]] # NULL => a[e[1]] = q[e[2]]
        BY <2>2, <3>1, <4>2 DEF Refers
      <4> HIDE DEF q
      <4> QED BY <4>1, <4>3 DEF HasParent, Refers
    <3> QED BY <3>2, <3>3
  <2> QED BY <2>3, <2>4, <2>5 DEF HasParent
<1> QED BY <1>5, <1>6, <1>7 DEF Integrity, after

-----------------------------------------------------------------------------
(* Reading the constraints back.                                           *)

(* A row whose referencing columns are all NOT NULL has the row it refers  *)
(* to: MATCH SIMPLE exempts only rows with a NULL among them.              *)
LEMMA ParentExists ==
    ASSUME NEW d, Integrity(d), NEW t \in Tables, NEW f \in Foreign(t),
           \A e \in f.on : e[1] \in NotNull(t),
           NEW r \in d[t]
    PROVE  \E p \in d[f.parent] : \A e \in f.on : r[e[1]] = p[e[2]]
<1>1. \A e \in f.on : r[e[1]] # NULL
  BY DEF Integrity, RowsAllowed, RowAllowed
<1>2. HasParent(d, f, r)
  BY DEF Integrity, ForeignHolds
<1> QED BY <1>1, <1>2 DEF HasParent, Refers

(* An id names one row: uuid_pk is the primary key of the three tables     *)
(* that grants lead to.                                                    *)
LEMMA IdsIdentify ==
    ASSUME NEW d, Integrity(d), NEW t \in {"users", "roles", "tenants"},
           NEW r \in d[t], NEW o \in d[t], r["id"] = o["id"]
    PROVE  r = o
<1>1. t \in Tables
  BY TableNames
<1>2. Over({"id"}) \in UniqueOn(t) /\ "id" \in NotNull(t)
  <2>1. CASE t = "users"
    BY <2>1 DEF UniqueOn, NotNull, Schema, users
  <2>2. CASE t = "roles"
    BY <2>2 DEF UniqueOn, NotNull, Schema, roles
  <2>3. CASE t = "tenants"
    BY <2>3 DEF UniqueOn, NotNull, Schema, tenants
  <2> QED BY <2>1, <2>2, <2>3
<1>3. r["id"] # NULL
  BY <1>1, <1>2 DEF Integrity, RowsAllowed, RowAllowed
<1>4. Clash(Over({"id"}), r, o)
  BY <1>3, OverFields DEF Clash, Indexed
<1> QED BY <1>1, <1>2, <1>4 DEF Integrity, UniqueHolds

(* The parents of grants, scope entries, users and roles.                  *)
LEMMA AuthorityParents ==
    ASSUME NEW d, Integrity(d)
    PROVE  /\ \A g \in d["user_roles"] : \E u \in d["users"] :
                 u["id"] = g["user_id"] /\ u["tenant_id"] = g["tenant_id"]
           /\ \A g \in d["user_roles"] : \E r \in d["roles"] :
                 r["id"] = g["role_id"] /\ r["tenant_id"] = g["tenant_id"]
           /\ \A s \in d["role_scopes"] : \E r \in d["roles"] : r["id"] = s["role_id"]
           /\ \A s \in d["role_scopes"] : \E k \in d["scopes"] : k["key"] = s["scope_key"]
           /\ \A u \in d["users"] : \E t \in d["tenants"] : t["id"] = u["tenant_id"]
           /\ \A r \in d["roles"] : \E t \in d["tenants"] : t["id"] = r["tenant_id"]
<1>1. {"users", "roles", "role_scopes", "user_roles"} \subseteq Tables
  BY TableNames
<1>2. {"user_id", "role_id", "tenant_id"} \subseteq NotNull("user_roles")
  BY DEF NotNull, Schema, user_roles, GrantNotNull
<1>3. {"role_id", "scope_key"} \subseteq NotNull("role_scopes")
  BY DEF NotNull, Schema, role_scopes
<1>4. "tenant_id" \in NotNull("users")
  BY DEF NotNull, Schema, users
<1>5. "tenant_id" \in NotNull("roles")
  BY DEF NotNull, Schema, roles
<1>6. \A g \in d["user_roles"] : \E u \in d["users"] :
           u["id"] = g["user_id"] /\ u["tenant_id"] = g["tenant_id"]
  <2> SUFFICES ASSUME NEW g \in d["user_roles"]
               PROVE  \E u \in d["users"] : u["id"] = g["user_id"] /\ u["tenant_id"] = g["tenant_id"]
    OBVIOUS
  <2>1. PICK f \in Foreign("user_roles") : f.parent = "users" /\ f.on = {<<"user_id", "id">>, <<"tenant_id", "tenant_id">>}
    <3>1. FK({<<"user_id", "id">>, <<"tenant_id", "tenant_id">>}, "users", "CASCADE") \in Foreign("user_roles")
      BY Foreigns
    <3> QED BY <3>1, FKFields
  <2>2. \A e \in f.on : e[1] \in NotNull("user_roles")
    BY <1>2, <2>1
  <2>3. \E p \in d[f.parent] : \A e \in f.on : g[e[1]] = p[e[2]]
    BY <1>1, <2>2, ParentExists
  <2> QED BY <2>1, <2>3
<1>7. \A g \in d["user_roles"] : \E r \in d["roles"] :
           r["id"] = g["role_id"] /\ r["tenant_id"] = g["tenant_id"]
  <2> SUFFICES ASSUME NEW g \in d["user_roles"]
               PROVE  \E r \in d["roles"] : r["id"] = g["role_id"] /\ r["tenant_id"] = g["tenant_id"]
    OBVIOUS
  <2>1. PICK f \in Foreign("user_roles") : f.parent = "roles" /\ f.on = {<<"role_id", "id">>, <<"tenant_id", "tenant_id">>}
    <3>1. FK({<<"role_id", "id">>, <<"tenant_id", "tenant_id">>}, "roles", "CASCADE") \in Foreign("user_roles")
      BY Foreigns
    <3> QED BY <3>1, FKFields
  <2>2. \A e \in f.on : e[1] \in NotNull("user_roles")
    BY <1>2, <2>1
  <2>3. \E p \in d[f.parent] : \A e \in f.on : g[e[1]] = p[e[2]]
    BY <1>1, <2>2, ParentExists
  <2> QED BY <2>1, <2>3
<1>8. \A s \in d["role_scopes"] : \E r \in d["roles"] :
           r["id"] = s["role_id"]
  <2> SUFFICES ASSUME NEW s \in d["role_scopes"]
               PROVE  \E r \in d["roles"] : r["id"] = s["role_id"]
    OBVIOUS
  <2>1. PICK f \in Foreign("role_scopes") : f.parent = "roles" /\ f.on = {<<"role_id", "id">>}
    <3>1. FK({<<"role_id", "id">>}, "roles", "CASCADE") \in Foreign("role_scopes")
      BY Foreigns
    <3> QED BY <3>1, FKFields
  <2>2. \A e \in f.on : e[1] \in NotNull("role_scopes")
    BY <1>3, <2>1
  <2>3. \E p \in d[f.parent] : \A e \in f.on : s[e[1]] = p[e[2]]
    BY <1>1, <2>2, ParentExists
  <2> QED BY <2>1, <2>3
<1>9. \A s \in d["role_scopes"] : \E k \in d["scopes"] :
           k["key"] = s["scope_key"]
  <2> SUFFICES ASSUME NEW s \in d["role_scopes"]
               PROVE  \E k \in d["scopes"] : k["key"] = s["scope_key"]
    OBVIOUS
  <2>1. PICK f \in Foreign("role_scopes") : f.parent = "scopes" /\ f.on = {<<"scope_key", "key">>}
    <3>1. FK({<<"scope_key", "key">>}, "scopes", "RESTRICT") \in Foreign("role_scopes")
      BY Foreigns
    <3> QED BY <3>1, FKFields
  <2>2. \A e \in f.on : e[1] \in NotNull("role_scopes")
    BY <1>3, <2>1
  <2>3. \E p \in d[f.parent] : \A e \in f.on : s[e[1]] = p[e[2]]
    BY <1>1, <2>2, ParentExists
  <2> QED BY <2>1, <2>3
<1>10. \A u \in d["users"] : \E t \in d["tenants"] :
           t["id"] = u["tenant_id"]
  <2> SUFFICES ASSUME NEW u \in d["users"]
               PROVE  \E t \in d["tenants"] : t["id"] = u["tenant_id"]
    OBVIOUS
  <2>1. PICK f \in Foreign("users") : f.parent = "tenants" /\ f.on = {<<"tenant_id", "id">>}
    <3>1. FK({<<"tenant_id", "id">>}, "tenants", "RESTRICT") \in Foreign("users")
      BY Foreigns
    <3> QED BY <3>1, FKFields
  <2>2. \A e \in f.on : e[1] \in NotNull("users")
    BY <1>4, <2>1
  <2>3. \E p \in d[f.parent] : \A e \in f.on : u[e[1]] = p[e[2]]
    BY <1>1, <2>2, ParentExists
  <2> QED BY <2>1, <2>3
<1>11. \A r \in d["roles"] : \E t \in d["tenants"] :
           t["id"] = r["tenant_id"]
  <2> SUFFICES ASSUME NEW r \in d["roles"]
               PROVE  \E t \in d["tenants"] : t["id"] = r["tenant_id"]
    OBVIOUS
  <2>1. PICK f \in Foreign("roles") : f.parent = "tenants" /\ f.on = {<<"tenant_id", "id">>}
    <3>1. FK({<<"tenant_id", "id">>}, "tenants", "CASCADE") \in Foreign("roles")
      BY Foreigns
    <3> QED BY <3>1, FKFields
  <2>2. \A e \in f.on : e[1] \in NotNull("roles")
    BY <1>5, <2>1
  <2>3. \E p \in d[f.parent] : \A e \in f.on : r[e[1]] = p[e[2]]
    BY <1>1, <2>2, ParentExists
  <2> QED BY <2>1, <2>3
<1> QED BY <1>6, <1>7, <1>8, <1>9, <1>10, <1>11
=============================================================================
