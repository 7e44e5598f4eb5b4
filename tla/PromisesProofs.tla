--------------------------- MODULE PromisesProofs ---------------------------
(***************************************************************************)
(* What the constraints buy.                                               *)
(*                                                                         *)
(* For institutions (Tenancy): no grant across tenants, one login per      *)
(* address, no authority without its source, no scope taken from anybody   *)
(* by editing the catalogue, and no statement that reaches the people of   *)
(* two institutions.                                                       *)
(*                                                                         *)
(* For credentials (Lifecycles): every one has its owner, the reaper       *)
(* spares what has not expired, erasing a tenant erases what is that       *)
(* tenant's, and only people keep their tenant from being erased.          *)
(***************************************************************************)
EXTENDS Tenancy, Lifecycles, StoreProofs

(* A grant never joins a user of one tenant to a role of another.  Both    *)
(* composite foreign keys carry the grant's own tenant_id, and that column *)
(* being NOT NULL is what keeps MATCH SIMPLE from waiving them.            *)
THEOREM GrantsStayInTenant == Spec => []NoCrossTenantGrant
<1>1. StoreIntegrity => NoCrossTenantGrant
  <2> SUFFICES ASSUME Integrity(db),
                      NEW g \in db["user_roles"], NEW u \in db["users"], NEW r \in db["roles"],
                      g.user_id = u.id, g.role_id = r.id
               PROVE  u.tenant_id = r.tenant_id
    BY DEF StoreIntegrity, NoCrossTenantGrant
  <2>1. PICK v \in db["users"] : v["id"] = g["user_id"] /\ v["tenant_id"] = g["tenant_id"]
    BY AuthorityParents
  <2>2. PICK q \in db["roles"] : q["id"] = g["role_id"] /\ q["tenant_id"] = g["tenant_id"]
    BY AuthorityParents
  <2>3. u = v /\ r = q
    BY <2>1, <2>2, IdsIdentify
  <2> QED BY <2>1, <2>2, <2>3
<1> QED BY <1>1, StoreKeepsIntegrity, PTL

(* A slug and an address name at most one user who is not soft-deleted:    *)
(* uq_tenants_slug picks the tenant, the partial index the user.           *)
THEOREM LoginIsUnambiguous == Spec => []OneLoginPerAddress
<1>1. StoreIntegrity => OneLoginPerAddress
  <2> SUFFICES ASSUME Integrity(db),
                      NEW a \in db["tenants"], NEW b \in db["tenants"],
                      NEW u \in LiveUsers(db), NEW v \in LiveUsers(db),
                      a.slug = b.slug, u.tenant_id = a.id, v.tenant_id = b.id,
                      u.email_normalized = v.email_normalized
               PROVE  u = v
    BY DEF StoreIntegrity, OneLoginPerAddress
  <2>1. "users" \in Tables /\ "tenants" \in Tables
    BY TableNames
  <2>2. a = b
    <3>1. Over({"slug"}) \in UniqueOn("tenants") /\ "slug" \in NotNull("tenants")
      BY DEF UniqueOn, NotNull, Schema, tenants
    <3>2. a["slug"] # NULL
      BY <2>1, <3>1 DEF Integrity, RowsAllowed, RowAllowed
    <3>3. Clash(Over({"slug"}), a, b)
      BY <3>2, OverFields DEF Clash, Indexed
    <3> QED BY <2>1, <3>1, <3>3 DEF Integrity, UniqueHolds
  <2>3. u \in db["users"] /\ v \in db["users"] /\ u["deleted_at"] = NULL /\ v["deleted_at"] = NULL
    BY DEF LiveUsers
  <2> DEFINE live == OverWhere({"tenant_id", "email_normalized"}, {<<"deleted_at", NULL>>})
  <2>4. live \in UniqueOn("users") /\ {"tenant_id", "email_normalized"} \subseteq NotNull("users")
    BY DEF UniqueOn, NotNull, Schema, users, UserUnique
  <2>5. u["tenant_id"] # NULL /\ u["email_normalized"] # NULL
    BY <2>1, <2>3, <2>4 DEF Integrity, RowsAllowed, RowAllowed
  <2>6. live.cols = {"tenant_id", "email_normalized"} /\ live.where = {<<"deleted_at", NULL>>}
    BY DEF OverWhere
  <2> HIDE DEF live
  <2>7. Clash(live, u, v)
    BY <2>2, <2>3, <2>5, <2>6 DEF Clash, Indexed
  <2> QED BY <2>1, <2>3, <2>4, <2>7 DEF Integrity, UniqueHolds
<1> QED BY <1>1, StoreKeepsIntegrity, PTL

(* A grant always has its user and its role, a role's scope entry its role *)
(* and its catalogued scope, users and roles their tenant.                 *)
THEOREM AuthorityHasItsSource == Spec => []NoDanglingAuthority
<1>1. StoreIntegrity => NoDanglingAuthority
  <2> SUFFICES ASSUME Integrity(db) PROVE NoDanglingAuthority
    BY DEF StoreIntegrity
  <2> QED BY AuthorityParents DEF NoDanglingAuthority
<1> QED BY <1>1, StoreKeepsIntegrity, PTL

(* A deletion from the catalogue reaches no other table: nothing cascades  *)
(* from scopes, and no cascade arrives there.                              *)
LEMMA ScopesStandAlone ==
    /\ Foreign("scopes") = {}
    /\ \A x \in Tables : \A f \in Foreign(x) :
          f.parent = "scopes" => x = "role_scopes" /\ f.onDelete = "RESTRICT"
BY Foreigns, ForeignKeyCases

(* Detaching leaves the rows of a table without SET NULL keys as they are. *)
LEMMA DetachedSame ==
    ASSUME NEW x \in {"role_scopes", "user_roles", "scopes"}, NEW gone, NEW r \in RowsOf(x)
    PROVE  Detached(x, gone, r) = r
<1>1. x \in Tables
  BY TableNames
<1>2. \A c \in Columns(x) : Detached(x, gone, r)[c] = r[c]
  BY <1>1, DetachedKeeps
<1> QED BY <1>1, <1>2, DetachedKeeps DEF RowsOf

(* Deleting from another table than scopes leaves the catalogue alone;     *)
(* deleting from the catalogue leaves grants and scope entries alone.      *)
LEMMA CatalogueDeletion ==
    ASSUME NEW d, IsDatabase(d), NEW t \in Tables, NEW where
    PROVE  /\ t # "scopes" => AfterDelete(d, t, where)["scopes"] = d["scopes"]
           /\ t = "scopes" => /\ AfterDelete(d, t, where)["role_scopes"] = d["role_scopes"]
                              /\ AfterDelete(d, t, where)["user_roles"] = d["user_roles"]
<1> DEFINE hit  == Matching(d, t, where)
           kids == Kids(d, OnlyIn(t, hit))
           gone == Doomed(d, t, hit)
<1>1. /\ {"role_scopes", "user_roles", "scopes"} \subseteq Tables
      /\ \A x \in Tables : d[x] \subseteq RowsOf(x)
  BY TableNames DEF IsDatabase
<1>2. \A x \in Tables : gone[x] = OnlyIn(t, hit)[x] \cup kids[x] \cup Kids(d, kids)[x]
  BY DEF Doomed
<1>3. \A x \in Tables : AfterDelete(d, t, where)[x] = {Detached(x, gone, r) : r \in d[x] \ gone[x]}
  BY DEF AfterDelete
<1>4. \A x \in {"role_scopes", "user_roles", "scopes"} :
         gone[x] = {} => AfterDelete(d, t, where)[x] = d[x]
  <2> HIDE DEF gone
  <2> SUFFICES ASSUME NEW x \in {"role_scopes", "user_roles", "scopes"}, gone[x] = {}
               PROVE  AfterDelete(d, t, where)[x] = d[x]
    OBVIOUS
  <2>1. \A r \in d[x] : Detached(x, gone, r) = r
    BY <1>1, DetachedSame
  <2>2. AfterDelete(d, t, where)[x] = {Detached(x, gone, r) : r \in d[x] \ gone[x]}
    BY <1>1, <1>3
  <2> QED BY <2>1, <2>2
<1>5. CASE t # "scopes"
  <2>1. gone["scopes"] = {}
    BY <1>1, <1>2, <1>5, ScopesStandAlone DEF OnlyIn, Kids, Orphans
  <2> QED BY <1>4, <1>5, <2>1
<1>6. CASE t = "scopes"
  <2>1. \A x \in Tables : kids[x] = {}
    <3> SUFFICES ASSUME NEW x \in Tables, NEW r \in kids[x] PROVE FALSE
      OBVIOUS
    <3>1. PICK f \in Foreign(x) : f.onDelete = "CASCADE" /\ OnlyIn(t, hit)[f.parent] # {}
      BY DEF Kids, Orphans
    <3>2. f.parent = "scopes"
      BY <1>6, <3>1, ForeignShape DEF OnlyIn
    <3> QED BY <3>1, <3>2, ScopesStandAlone
  <2>2. \A x \in Tables : Kids(d, kids)[x] = {}
    <3> SUFFICES ASSUME NEW x \in Tables, NEW r \in Kids(d, kids)[x] PROVE FALSE
      OBVIOUS
    <3> HIDE DEF kids
    <3>1. PICK f \in Foreign(x) : kids[f.parent] # {}
      BY DEF Kids, Orphans
    <3> QED BY <2>1, <3>1, ForeignShape
  <2>3. gone["role_scopes"] = {} /\ gone["user_roles"] = {}
    <3> HIDE DEF kids, gone
    <3> QED BY <1>1, <1>2, <1>6, <2>1, <2>2 DEF OnlyIn
  <2> QED BY <1>1, <1>4, <1>6, <2>3
<1> QED BY <1>5, <1>6

(* What a user may do is a function of two tables.                         *)
LEMMA ScopesFromGrants ==
    ASSUME NEW d, NEW n, d["role_scopes"] = n["role_scopes"], d["user_roles"] = n["user_roles"],
           NEW u
    PROVE  EffectiveScopes(n, u) = EffectiveScopes(d, u)
BY DEF EffectiveScopes, ScopesOfRole

(* No statement that removes or renames a catalogued scope changes what    *)
(* anybody may do, however many roles and tenants there are.               *)
THEOREM CatalogueEditsAreHarmless == Spec => NoQuietDeauthorisation
<1> DEFINE Harmless ==
      \A s \in db["scopes"] :
          s.key \notin {x.key : x \in db'["scopes"]} =>
             \A u \in UserIds(db) : EffectiveScopes(db', u) = EffectiveScopes(db, u)
<1>1. ASSUME IInv, NEW st \in Statements, Accepts(db, st), db' = Result(db, st)
      PROVE  Harmless
  <2> SUFFICES ASSUME NEW s \in db["scopes"], s.key \notin {x.key : x \in db'["scopes"]}
               PROVE  db'["role_scopes"] = db["role_scopes"] /\ db'["user_roles"] = db["user_roles"]
    BY ScopesFromGrants
  <2>1. IsDatabase(db) /\ IsStatement(st)
    BY <1>1, StatementsAreWellFormed DEF IInv, TypeOK
  <2>2. {"role_scopes", "user_roles", "scopes"} \subseteq Tables
    BY TableNames
  <2>3. CASE st.op = "insert"
    <3>1. db["scopes"] \subseteq db'["scopes"]
      BY <1>1, <2>1, <2>2, <2>3 DEF Result, AfterInsert, IsDatabase
    <3> QED BY <3>1
  <2>4. CASE st.op = "update"
    <3>1. \A x \in Tables : x # st.table => db'[x] = db[x]
      BY <1>1, <2>1, <2>4 DEF Result, AfterUpdate, IsDatabase
    <3>2. st.table = "scopes"
      BY <2>2, <3>1
    <3> QED BY <2>2, <3>1, <3>2
  <2>5. CASE st.op = "delete"
    <3>1. db' = AfterDelete(db, st.table, st.where) /\ st.table \in Tables
      BY <1>1, <2>1, <2>5 DEF Result, IsStatement
    <3>2. st.table = "scopes"
      BY <2>1, <3>1, CatalogueDeletion
    <3> QED BY <2>1, <3>1, <3>2, CatalogueDeletion
  <2> QED BY <2>1, <2>3, <2>4, <2>5 DEF IsStatement
<1>2. IInv /\ [Next]_db => [Harmless]_db
  BY <1>1 DEF Next, Insert, Update, Delete, Issue, Execute
<1> QED BY <1>2, InitIInv, StepIInv, PTL DEF Spec, NoQuietDeauthorisation
-----------------------------------------------------------------------------
(* A grant, its user and its role are of one tenant; so whoever holds the  *)
(* same role is of the same tenant.                                        *)
LEMMA GrantTenant ==
    ASSUME NEW d, Integrity(d), NEW g \in d["user_roles"]
    PROVE  /\ \A u \in d["users"] : u["id"] = g["user_id"] => u["tenant_id"] = g["tenant_id"]
           /\ \A r \in d["roles"] : r["id"] = g["role_id"] => r["tenant_id"] = g["tenant_id"]
           /\ \A h \in d["user_roles"] : h["role_id"] = g["role_id"] => h["tenant_id"] = g["tenant_id"]
<1>1. \A u \in d["users"] : u["id"] = g["user_id"] => u["tenant_id"] = g["tenant_id"]
  BY AuthorityParents, IdsIdentify
<1>2. \A h \in d["user_roles"] : \A r \in d["roles"] :
         r["id"] = h["role_id"] => r["tenant_id"] = h["tenant_id"]
  BY AuthorityParents, IdsIdentify
<1>3. PICK r \in d["roles"] : r["id"] = g["role_id"]
  BY AuthorityParents
<1> QED BY <1>1, <1>2, <1>3

(* What a user may do changes only with one of the user's grants, or with  *)
(* an entry of a role that the user holds before and after.                *)
LEMMA ScopesChange ==
    ASSUME NEW d, NEW n, NEW u, EffectiveScopes(n, u) # EffectiveScopes(d, u)
    PROVE  \/ \E g \in (d["user_roles"] \ n["user_roles"]) \cup (n["user_roles"] \ d["user_roles"]) :
                 g["user_id"] = u
           \/ \E g \in d["user_roles"] :
                 /\ g["user_id"] = u
                 /\ \E rs \in (d["role_scopes"] \ n["role_scopes"])
                                \cup (n["role_scopes"] \ d["role_scopes"]) :
                       rs["role_id"] = g["role_id"]
<1> SUFFICES ASSUME \A g \in d["user_roles"] \cup n["user_roles"] : g["user_id"] = u =>
                       (g \in d["user_roles"] <=> g \in n["user_roles"]),
                    \A g \in d["user_roles"] : g["user_id"] = u =>
                       \A rs \in d["role_scopes"] \cup n["role_scopes"] : rs["role_id"] = g["role_id"] =>
                          (rs \in d["role_scopes"] <=> rs \in n["role_scopes"])
             PROVE  EffectiveScopes(n, u) = EffectiveScopes(d, u)
  OBVIOUS
<1>1. {x \in n["user_roles"] : x.user_id = u} = {x \in d["user_roles"] : x.user_id = u}
  OBVIOUS
<1>2. \A g \in {x \in d["user_roles"] : x.user_id = u} :
         ScopesOfRole(n, g.role_id) = ScopesOfRole(d, g.role_id)
  BY DEF ScopesOfRole
<1> QED BY <1>1, <1>2 DEF EffectiveScopes

(* A role goes by name or with its tenant.                                 *)
LEMMA RolesGo ==
    ASSUME NEW d, NEW t \in Tables, NEW rows, NEW r \in Doomed(d, t, rows)["roles"]
    PROVE  \/ t = "roles" /\ r \in rows
           \/ t = "tenants" /\ \E p \in rows : p["id"] = r["tenant_id"]
<1> DEFINE gone == Doomed(d, t, rows)
<1> HIDE DEF gone
<1>1. "roles" \in Tables
  BY TableNames
<1>2. CASE \E f \in Foreign("roles") :
              f.onDelete = "CASCADE" /\ \E p \in gone[f.parent] : Refers(f, r, p)
  <2>1. PICK f \in Foreign("roles") :
              f.onDelete = "CASCADE" /\ \E p \in gone[f.parent] : Refers(f, r, p)
    BY <1>2
  <2>2. f.parent = "tenants" /\ f.on = {<<"tenant_id", "id">>}
    BY <1>1, <2>1, ForeignKeyCases
  <2>3. PICK p \in gone["tenants"] : p["id"] = r["tenant_id"]
    BY <2>1, <2>2 DEF Refers
  <2>4. t = "tenants" /\ p \in rows
    BY <2>3, RootsGo DEF gone
  <2> QED BY <2>3, <2>4
<1> QED BY <1>1, <1>2, DoomedBy DEF gone

(* An entry of role_scopes goes by name or with its role.                  *)
LEMMA ScopeEntriesGo ==
    ASSUME NEW d, NEW t \in Tables, NEW rows, NEW r \in Doomed(d, t, rows)["role_scopes"]
    PROVE  \/ t = "role_scopes" /\ r \in rows
           \/ \E p \in Doomed(d, t, rows)["roles"] : p["id"] = r["role_id"]
<1> DEFINE gone == Doomed(d, t, rows)
<1> HIDE DEF gone
<1>1. "role_scopes" \in Tables
  BY TableNames
<1>2. CASE \E f \in Foreign("role_scopes") :
              f.onDelete = "CASCADE" /\ \E p \in gone[f.parent] : Refers(f, r, p)
  <2>1. PICK f \in Foreign("role_scopes") :
              f.onDelete = "CASCADE" /\ \E p \in gone[f.parent] : Refers(f, r, p)
    BY <1>2
  <2>2. f.parent = "roles" /\ f.on = {<<"role_id", "id">>}
    BY <1>1, <2>1, ForeignKeyCases
  <2>3. \E p \in gone["roles"] : p["id"] = r["role_id"]
    BY <2>1, <2>2 DEF Refers
  <2> QED BY <2>3 DEF gone
<1> QED BY <1>1, <1>2, DoomedBy DEF gone

(* A grant goes by name, with its user or with its role.                   *)
LEMMA GrantsGo ==
    ASSUME NEW d, NEW t \in Tables, NEW rows, NEW r \in Doomed(d, t, rows)["user_roles"]
    PROVE  \/ t = "user_roles" /\ r \in rows
           \/ t = "users" /\ \E p \in rows : p["id"] = r["user_id"]
           \/ \E p \in Doomed(d, t, rows)["roles"] : p["id"] = r["role_id"]
<1> DEFINE gone == Doomed(d, t, rows)
<1> HIDE DEF gone
<1>1. "user_roles" \in Tables
  BY TableNames
<1>2. CASE \E f \in Foreign("user_roles") :
              f.onDelete = "CASCADE" /\ \E p \in gone[f.parent] : Refers(f, r, p)
  <2>1. PICK f \in Foreign("user_roles") :
              f.onDelete = "CASCADE" /\ \E p \in gone[f.parent] : Refers(f, r, p)
    BY <1>2
  <2>2. \/ f.parent = "users" /\ <<"user_id", "id">> \in f.on
        \/ f.parent = "roles" /\ <<"role_id", "id">> \in f.on
    BY <1>1, <2>1, ForeignKeyCases
  <2>3. CASE f.parent = "users" /\ <<"user_id", "id">> \in f.on
    <3>1. PICK p \in gone["users"] : p["id"] = r["user_id"]
      BY <2>1, <2>3 DEF Refers
    <3>2. t = "users" /\ p \in rows
      BY <3>1, RootsGo DEF gone
    <3> QED BY <3>1, <3>2
  <2>4. CASE f.parent = "roles" /\ <<"role_id", "id">> \in f.on
    <3>1. \E p \in gone["roles"] : p["id"] = r["role_id"]
      BY <2>1, <2>4 DEF Refers
    <3> QED BY <3>1 DEF gone
  <2> QED BY <2>2, <2>3, <2>4
<1> QED BY <1>1, <1>2, DoomedBy DEF gone

(* A tenant whose users exist is not deleted, nor is anything with it.     *)
LEMMA PeopledTenantStays ==
    ASSUME NEW d, Integrity(d), NEW where, DeleteOK(d, "tenants", where),
           NEW u \in d["users"], NEW p \in Matching(d, "tenants", where)
    PROVE  p["id"] # u["tenant_id"]
<1> DEFINE f    == FK({<<"tenant_id", "id">>}, "tenants", "RESTRICT")
           hit  == Matching(d, "tenants", where)
           gone == Doomed(d, "tenants", hit)
<1>1. "users" \in Tables /\ "tenants" \in Tables /\ f \in Foreign("users")
  BY TableNames, Foreigns
<1>2. u["tenant_id"] # NULL
  BY <1>1 DEF Integrity, RowsAllowed, RowAllowed, NotNull, Schema, users
<1>3. f.on = {<<"tenant_id", "id">>} /\ f.parent = "tenants" /\ f.onDelete = "RESTRICT"
  BY FKFields
<1>4. p \in gone["tenants"]
  BY <1>1 DEF Doomed, OnlyIn
<1>5. Orphans(d, "RESTRICT", gone, "users") = {}
  BY <1>1 DEF DeleteOK
<1> HIDE DEF gone, f
<1>6. ~Refers(f, u, p)
  BY <1>1, <1>3, <1>4, <1>5 DEF Orphans
<1> QED BY <1>2, <1>3, <1>6 DEF Refers

(* The users whose scopes a step changes, and that one tenant has them.    *)
Touched(d, n) ==
    {u \in d["users"] : u.id \in UserIds(n) /\ EffectiveScopes(n, u.id) # EffectiveScopes(d, u.id)}

WithinOneTenant(d, n) == \A u, v \in Touched(d, n) : u.tenant_id = v.tenant_id

(* Grants and entries as they were: nobody is touched.                     *)
LEMMA NobodyTouched ==
    ASSUME NEW d, NEW n, d["role_scopes"] = n["role_scopes"], d["user_roles"] = n["user_roles"]
    PROVE  WithinOneTenant(d, n)
BY ScopesFromGrants DEF WithinOneTenant, Touched

(* A step that changes entries of one role only.                           *)
LEMMA EntriesOfOneRole ==
    ASSUME NEW d, Integrity(d), NEW n, d["user_roles"] = n["user_roles"], NEW role,
           \A rs \in (d["role_scopes"] \ n["role_scopes"]) \cup (n["role_scopes"] \ d["role_scopes"]) :
               rs["role_id"] = role
    PROVE  WithinOneTenant(d, n)
<1>1. ASSUME NEW u \in Touched(d, n)
      PROVE  \E g \in d["user_roles"] : g["role_id"] = role /\ u["tenant_id"] = g["tenant_id"]
  <2>1. u \in d["users"] /\ EffectiveScopes(n, u["id"]) # EffectiveScopes(d, u["id"])
    BY <1>1 DEF Touched
  <2>2. PICK g \in d["user_roles"] :
              /\ g["user_id"] = u["id"]
              /\ \E rs \in (d["role_scopes"] \ n["role_scopes"]) \cup (n["role_scopes"] \ d["role_scopes"]) :
                    rs["role_id"] = g["role_id"]
    BY <2>1, ScopesChange
  <2>3. u["tenant_id"] = g["tenant_id"]
    BY <2>1, <2>2, GrantTenant
  <2> QED BY <2>2, <2>3
<1>2. \A g, h \in d["user_roles"] : g["role_id"] = role /\ h["role_id"] = role => g["tenant_id"] = h["tenant_id"]
  BY GrantTenant
<1> QED BY <1>1, <1>2 DEF WithinOneTenant

(* INSERT: a grant is one user's, an entry one role's.                     *)
LEMMA InsertTouchesOneTenant ==
    ASSUME NEW d, IsDatabase(d), Integrity(d), NEW t \in Tables, NEW r
    PROVE  WithinOneTenant(d, AfterInsert(d, t, r))
<1> DEFINE n == AfterInsert(d, t, r)
<1>1. /\ \A x \in Tables : x # t => n[x] = d[x]
      /\ n[t] = d[t] \cup {r}
  BY DEF AfterInsert, IsDatabase
<1>2. "role_scopes" \in Tables /\ "user_roles" \in Tables
  BY TableNames
<1> HIDE DEF n
<1>3. CASE t = "user_roles"
  <2>1. ASSUME NEW u \in Touched(d, n) PROVE u \in d["users"] /\ u["id"] = r["user_id"]
    <3>1. u \in d["users"] /\ EffectiveScopes(n, u["id"]) # EffectiveScopes(d, u["id"])
      BY <2>1 DEF Touched
    <3>2. d["role_scopes"] = n["role_scopes"] /\ n["user_roles"] = d["user_roles"] \cup {r}
      BY <1>1, <1>2, <1>3
    <3>3. \E g \in (d["user_roles"] \ n["user_roles"]) \cup (n["user_roles"] \ d["user_roles"]) :
                 g["user_id"] = u["id"]
      BY <3>1, <3>2, ScopesChange
    <3> QED BY <3>1, <3>2, <3>3
  <2> QED BY <2>1, IdsIdentify DEF WithinOneTenant, n
<1>4. CASE t = "role_scopes"
  <2>1. /\ d["user_roles"] = n["user_roles"]
        /\ \A rs \in (d["role_scopes"] \ n["role_scopes"]) \cup (n["role_scopes"] \ d["role_scopes"]) :
               rs["role_id"] = r["role_id"]
    BY <1>1, <1>2, <1>4
  <2>2. WithinOneTenant(d, n)
    BY <2>1, EntriesOfOneRole
  <2> QED BY <2>2 DEF n
<1>5. CASE t \notin {"user_roles", "role_scopes"}
  <2>1. d["role_scopes"] = n["role_scopes"] /\ d["user_roles"] = n["user_roles"]
    BY <1>1, <1>2, <1>5
  <2> QED BY <2>1, NobodyTouched DEF n
<1> QED BY <1>3, <1>4, <1>5

(* Grants found by a part of themselves: whoever has one is of one tenant. *)
LEMMA GrantsFoundTogether ==
    ASSUME NEW d, Integrity(d), NEW where, DOMAIN where # {},
           DOMAIN where \subseteq {"user_id", "role_id", "tenant_id"},
           NEW g \in Matching(d, "user_roles", where), NEW h \in Matching(d, "user_roles", where)
    PROVE  g["tenant_id"] = h["tenant_id"]
<1>1. g \in d["user_roles"] /\ h \in d["user_roles"] /\ \A c \in DOMAIN where : g[c] = h[c]
  BY DEF Matching
<1>2. CASE "tenant_id" \in DOMAIN where
  BY <1>1, <1>2
<1>3. CASE "role_id" \in DOMAIN where
  BY <1>1, <1>3, GrantTenant
<1>4. CASE "user_id" \in DOMAIN where
  <2>1. PICK u \in d["users"] : u["id"] = g["user_id"]
    BY <1>1, AuthorityParents
  <2>2. u["tenant_id"] = g["tenant_id"] /\ u["tenant_id"] = h["tenant_id"]
    BY <1>1, <1>4, <2>1, GrantTenant
  <2> QED BY <2>2
<1> QED BY <1>2, <1>3, <1>4

(* The columns of the two tables.                                          *)
LEMMA AuthorityColumns ==
    /\ Columns("user_roles") = {"user_id", "role_id", "tenant_id"}
    /\ Columns("role_scopes") = {"role_id", "scope_key"}
BY DEF Columns, Schema, user_roles, role_scopes

(* UPDATE of entries of one role, or of grants found together.             *)
LEMMA UpdateTouchesOneTenant ==
    ASSUME NEW d, IsDatabase(d), Integrity(d), NEW t \in Tables, NEW where, NEW set,
           DOMAIN where \subseteq Columns(t),
           t = "role_scopes" => "role_id" \in DOMAIN where /\ "role_id" \notin DOMAIN set,
           t = "user_roles" => DOMAIN where # {} /\ "user_id" \notin DOMAIN set
    PROVE  WithinOneTenant(d, AfterUpdate(d, t, where, set))
<1> DEFINE n      == AfterUpdate(d, t, where, set)
           New(r) == UpdatedRow(d, t, where, set, r)
           hit    == Matching(d, t, where)
<1>1. /\ \A x \in Tables : x # t => n[x] = d[x]
      /\ n[t] = {New(r) : r \in d[t]}
  BY DEF AfterUpdate, IsDatabase
<1>2. "role_scopes" \in Tables /\ "user_roles" \in Tables
  BY TableNames
<1>3. /\ \A r \in d[t] : DOMAIN r = Columns(t)
      /\ \A r \in d[t] : r \notin hit => New(r) = r
      /\ \A r \in d[t] : \A c \in Columns(t) : c \notin DOMAIN set => New(r)[c] = r[c]
  <2>1. \A r \in d[t] : DOMAIN r = Columns(t)
    BY DEF IsDatabase, RowsOf
  <2>2. \A r \in d[t] : r \notin hit => New(r) = r
    BY DEF UpdatedRow
  <2>3. \A r \in d[t] : \A c \in Columns(t) : c \notin DOMAIN set => New(r)[c] = r[c]
    BY <2>1 DEF UpdatedRow, Patched
  <2> QED BY <2>1, <2>2, <2>3
<1> HIDE DEF n, New
<1>4. \A x \in (d[t] \ n[t]) \cup (n[t] \ d[t]) : \E r \in hit : x = r \/ x = New(r)
  BY <1>1, <1>3
<1>5. CASE t = "user_roles"
  <2>1. ASSUME NEW u \in Touched(d, n)
        PROVE  \E g \in Matching(d, "user_roles", where) : u["tenant_id"] = g["tenant_id"]
    <3>1. u \in d["users"] /\ EffectiveScopes(n, u["id"]) # EffectiveScopes(d, u["id"])
      BY <2>1 DEF Touched
    <3>2. d["role_scopes"] = n["role_scopes"]
      BY <1>1, <1>2, <1>5
    <3>3. PICK x \in (d["user_roles"] \ n["user_roles"]) \cup (n["user_roles"] \ d["user_roles"]) :
                 x["user_id"] = u["id"]
      BY <3>1, <3>2, ScopesChange
    <3>4. PICK g \in hit : x = g \/ x = New(g)
      BY <1>4, <1>5, <3>3
    <3>5. g \in d["user_roles"] /\ g["user_id"] = u["id"]
      BY <1>3, <1>5, <3>3, <3>4, AuthorityColumns DEF Matching
    <3>6. u["tenant_id"] = g["tenant_id"]
      BY <3>1, <3>5, GrantTenant
    <3> QED BY <1>5, <3>4, <3>6
  <2>2. \A g, h \in Matching(d, "user_roles", where) : g["tenant_id"] = h["tenant_id"]
    BY <1>5, AuthorityColumns, GrantsFoundTogether
  <2> QED BY <2>1, <2>2 DEF WithinOneTenant, n
<1>6. CASE t = "role_scopes"
  <2>1. d["user_roles"] = n["user_roles"]
    BY <1>1, <1>2, <1>6
  <2>2. \A rs \in (d["role_scopes"] \ n["role_scopes"]) \cup (n["role_scopes"] \ d["role_scopes"]) :
               rs["role_id"] = where["role_id"]
    BY <1>3, <1>4, <1>6, AuthorityColumns DEF Matching
  <2>3. WithinOneTenant(d, n)
    BY <2>1, <2>2, EntriesOfOneRole
  <2> QED BY <2>3 DEF n
<1>7. CASE t \notin {"user_roles", "role_scopes"}
  <2>1. d["role_scopes"] = n["role_scopes"] /\ d["user_roles"] = n["user_roles"]
    BY <1>1, <1>2, <1>7
  <2> QED BY <2>1, NobodyTouched DEF n
<1> QED BY <1>5, <1>6, <1>7

(* DELETE: what it takes of authority is a grant, an entry or a role that  *)
(* was named, because a user who stays keeps the tenant and its roles.     *)
LEMMA DeletionTakes ==
    ASSUME NEW d, IsDatabase(d), Integrity(d), NEW t \in Tables, NEW where, DeleteOK(d, t, where),
           NEW u \in Touched(d, AfterDelete(d, t, where))
    PROVE  \E g \in d["user_roles"] :
              /\ g["user_id"] = u["id"]
              /\ \/ t = "user_roles" /\ g \in Matching(d, t, where)
                 \/ t = "role_scopes" /\ \E rs \in Matching(d, t, where) : rs["role_id"] = g["role_id"]
                 \/ t = "roles" /\ \E p \in Matching(d, t, where) : p["id"] = g["role_id"]
<1> DEFINE n    == AfterDelete(d, t, where)
           hit  == Matching(d, t, where)
           gone == Doomed(d, t, hit)
<1>1. {"role_scopes", "user_roles", "users", "roles"} \subseteq Tables /\ \A x \in Tables : d[x] \subseteq RowsOf(x)
  BY TableNames DEF IsDatabase
<1>2. \A x \in Tables : n[x] = {Detached(x, gone, r) : r \in d[x] \ gone[x]}
  BY DEF AfterDelete
<1>3. u \in d["users"] /\ u["id"] \in UserIds(n) /\ EffectiveScopes(n, u["id"]) # EffectiveScopes(d, u["id"])
  BY DEF Touched
<1>4. \A x \in {"role_scopes", "user_roles"} : n[x] = d[x] \ gone[x]
  <2> HIDE DEF gone, n
  <2> SUFFICES ASSUME NEW x \in {"role_scopes", "user_roles"} PROVE n[x] = d[x] \ gone[x]
    OBVIOUS
  <2>1. \A r \in d[x] : Detached(x, gone, r) = r
    BY <1>1, DetachedSame
  <2> QED BY <1>1, <1>2, <2>1
<1>5. ASSUME t = "users", NEW p \in hit PROVE p["id"] # u["id"]
  <2>1. PICK o \in d["users"] \ gone["users"] : Detached("users", gone, o)["id"] = u["id"]
    <3> HIDE DEF gone, n
    <3> QED BY <1>1, <1>2, <1>3 DEF UserIds
  <2>2. o["id"] = u["id"]
    <3> HIDE DEF gone
    <3>1. "id" \in Columns("users")
      BY DEF Columns, Schema, users
    <3> QED BY <1>1, <2>1, <3>1, DetachedKeeps
  <2>3. o = u
    BY <1>3, <2>2, IdsIdentify
  <2>4. p \in gone["users"] /\ p \in d["users"]
    BY <1>1, <1>5 DEF Doomed, OnlyIn, Matching
  <2>5. p # u
    BY <2>1, <2>3, <2>4
  <2> QED BY <1>3, <2>4, <2>5, IdsIdentify
<1>6. ASSUME NEW g \in d["user_roles"], g["user_id"] = u["id"],
             NEW p \in gone["roles"], p["id"] = g["role_id"]
      PROVE  t = "roles" /\ p \in hit
  <2>1. CASE t = "tenants" /\ \E q \in hit : q["id"] = p["tenant_id"]
    <3>1. PICK q \in Matching(d, "tenants", where) : q["id"] = p["tenant_id"]
      BY <2>1
    <3>2. p \in d["roles"]
      BY <1>1, <2>1 DEF Doomed, OnlyIn, Kids, Orphans
    <3>3. p["tenant_id"] = g["tenant_id"] /\ u["tenant_id"] = g["tenant_id"]
      BY <1>3, <1>6, <3>2, GrantTenant
    <3> QED BY <1>3, <2>1, <3>1, <3>3, PeopledTenantStays
  <2>2. \A r \in Doomed(d, t, hit)["roles"] :
           \/ t = "roles" /\ r \in hit
           \/ t = "tenants" /\ \E q \in hit : q["id"] = r["tenant_id"]
    <3> HIDE DEF hit
    <3> QED BY RolesGo
  <2> QED BY <2>1, <2>2
<1>7. \A g \in gone["user_roles"] :
         \/ t = "user_roles" /\ g \in hit
         \/ t = "users" /\ \E p \in hit : p["id"] = g["user_id"]
         \/ \E p \in gone["roles"] : p["id"] = g["role_id"]
  <2> HIDE DEF hit
  <2> QED BY GrantsGo
<1>8. \A rs \in gone["role_scopes"] :
         \/ t = "role_scopes" /\ rs \in hit
         \/ \E p \in gone["roles"] : p["id"] = rs["role_id"]
  <2> HIDE DEF hit
  <2> QED BY ScopeEntriesGo
<1>9. PICK g \in d["user_roles"] :
            /\ g["user_id"] = u["id"]
            /\ \/ g \in gone["user_roles"]
               \/ \E rs \in gone["role_scopes"] : rs["role_id"] = g["role_id"]
  <2> HIDE DEF gone, n
  <2>1. \/ \E g \in (d["user_roles"] \ n["user_roles"]) \cup (n["user_roles"] \ d["user_roles"]) :
                 g["user_id"] = u["id"]
        \/ \E g \in d["user_roles"] :
                 /\ g["user_id"] = u["id"]
                 /\ \E rs \in (d["role_scopes"] \ n["role_scopes"])
                                \cup (n["role_scopes"] \ d["role_scopes"]) :
                       rs["role_id"] = g["role_id"]
    BY <1>3, ScopesChange
  <2> QED BY <1>4, <2>1
<1> HIDE DEF gone, hit
<1>10. \/ t = "user_roles" /\ g \in hit
       \/ t = "role_scopes" /\ \E rs \in hit : rs["role_id"] = g["role_id"]
       \/ t = "roles" /\ \E p \in hit : p["id"] = g["role_id"]
  BY <1>5, <1>6, <1>7, <1>8, <1>9
<1> QED BY <1>9, <1>10 DEF hit

(* DELETE of grants found together, of entries of one role, of a role, or  *)
(* of roles of one tenant; and of anything else, users and tenants too.    *)
LEMMA DeleteTouchesOneTenant ==
    ASSUME NEW d, IsDatabase(d), Integrity(d), NEW t \in Tables, NEW where, DeleteOK(d, t, where),
           DOMAIN where \subseteq Columns(t),
           t = "roles" => "id" \in DOMAIN where \/ "tenant_id" \in DOMAIN where,
           t = "role_scopes" => "role_id" \in DOMAIN where,
           t = "user_roles" => DOMAIN where # {}
    PROVE  WithinOneTenant(d, AfterDelete(d, t, where))
<1> DEFINE n    == AfterDelete(d, t, where)
           hit  == Matching(d, t, where)
           Took(u, g) ==
              /\ g["user_id"] = u["id"]
              /\ \/ t = "user_roles" /\ g \in hit
                 \/ t = "role_scopes" /\ \E rs \in hit : rs["role_id"] = g["role_id"]
                 \/ t = "roles" /\ \E p \in hit : p["id"] = g["role_id"]
<1>1. \A u \in Touched(d, n) : \E g \in d["user_roles"] : Took(u, g)
  BY DeletionTakes
<1>2. \A u \in Touched(d, n) : \A g \in d["user_roles"] : Took(u, g) => u["tenant_id"] = g["tenant_id"]
  BY GrantTenant DEF Touched
<1>3. \A r \in hit : r \in d[t] /\ \A c \in DOMAIN where : r[c] = where[c]
  BY DEF Matching
<1> HIDE DEF n
<1>4. ASSUME NEW u \in Touched(d, n), NEW v \in Touched(d, n),
             NEW g \in d["user_roles"], NEW h \in d["user_roles"], Took(u, g), Took(v, h)
      PROVE  g["tenant_id"] = h["tenant_id"]
  <2>1. CASE t = "user_roles"
    <3>1. g \in Matching(d, "user_roles", where) /\ h \in Matching(d, "user_roles", where)
      BY <1>4, <2>1
    <3> QED BY <2>1, <3>1, AuthorityColumns, GrantsFoundTogether
  <2>2. CASE t = "role_scopes"
    <3> HIDE DEF hit
    <3>1. g["role_id"] = where["role_id"] /\ h["role_id"] = where["role_id"]
      BY <1>3, <1>4, <2>2
    <3> QED BY <3>1, GrantTenant
  <2>3. CASE t = "roles"
    <3> HIDE DEF hit
    <3>1. PICK p \in d["roles"] : p \in hit /\ p["id"] = g["role_id"]
      BY <1>3, <1>4, <2>3
    <3>2. PICK q \in d["roles"] : q \in hit /\ q["id"] = h["role_id"]
      BY <1>3, <1>4, <2>3
    <3>3. p["tenant_id"] = g["tenant_id"] /\ q["tenant_id"] = h["tenant_id"]
      BY <3>1, <3>2, GrantTenant
    <3>4. p["tenant_id"] = q["tenant_id"]
      BY <1>3, <2>3, <3>1, <3>2, IdsIdentify
    <3> QED BY <3>3, <3>4
  <2> QED BY <1>4, <2>1, <2>2, <2>3
<1>5. WithinOneTenant(d, n)
  <2> HIDE DEF Took
  <2> QED BY <1>1, <1>2, <1>4 DEF WithinOneTenant
<1> QED BY <1>5 DEF n

(* No statement changes what people of two institutions may do, provided   *)
(* grants, entries and roles are found as AuthorityIsNamed says.           *)
THEOREM OneTenantAtATime == AuthorityIsNamed => (Spec => StepTouchesOneTenant)
<1> SUFFICES ASSUME AuthorityIsNamed PROVE Spec => StepTouchesOneTenant
  OBVIOUS
<1> DEFINE One ==
      \A u1, u2 \in db["users"] :
          (/\ u1.id \in UserIds(db') /\ EffectiveScopes(db', u1.id) # EffectiveScopes(db, u1.id)
           /\ u2.id \in UserIds(db') /\ EffectiveScopes(db', u2.id) # EffectiveScopes(db, u2.id))
            => u1.tenant_id = u2.tenant_id
<1>1. ASSUME IInv, NEW st \in Statements, Accepts(db, st), db' = Result(db, st)
      PROVE  WithinOneTenant(db, db')
  <2>1. IsDatabase(db) /\ Integrity(db) /\ IsStatement(st)
    BY <1>1, StatementsAreWellFormed DEF IInv, TypeOK, StoreIntegrity
  <2>2. st.table \in Tables
    BY <2>1 DEF IsStatement
  <2>3. CASE st.op = "insert"
    <3>1. db' = AfterInsert(db, st.table, st.row)
      BY <1>1, <2>3 DEF Result
    <3> QED BY <2>1, <2>2, <3>1, InsertTouchesOneTenant
  <2>4. CASE st.op = "update"
    <3>1. db' = AfterUpdate(db, st.table, st.where, st.set)
      BY <1>1, <2>4 DEF Result
    <3>2. /\ DOMAIN st.where \subseteq Columns(st.table)
          /\ st.table = "role_scopes" => "role_id" \in DOMAIN st.where /\ "role_id" \notin DOMAIN st.set
          /\ st.table = "user_roles" => DOMAIN st.where # {} /\ "user_id" \notin DOMAIN st.set
      BY <2>1, <2>4 DEF IsStatement, AuthorityIsNamed
    <3> QED BY <2>1, <2>2, <3>1, <3>2, UpdateTouchesOneTenant
  <2>5. CASE st.op = "delete"
    <3>1. db' = AfterDelete(db, st.table, st.where) /\ DeleteOK(db, st.table, st.where)
      BY <1>1, <2>5 DEF Accepts, Result
    <3>2. /\ DOMAIN st.where \subseteq Columns(st.table)
          /\ st.table = "roles" => "id" \in DOMAIN st.where \/ "tenant_id" \in DOMAIN st.where
          /\ st.table = "role_scopes" => "role_id" \in DOMAIN st.where
          /\ st.table = "user_roles" => DOMAIN st.where # {}
      BY <2>1, <2>5 DEF IsStatement, AuthorityIsNamed
    <3> QED BY <2>1, <2>2, <3>1, <3>2, DeleteTouchesOneTenant
  <2> QED BY <2>1, <2>3, <2>4, <2>5 DEF IsStatement
<1>2. WithinOneTenant(db, db') => One
  BY DEF WithinOneTenant, Touched
<1>3. IInv /\ [Next]_db => [One]_db
  BY <1>1, <1>2 DEF Next, Insert, Update, Delete, Issue, Execute
<1> QED BY <1>3, InitIInv, StepIInv, PTL DEF Spec, StepTouchesOneTenant

-----------------------------------------------------------------------------

(* The tables whose primary key is uuid_pk.                                *)
Keyed == {"tenants", "users", "refresh_tokens", "verification_tokens", "oauth_clients",
          "oauth_client_secrets"}

(* Their key is indexed and not null.                                      *)
LEMMA KeyedShape ==
    ASSUME NEW t \in Keyed
    PROVE  /\ t \in Tables
           /\ "id" \in Columns(t)
           /\ "id" \in NotNull(t)
           /\ Over({"id"}) \in UniqueOn(t)
<1>1. CASE t = "tenants"
  BY <1>1, TableNames DEF Columns, NotNull, UniqueOn, Schema, tenants
<1>2. CASE t = "users"
  BY <1>2, TableNames DEF Columns, NotNull, UniqueOn, Schema, users, UserUnique
<1>3. CASE t = "refresh_tokens"
  BY <1>3, TableNames DEF Columns, NotNull, UniqueOn, Schema, refresh_tokens
<1>4. CASE t = "verification_tokens"
  BY <1>4, TableNames DEF Columns, NotNull, UniqueOn, Schema, verification_tokens
<1>5. CASE t = "oauth_clients"
  BY <1>5, TableNames DEF Columns, NotNull, UniqueOn, Schema, oauth_clients
<1>6. CASE t = "oauth_client_secrets"
  BY <1>6, TableNames DEF Columns, NotNull, UniqueOn, Schema, oauth_client_secrets
<1> QED BY <1>1, <1>2, <1>3, <1>4, <1>5, <1>6 DEF Keyed

(* The owner's column of a credential is not null.                         *)
LEMMA OwnerColumns ==
    /\ "user_id" \in NotNull("refresh_tokens")
    /\ "user_id" \in NotNull("verification_tokens")
    /\ "client_id" \in NotNull("oauth_client_secrets")
BY DEF NotNull, Schema, refresh_tokens, verification_tokens, oauth_client_secrets

(* An id names one row.                                                    *)
LEMMA OneRowPerId ==
    ASSUME NEW d, Integrity(d), NEW t \in Keyed, NEW r \in d[t], NEW o \in d[t], r["id"] = o["id"]
    PROVE  r = o
<1>1. r["id"] # NULL
  BY KeyedShape DEF Integrity, RowsAllowed, RowAllowed
<1>2. Clash(Over({"id"}), r, o)
  BY <1>1, OverFields DEF Clash, Indexed
<1> QED BY <1>2, KeyedShape DEF Integrity, UniqueHolds

-----------------------------------------------------------------------------
(* An owner by one column: the row a foreign key leads to.                 *)
LEMMA OwnerExists ==
    ASSUME NEW d, Integrity(d), NEW t \in Tables, NEW parent, NEW rule, NEW col,
           FK({<<col, "id">>}, parent, rule) \in Foreign(t),
           NEW r \in d[t], r[col] # NULL
    PROVE  \E p \in d[parent] : p["id"] = r[col]
<1> DEFINE f == FK({<<col, "id">>}, parent, rule)
<1>1. f.parent = parent /\ f.on = {<<col, "id">>}
  BY FKFields
<1> HIDE DEF f
<1>2. HasParent(d, f, r)
  BY DEF Integrity, ForeignHolds, f
<1> QED BY <1>1, <1>2 DEF HasParent, Refers

(* Every credential has its owner, after any history of statements: a      *)
(* token its user, a secret its client, a tenant's client its tenant.      *)
THEOREM CredentialsHaveOwners == Spec => []NoOrphanCredential
<1>1. StoreIntegrity => NoOrphanCredential
  <2> SUFFICES ASSUME Integrity(db) PROVE NoOrphanCredential
    BY DEF StoreIntegrity
  <2>1. /\ FK({<<"user_id", "id">>}, "users", "CASCADE") \in Foreign("refresh_tokens")
        /\ FK({<<"user_id", "id">>}, "users", "CASCADE") \in Foreign("verification_tokens")
        /\ FK({<<"client_id", "id">>}, "oauth_clients", "CASCADE") \in Foreign("oauth_client_secrets")
        /\ FK({<<"tenant_id", "id">>}, "tenants", "CASCADE") \in Foreign("oauth_clients")
    BY Foreigns
  <2>2. {"refresh_tokens", "verification_tokens", "oauth_client_secrets", "oauth_clients"} \subseteq Tables
    BY TableNames
  <2>3. \A k \in db["refresh_tokens"] \cup db["verification_tokens"] : k["user_id"] # NULL
    BY <2>2, OwnerColumns DEF Integrity, RowsAllowed, RowAllowed
  <2>4. \A s \in db["oauth_client_secrets"] : s["client_id"] # NULL
    BY <2>2, OwnerColumns DEF Integrity, RowsAllowed, RowAllowed
  <2>5. \A k \in db["refresh_tokens"] \cup db["verification_tokens"] :
           \E u \in db["users"] : u["id"] = k["user_id"]
    <3>1. ASSUME NEW k \in db["refresh_tokens"]
          PROVE  \E u \in db["users"] : u["id"] = k["user_id"]
      <4>1. "refresh_tokens" \in Tables /\ k["user_id"] # NULL
        BY <2>2, <2>3
      <4>2. FK({<<"user_id", "id">>}, "users", "CASCADE") \in Foreign("refresh_tokens")
        BY <2>1
      <4> QED BY <4>1, <4>2, OwnerExists
    <3>2. ASSUME NEW k \in db["verification_tokens"]
          PROVE  \E u \in db["users"] : u["id"] = k["user_id"]
      <4>1. "verification_tokens" \in Tables /\ k["user_id"] # NULL
        BY <2>2, <2>3
      <4>2. FK({<<"user_id", "id">>}, "users", "CASCADE") \in Foreign("verification_tokens")
        BY <2>1
      <4> QED BY <4>1, <4>2, OwnerExists
    <3> QED BY <3>1, <3>2
  <2>6. \A s \in db["oauth_client_secrets"] : \E c \in db["oauth_clients"] : c["id"] = s["client_id"]
    BY <2>1, <2>2, <2>4, OwnerExists
  <2>7. \A c \in db["oauth_clients"] :
           c["tenant_id"] = NULL \/ \E t \in db["tenants"] : t["id"] = c["tenant_id"]
    BY <2>1, <2>2, OwnerExists
  <2> QED BY <2>5, <2>6, <2>7 DEF NoOrphanCredential, Ids
<1> QED BY <1>1, StoreKeepsIntegrity, PTL

-----------------------------------------------------------------------------
(* A token goes by name or with its user.                                  *)
LEMMA TokensGo ==
    ASSUME NEW d, NEW t \in Tables, NEW rows, NEW r \in Doomed(d, t, rows)["refresh_tokens"]
    PROVE  \/ t = "refresh_tokens" /\ r \in rows
           \/ t = "users" /\ \E p \in rows : p["id"] = r["user_id"]
<1> DEFINE gone == Doomed(d, t, rows)
<1> HIDE DEF gone
<1>1. "refresh_tokens" \in Tables
  BY TableNames
<1>2. CASE \E f \in Foreign("refresh_tokens") :
              f.onDelete = "CASCADE" /\ \E p \in gone[f.parent] : Refers(f, r, p)
  <2>1. PICK f \in Foreign("refresh_tokens") :
              f.onDelete = "CASCADE" /\ \E p \in gone[f.parent] : Refers(f, r, p)
    BY <1>2
  <2>2. f.parent = "users" /\ f.on = {<<"user_id", "id">>}
    BY <1>1, <2>1, ForeignKeyCases
  <2>3. PICK p \in gone["users"] : p["id"] = r["user_id"]
    BY <2>1, <2>2 DEF Refers
  <2>4. t = "users" /\ p \in rows
    BY <2>3, RootsGo DEF gone
  <2> QED BY <2>3, <2>4
<1> QED BY <1>1, <1>2, DoomedBy DEF gone

(* A client goes by name or with its tenant.                               *)
LEMMA ClientsGo ==
    ASSUME NEW d, NEW t \in Tables, NEW rows, t # "oauth_clients",
           NEW r \in Doomed(d, t, rows)["oauth_clients"]
    PROVE  \E p \in Doomed(d, t, rows)["tenants"] : p["id"] = r["tenant_id"] /\ r["tenant_id"] # NULL
<1> DEFINE gone == Doomed(d, t, rows)
<1> HIDE DEF gone
<1>1. "oauth_clients" \in Tables
  BY TableNames
<1>2. PICK f \in Foreign("oauth_clients") :
            f.onDelete = "CASCADE" /\ \E p \in gone[f.parent] : Refers(f, r, p)
  BY <1>1, DoomedBy DEF gone
<1>3. f.parent = "tenants" /\ f.on = {<<"tenant_id", "id">>}
  BY <1>1, <1>2, ForeignKeyCases
<1>4. \E p \in gone["tenants"] : p["id"] = r["tenant_id"] /\ r["tenant_id"] # NULL
  BY <1>2, <1>3 DEF Refers
<1> QED BY <1>4 DEF gone

(* A secret goes by name or with its client.                               *)
LEMMA SecretsGo ==
    ASSUME NEW d, NEW t \in Tables, NEW rows, t # "oauth_client_secrets",
           NEW r \in Doomed(d, t, rows)["oauth_client_secrets"]
    PROVE  \E p \in Doomed(d, t, rows)["oauth_clients"] : p["id"] = r["client_id"]
<1> DEFINE gone == Doomed(d, t, rows)
<1> HIDE DEF gone
<1>1. "oauth_client_secrets" \in Tables
  BY TableNames
<1>2. PICK f \in Foreign("oauth_client_secrets") :
            f.onDelete = "CASCADE" /\ \E p \in gone[f.parent] : Refers(f, r, p)
  BY <1>1, DoomedBy DEF gone
<1>3. f.parent = "oauth_clients" /\ f.on = {<<"client_id", "id">>}
  BY <1>1, <1>2, ForeignKeyCases
<1>4. \E p \in gone["oauth_clients"] : p["id"] = r["client_id"]
  BY <1>2, <1>3 DEF Refers
<1> QED BY <1>4 DEF gone

-----------------------------------------------------------------------------
(* An accepted UPDATE never gives a row the id another row had.            *)
LEMMA SameIdSameRow ==
    ASSUME NEW d, IsDatabase(d), Integrity(d), NEW t \in Keyed, NEW where, NEW set,
           UpdateOK(d, t, where, set),
           NEW k \in d[t], NEW o \in d[t], UpdatedRow(d, t, where, set, o)["id"] = k["id"]
    PROVE  k = o
<1> DEFINE hit    == Matching(d, t, where)
           New(r) == UpdatedRow(d, t, where, set, r)
<1>1. t \in Tables /\ "id" \in Columns(t) /\ Over({"id"}) \in UniqueOn(t) /\ k["id"] # NULL
  BY KeyedShape DEF Integrity, RowsAllowed, RowAllowed
<1>2. \A r \in d[t] : DOMAIN r = Columns(t)
  BY <1>1 DEF IsDatabase, RowsOf
<1>3. \A r \in d[t] : /\ r \in hit /\ "id" \in DOMAIN set => New(r)["id"] = set["id"]
                      /\ r \notin hit \/ "id" \notin DOMAIN set => New(r)["id"] = r["id"]
  BY <1>1, <1>2 DEF UpdatedRow, Patched
<1>4. \A r \in hit : New(r) = Patched(r, set)
  BY DEF UpdatedRow
<1>5. \A r \in hit : \A q \in d[t] \ {r} : ~Clash(Over({"id"}), Patched(r, set), New(q))
  BY <1>1 DEF UpdateOK
<1>6. CASE o \in hit /\ "id" \in DOMAIN set /\ k # o
  <2>1. New(o)["id"] = k["id"] /\ New(k)["id"] = k["id"]
    BY <1>3, <1>6
  <2>2. Clash(Over({"id"}), New(o), New(k))
    <3> HIDE DEF New
    <3> QED BY <1>1, <2>1, OverFields DEF Clash, Indexed
  <2> QED BY <1>4, <1>5, <1>6, <2>2
<1>7. CASE o \notin hit \/ "id" \notin DOMAIN set
  <2>1. o["id"] = k["id"]
    BY <1>3, <1>7
  <2> QED BY <2>1, OneRowPerId
<1> QED BY <1>6, <1>7

(* Deleting keeps the ids of the rows that stay.                           *)
LEMMA DeletionKeepsIds ==
    ASSUME NEW t \in Keyed, NEW gone, NEW r \in RowsOf(t)
    PROVE  Detached(t, gone, r)["id"] = r["id"]
BY KeyedShape, DetachedKeeps

-----------------------------------------------------------------------------
(* A row that may refuse a DELETE is a user of a tenant or an entry for a  *)
(* scope.                                                                  *)
LEMMA RestrictKeys ==
    ASSUME NEW x \in Tables, NEW f \in Foreign(x), f.onDelete = "RESTRICT"
    PROVE  \/ x = "users" /\ f.parent = "tenants" /\ f.on = {<<"tenant_id", "id">>}
           \/ x = "role_scopes" /\ f.parent = "scopes"
BY ForeignKeyCases

(* Only the deletion of tenants and of scopes can be refused.              *)
LEMMA OthersAreDeleted ==
    ASSUME NEW d, NEW t \in Tables, t \notin {"tenants", "scopes"}, NEW where
    PROVE  DeleteOK(d, t, where)
<1> DEFINE gone == Doomed(d, t, Matching(d, t, where))
<1>1. gone["tenants"] = {} /\ gone["scopes"] = {}
  BY RootsGo
<1> HIDE DEF gone
<1>2. ASSUME NEW x \in Tables
      PROVE  Orphans(d, "RESTRICT", gone, x) = {}
  BY <1>1, RestrictKeys DEF Orphans
<1> QED BY <1>2, NulledNullable DEF DeleteOK, gone

(* A tenant without people is deleted, whatever else it has.               *)
LEMMA EmptyTenantsAreDeleted ==
    ASSUME NEW d, NEW t \in d["tenants"], \A u \in d["users"] : u["tenant_id"] # t["id"],
           NEW where, where = [id |-> t["id"]]
    PROVE  DeleteOK(d, "tenants", where)
<1> DEFINE hit  == Matching(d, "tenants", where)
           gone == Doomed(d, "tenants", hit)
<1>0. "tenants" \in Tables
  BY TableNames
<1>1. \A p \in gone["tenants"] : p \in hit
  BY <1>0, RootsGo
<1>2. gone["scopes"] = {}
  BY <1>0, RootsGo
<1>3. \A p \in hit : p["id"] = t["id"]
  BY DEF Matching
<1> HIDE DEF gone, hit
<1>4. ASSUME NEW x \in Tables, NEW r \in Orphans(d, "RESTRICT", gone, x)
      PROVE  FALSE
  <2>1. PICK f \in Foreign(x) : f.onDelete = "RESTRICT" /\ \E p \in gone[f.parent] : Refers(f, r, p)
    BY <1>4 DEF Orphans
  <2>2. PICK p \in gone[f.parent] : Refers(f, r, p)
    BY <2>1
  <2>3. x = "users" /\ f.parent = "tenants" /\ f.on = {<<"tenant_id", "id">>}
    BY <1>2, <2>1, <2>2, RestrictKeys
  <2>4. r["tenant_id"] = p["id"]
    BY <2>2, <2>3 DEF Refers
  <2>5. r \in d["users"]
    BY <1>4, <2>3 DEF Orphans
  <2> QED BY <1>1, <1>3, <2>2, <2>3, <2>4, <2>5
<1>5. \A x \in Tables : Orphans(d, "RESTRICT", gone, x) = {}
  BY <1>4
<1> QED BY <1>5, NulledNullable DEF DeleteOK, gone, hit

(* Neither chains of tokens nor grants, tokens, clients or secrets keep    *)
(* anything from being removed: only the people of a tenant keep it.       *)
THEOREM ErasureIsNotBlocked == Spec => []OnlyPeopleStopErasure
<1>1. IInv => OnlyPeopleStopErasure
  <2> SUFFICES ASSUME IInv
               PROVE  OnlyPeopleStopErasure
    OBVIOUS
  <2>1. Integrity(db)
    BY DEF IInv, StoreIntegrity
  <2>2. ASSUME NEW st \in Statements, st.op = "delete", st.table \notin {"tenants", "scopes"}
        PROVE  Accepts(db, st)
    <3>1. st.table \in Tables
      BY StatementsAreWellFormed DEF IsStatement
    <3>2. DeleteOK(db, st.table, st.where)
      BY <2>2, <3>1, OthersAreDeleted
    <3> QED BY <2>2, <3>2 DEF Accepts
  <2>3. ASSUME NEW t \in db["tenants"]
        PROVE  DeleteOK(db, "tenants", [id |-> t.id])
                  <=> \A u \in db["users"] : u.tenant_id # t.id
    <3> DEFINE where == [id |-> t["id"]]
    <3>1. t \in Matching(db, "tenants", where)
      BY DEF Matching
    <3> HIDE DEF where
    <3>2. DeleteOK(db, "tenants", where) => \A u \in db["users"] : u["tenant_id"] # t["id"]
      BY <2>1, <3>1, PeopledTenantStays
    <3>3. (\A u \in db["users"] : u["tenant_id"] # t["id"]) => DeleteOK(db, "tenants", where)
      BY EmptyTenantsAreDeleted DEF where
    <3> QED BY <3>2, <3>3 DEF where
  <2> QED BY <2>2, <2>3 DEF OnlyPeopleStopErasure
<1> QED BY <1>1, InitIInv, StepIInv, PTL DEF Spec

-----------------------------------------------------------------------------
(* Where only the reaper deletes tokens, and only expired ones, a token    *)
(* that has not expired stays as long as its user does, whatever its place *)
(* in the chain of rotations.                                              *)
THEOREM ReaperIsSelective ==
    ASSUME OnlyReaped
    PROVE  Spec => ReaperSparesDescendants
<1> DEFINE Spares ==
      \A k \in db["refresh_tokens"] :
          (k.expires_at = NotExpired /\ k.user_id \in Ids(db'["users"]))
             => k.id \in Ids(db'["refresh_tokens"])
<1>1. ASSUME IInv, NEW st \in Statements, Accepts(db, st), db' = Result(db, st)
      PROVE  Spares
  <2> SUFFICES ASSUME NEW k \in db["refresh_tokens"],
                      k["expires_at"] = NotExpired, k["user_id"] \in Ids(db'["users"])
               PROVE  \E n \in db'["refresh_tokens"] : n["id"] = k["id"]
    BY DEF Ids
  <2>1. IsDatabase(db) /\ Integrity(db) /\ IsStatement(st)
    BY <1>1, StatementsAreWellFormed DEF IInv, TypeOK, StoreIntegrity
  <2>2. /\ "refresh_tokens" \in Tables /\ "refresh_tokens" \in Keyed
        /\ "users" \in Tables /\ "users" \in Keyed /\ st.table \in Tables
        /\ db["refresh_tokens"] \subseteq RowsOf("refresh_tokens")
        /\ db["users"] \subseteq RowsOf("users")
    BY <2>1, TableNames DEF Keyed, IsStatement, IsDatabase
  <2>3. CASE st.op = "insert"
    <3>1. db["refresh_tokens"] \subseteq db'["refresh_tokens"]
      BY <1>1, <2>1, <2>2, <2>3 DEF Result, AfterInsert, IsDatabase
    <3> QED BY <3>1
  <2>4. CASE st.op = "update"
    <3>1. db' = AfterUpdate(db, st.table, st.where, st.set)
      BY <1>1, <2>4 DEF Result
    <3>2. CASE st.table # "refresh_tokens"
      <4>1. db'["refresh_tokens"] = db["refresh_tokens"]
        BY <2>1, <2>2, <3>1, <3>2 DEF AfterUpdate, IsDatabase
      <4> QED BY <4>1
    <3>3. CASE st.table = "refresh_tokens"
      <4> DEFINE n == UpdatedRow(db, "refresh_tokens", st.where, st.set, k)
      <4>1. n \in db'["refresh_tokens"]
        BY <2>1, <2>2, <3>1, <3>3 DEF AfterUpdate, IsDatabase
      <4>2. "id" \notin DOMAIN st.set
        BY <2>4, <3>3 DEF OnlyReaped
      <4>3. "id" \in DOMAIN k
        BY <2>2, KeyedShape DEF RowsOf
      <4>4. n["id"] = k["id"]
        BY <4>2, <4>3 DEF UpdatedRow, Patched
      <4> QED BY <4>1, <4>4
    <3> QED BY <3>2, <3>3
  <2>5. CASE st.op = "delete"
    <3> DEFINE hit  == Matching(db, st.table, st.where)
               gone == Doomed(db, st.table, hit)
    <3>1. \A x \in Tables : db'[x] = {Detached(x, gone, r) : r \in db[x] \ gone[x]}
      BY <1>1, <2>5 DEF Result, AfterDelete
    <3>2. k \notin gone["refresh_tokens"]
      <4> SUFFICES ASSUME k \in gone["refresh_tokens"] PROVE FALSE
        OBVIOUS
      <4>1. CASE st.table = "refresh_tokens" /\ k \in hit
        <5>1. "expires_at" \in DOMAIN st.where /\ st.where["expires_at"] # NotExpired
          BY <2>5, <4>1 DEF OnlyReaped
        <5>2. k["expires_at"] = st.where["expires_at"]
          BY <4>1, <5>1 DEF Matching
        <5> QED BY <5>1, <5>2
      <4>2. CASE st.table = "users" /\ \E p \in hit : p["id"] = k["user_id"]
        <5>1. PICK p \in db["users"] : p \in hit /\ p["id"] = k["user_id"]
          BY <4>2 DEF Matching
        <5>2. PICK n \in db'["users"] : n["id"] = k["user_id"]
          BY DEF Ids
        <5>3. PICK o \in db["users"] : o \notin gone["users"] /\ n = Detached("users", gone, o)
          BY <2>2, <3>1, <5>2
        <5>4. n["id"] = o["id"]
          <6> HIDE DEF gone
          <6> QED BY <2>2, <5>3, DeletionKeepsIds
        <5>5. o = p
          BY <2>1, <2>2, <5>1, <5>2, <5>4, OneRowPerId
        <5>6. p \in gone["users"]
          BY <2>2, <4>2, <5>1 DEF Doomed, OnlyIn
        <5> QED BY <5>3, <5>5, <5>6
      <4>3. \/ st.table = "refresh_tokens" /\ k \in hit
            \/ st.table = "users" /\ \E p \in hit : p["id"] = k["user_id"]
        <5> HIDE DEF hit
        <5>1. \A r \in Doomed(db, st.table, hit)["refresh_tokens"] :
                 \/ st.table = "refresh_tokens" /\ r \in hit
                 \/ st.table = "users" /\ \E p \in hit : p["id"] = r["user_id"]
          BY <2>2, TokensGo
        <5> QED BY <5>1
      <4> QED BY <4>1, <4>2, <4>3
    <3> HIDE DEF gone
    <3> DEFINE n == Detached("refresh_tokens", gone, k)
    <3>3. n \in db'["refresh_tokens"]
      BY <2>2, <3>1, <3>2
    <3>4. n["id"] = k["id"]
      BY <2>2, DeletionKeepsIds
    <3> QED BY <3>3, <3>4
  <2> QED BY <2>1, <2>3, <2>4, <2>5 DEF IsStatement
<1>2. IInv /\ [Next]_db => [Spares]_db
  BY <1>1 DEF Next, Insert, Update, Delete, Issue, Execute
<1> QED BY <1>2, InitIInv, StepIInv, PTL DEF Spec, ReaperSparesDescendants

-----------------------------------------------------------------------------
(* Where no row of a table goes, deleting leaves the table as it is,       *)
(* unless it hangs on others by SET NULL.                                  *)
LEMMA DetachedNothing ==
    ASSUME NEW d, IsDatabase(d), NEW gone, NEW x \in {"tenants", "users", "refresh_tokens",
             "oauth_clients", "oauth_client_secrets"},
           x = "refresh_tokens" => gone["refresh_tokens"] = {},
           NEW r \in d[x]
    PROVE  Detached(x, gone, r) = r
<1>1. x \in Tables /\ r \in RowsOf(x)
  BY TableNames DEF IsDatabase
<1>2. Nulled(x, gone, r) = {}
  <2> SUFFICES ASSUME NEW c \in Nulled(x, gone, r) PROVE FALSE
    OBVIOUS
  <2>1. PICK f \in Foreign(x) : f.onDelete = "SET_NULL" /\ \E p \in gone[f.parent] : Refers(f, r, p)
    BY DEF Nulled
  <2>2. x = "refresh_tokens" /\ f.parent = "refresh_tokens"
    BY <1>1, <2>1, ForeignKeyCases
  <2> QED BY <2>1, <2>2
<1> QED BY <1>1, <1>2 DEF Detached, RowsOf

(* Every foreign key that takes clients and secrets along.                 *)
LEMMA ClientCascades ==
    ASSUME NEW r, NEW p
    PROVE  /\ Refers(FK({<<"tenant_id", "id">>}, "tenants", "CASCADE"), r, p)
                 <=> r["tenant_id"] # NULL /\ r["tenant_id"] = p["id"]
           /\ Refers(FK({<<"client_id", "id">>}, "oauth_clients", "CASCADE"), r, p)
                 <=> r["client_id"] # NULL /\ r["client_id"] = p["id"]
<1> DEFINE f == FK({<<"tenant_id", "id">>}, "tenants", "CASCADE")
           g == FK({<<"client_id", "id">>}, "oauth_clients", "CASCADE")
<1>1. f.on = {<<"tenant_id", "id">>} /\ g.on = {<<"client_id", "id">>}
  BY FKFields
<1> HIDE DEF f, g
<1>2. Refers(f, r, p) <=> r["tenant_id"] # NULL /\ r["tenant_id"] = p["id"]
  BY <1>1 DEF Refers
<1>3. Refers(g, r, p) <=> r["client_id"] # NULL /\ r["client_id"] = p["id"]
  BY <1>1 DEF Refers
<1> QED BY <1>2, <1>3 DEF f, g

(* What deleting tenants takes and leaves of clients and their secrets.    *)
LEMMA TenantDeletion ==
    ASSUME NEW d, IsDatabase(d), Integrity(d), NEW rows, rows \subseteq d["tenants"]
    PROVE  LET gone   == Doomed(d, "tenants", rows)
               erased == Ids(rows)
               kept   == {c \in d["oauth_clients"] : c.tenant_id \notin erased}
           IN  /\ gone["tenants"] = rows
               /\ gone["users"] = {}
               /\ gone["refresh_tokens"] = {}
               /\ d["oauth_clients"] \ gone["oauth_clients"] = kept
               /\ d["oauth_client_secrets"] \ gone["oauth_client_secrets"]
                     = {s \in d["oauth_client_secrets"] : s.client_id \in Ids(kept)}
<1> DEFINE gone   == Doomed(d, "tenants", rows)
           erased == Ids(rows)
           kept   == {c \in d["oauth_clients"] : c.tenant_id \notin erased}
<1>1. /\ {"tenants", "users", "refresh_tokens", "oauth_clients", "oauth_client_secrets"} \subseteq Tables
      /\ {"tenants", "oauth_clients", "oauth_client_secrets"} \subseteq Keyed
  BY TableNames DEF Keyed
<1>2. /\ \A x \in {"tenants", "users"} : \A r \in gone[x] : "tenants" = x /\ r \in rows
      /\ \A r \in gone["refresh_tokens"] : FALSE
      /\ \A r \in gone["oauth_clients"] :
            \E p \in gone["tenants"] : p["id"] = r["tenant_id"] /\ r["tenant_id"] # NULL
      /\ \A r \in gone["oauth_client_secrets"] :
            \E p \in gone["oauth_clients"] : p["id"] = r["client_id"]
  <2>1. \A x \in {"tenants", "users"} : \A r \in Doomed(d, "tenants", rows)[x] :
           "tenants" = x /\ r \in rows
    BY <1>1, RootsGo
  <2>2. \A r \in Doomed(d, "tenants", rows)["refresh_tokens"] : FALSE
    BY <1>1, TokensGo
  <2>3. \A r \in Doomed(d, "tenants", rows)["oauth_clients"] :
           \E p \in Doomed(d, "tenants", rows)["tenants"] :
              p["id"] = r["tenant_id"] /\ r["tenant_id"] # NULL
    BY <1>1, ClientsGo
  <2>4. \A r \in Doomed(d, "tenants", rows)["oauth_client_secrets"] :
           \E p \in Doomed(d, "tenants", rows)["oauth_clients"] : p["id"] = r["client_id"]
    BY <1>1, SecretsGo
  <2> QED BY <2>1, <2>2, <2>3, <2>4
<1>3. rows \subseteq gone["tenants"] /\ gone["oauth_clients"] \subseteq d["oauth_clients"]
  BY <1>1 DEF Doomed, OnlyIn, Kids, Orphans
<1>4. gone["tenants"] = rows /\ gone["users"] = {} /\ gone["refresh_tokens"] = {}
  BY <1>2, <1>3
<1>5. /\ FK({<<"tenant_id", "id">>}, "tenants", "CASCADE") \in Foreign("oauth_clients")
      /\ FK({<<"client_id", "id">>}, "oauth_clients", "CASCADE") \in Foreign("oauth_client_secrets")
  BY Foreigns
<1>6. \A c \in d["oauth_clients"] : c \in gone["oauth_clients"] <=> c["tenant_id"] \in erased
  <2> SUFFICES ASSUME NEW c \in d["oauth_clients"]
               PROVE  c \in gone["oauth_clients"] <=> c["tenant_id"] \in erased
    OBVIOUS
  <2>1. ASSUME c["tenant_id"] \in erased PROVE c \in gone["oauth_clients"]
    <3>1. PICK p \in rows : p["id"] = c["tenant_id"]
      BY <2>1 DEF Ids
    <3>2. p["id"] # NULL
      BY <1>1, KeyedShape DEF Integrity, RowsAllowed, RowAllowed
    <3> DEFINE f == FK({<<"tenant_id", "id">>}, "tenants", "CASCADE")
    <3>3. f.onDelete = "CASCADE" /\ f.parent = "tenants" /\ Refers(f, c, p)
      BY <3>1, <3>2, FKFields, ClientCascades
    <3> HIDE DEF gone
    <3>4. f \in Foreign("oauth_clients") /\ p \in gone[f.parent]
      BY <1>4, <1>5, <3>3
    <3> HIDE DEF f
    <3> QED BY <1>1, <3>3, <3>4, DoomedClosed DEF gone
  <2>2. ASSUME c \in gone["oauth_clients"] PROVE c["tenant_id"] \in erased
    <3> HIDE DEF gone
    <3> QED BY <1>2, <1>4, <2>2 DEF Ids
  <2> QED BY <2>1, <2>2
<1>7. d["oauth_clients"] \ gone["oauth_clients"] = kept
  <2> HIDE DEF gone, erased
  <2> QED BY <1>6
<1>8. \A s \in d["oauth_client_secrets"] : s \notin gone["oauth_client_secrets"] <=> s["client_id"] \in Ids(kept)
  <2> SUFFICES ASSUME NEW s \in d["oauth_client_secrets"]
               PROVE  s \notin gone["oauth_client_secrets"] <=> s["client_id"] \in Ids(kept)
    OBVIOUS
  <2>1. s["client_id"] # NULL
    BY <1>1, OwnerColumns DEF Integrity, RowsAllowed, RowAllowed
  <2>2. PICK c \in d["oauth_clients"] : c["id"] = s["client_id"]
    BY <1>1, <1>5, <2>1, OwnerExists
  <2>3. \A o \in d["oauth_clients"] : o["id"] = s["client_id"] => o = c
    BY <1>1, <2>2, OneRowPerId
  <2>4. ASSUME c \in gone["oauth_clients"] PROVE s \in gone["oauth_client_secrets"]
    <3> DEFINE f == FK({<<"client_id", "id">>}, "oauth_clients", "CASCADE")
    <3>1. f.onDelete = "CASCADE" /\ f.parent = "oauth_clients" /\ Refers(f, s, c)
      BY <2>1, <2>2, FKFields, ClientCascades
    <3> HIDE DEF gone
    <3>2. f \in Foreign("oauth_client_secrets") /\ c \in gone[f.parent]
      BY <1>5, <2>4, <3>1
    <3> HIDE DEF f
    <3> QED BY <1>1, <3>1, <3>2, DoomedClosed DEF gone
  <2> HIDE DEF gone, kept
  <2>5. ASSUME s \in gone["oauth_client_secrets"] PROVE c \in gone["oauth_clients"]
    BY <1>2, <1>3, <2>3, <2>5
  <2>6. s["client_id"] \in Ids(kept) <=> c \in kept
    BY <1>7, <2>2, <2>3 DEF Ids
  <2> QED BY <1>7, <2>4, <2>5, <2>6
<1>9. d["oauth_client_secrets"] \ gone["oauth_client_secrets"]
        = {s \in d["oauth_client_secrets"] : s.client_id \in Ids(kept)}
  <2> HIDE DEF gone, kept
  <2> QED BY <1>8
<1> QED BY <1>4, <1>7, <1>9

(* A step that makes tenants fewer takes no user and no token, the clients *)
(* of the erased tenants and their secrets, and nothing else of either.    *)
THEOREM TenantErasureTakesItsOwn == Spec => TenantErasureIsContained
<1> DEFINE erased == Ids(db["tenants"]) \ Ids(db'["tenants"])
           kept   == {c \in db["oauth_clients"] : c.tenant_id \notin erased}
           Own ==
             /\ db'["users"] = db["users"]
             /\ db'["refresh_tokens"] = db["refresh_tokens"]
             /\ db'["oauth_clients"] = kept
             /\ db'["oauth_client_secrets"] =
                  {s \in db["oauth_client_secrets"] : s.client_id \in Ids(kept)}
           Fewer == Ids(db'["tenants"]) # Ids(db["tenants"]) /\ db'["tenants"] \subseteq db["tenants"]
<1>1. ASSUME IInv, NEW st \in Statements, Accepts(db, st), db' = Result(db, st), Fewer
      PROVE  Own
  <2>1. IsDatabase(db) /\ Integrity(db) /\ IsStatement(st)
    BY <1>1, StatementsAreWellFormed DEF IInv, TypeOK, StoreIntegrity
  <2>2. "tenants" \in Tables /\ "tenants" \in Keyed /\ st.table \in Tables
    BY <2>1, TableNames DEF Keyed, IsStatement
  <2>3. st.op # "insert"
    <3> SUFFICES ASSUME st.op = "insert" PROVE db["tenants"] \subseteq db'["tenants"]
      BY <1>1
    <3> QED BY <1>1, <2>1, <2>2 DEF Result, AfterInsert, IsDatabase
  <2>4. st.op # "update"
    <3> SUFFICES ASSUME st.op = "update" PROVE db'["tenants"] = db["tenants"]
      BY <1>1
    <3> DEFINE New(r) == UpdatedRow(db, "tenants", st.where, st.set, r)
    <3>1. db' = AfterUpdate(db, st.table, st.where, st.set) /\ UpdateOK(db, st.table, st.where, st.set)
      BY <1>1 DEF Accepts, Result
    <3>2. CASE st.table # "tenants"
      BY <2>1, <2>2, <3>1, <3>2 DEF AfterUpdate, IsDatabase
    <3>3. CASE st.table = "tenants"
      <4>1. db'["tenants"] = {New(r) : r \in db["tenants"]}
        BY <2>1, <2>2, <3>1, <3>3 DEF AfterUpdate, IsDatabase
      <4>2. ASSUME NEW r \in db["tenants"] PROVE New(r) = r
        <5>1. New(r) \in db["tenants"]
          BY <1>1, <4>1
        <5> QED BY <2>1, <2>2, <3>1, <3>3, <5>1, SameIdSameRow
      <4> HIDE DEF New
      <4> QED BY <4>1, <4>2
    <3> QED BY <3>2, <3>3
  <2>5. st.op = "delete"
    BY <2>1, <2>3, <2>4 DEF IsStatement
  <2> DEFINE rows == Matching(db, st.table, st.where)
             gone == Doomed(db, st.table, rows)
  <2>6. \A x \in Tables : db'[x] = {Detached(x, gone, r) : r \in db[x] \ gone[x]}
    BY <1>1, <2>5 DEF Result, AfterDelete
  <2>7. \A x \in {"tenants", "users", "oauth_clients", "oauth_client_secrets"} : x \in Tables /\ db'[x] = db[x] \ gone[x]
    <3> HIDE DEF gone
    <3> SUFFICES ASSUME NEW x \in {"tenants", "users", "oauth_clients", "oauth_client_secrets"}
                 PROVE  x \in Tables /\ db'[x] = db[x] \ gone[x]
      OBVIOUS
    <3>1. x \in Tables
      BY TableNames
    <3>2. \A r \in db[x] : Detached(x, gone, r) = r
      BY <2>1, DetachedNothing
    <3> QED BY <2>6, <3>1, <3>2
  <2>8. st.table = "tenants"
    <3>1. gone["tenants"] # {}
      <4> HIDE DEF gone
      <4> QED BY <1>1, <2>7
    <3> HIDE DEF rows
    <3> QED BY <2>2, <3>1, RootsGo
  <2>9. rows \subseteq db["tenants"]
    BY <2>8 DEF Matching
  <2> HIDE DEF rows
  <2>10. /\ gone["tenants"] = rows /\ gone["users"] = {} /\ gone["refresh_tokens"] = {}
         /\ db["oauth_clients"] \ gone["oauth_clients"]
              = {c \in db["oauth_clients"] : c.tenant_id \notin Ids(rows)}
         /\ db["oauth_client_secrets"] \ gone["oauth_client_secrets"]
              = {s \in db["oauth_client_secrets"] :
                   s.client_id \in Ids({c \in db["oauth_clients"] : c.tenant_id \notin Ids(rows)})}
    BY <2>1, <2>8, <2>9, TenantDeletion
  <2> HIDE DEF gone
  <2>11. erased = Ids(rows)
    <3>1. \A r \in rows : r["id"] \notin Ids(db'["tenants"])
      BY <2>1, <2>2, <2>7, <2>9, <2>10, OneRowPerId DEF Ids
    <3> QED BY <2>7, <2>9, <2>10, <3>1 DEF Ids
  <2>12. db'["refresh_tokens"] = db["refresh_tokens"]
    <3>1. \A r \in db["refresh_tokens"] : Detached("refresh_tokens", gone, r) = r
      BY <2>1, <2>10, DetachedNothing
    <3>2. "refresh_tokens" \in Tables
      BY TableNames
    <3> QED BY <2>6, <2>10, <3>1, <3>2
  <2> QED BY <2>7, <2>10, <2>11, <2>12
<1>2. IInv /\ [Next]_db => [Fewer => Own]_db
  BY <1>1 DEF Next, Insert, Update, Delete, Issue, Execute
<1> QED BY <1>2, InitIInv, StepIInv, PTL DEF Spec, TenantErasureIsContained
=============================================================================
