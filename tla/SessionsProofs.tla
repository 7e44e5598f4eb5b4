--------------------------- MODULE SessionsProofs ---------------------------
(***************************************************************************)
(* Overlapping transactions keep every constraint, whatever statements     *)
(* they run, however many there are and in whatever order their steps      *)
(* fall; they are as good as consecutive ones; and those that rotate keys  *)
(* keep one key active.                                                    *)
(*                                                                         *)
(* PostgreSQL checks each statement against one transaction's view; no     *)
(* constraint is checked again at COMMIT, although the database may have   *)
(* changed meanwhile.  That this is enough rests on the locks.  The proof  *)
(* keeps, for every open transaction, an account of what its changes rest  *)
(* on (Tracked) and, for every two, why they do not meet (NoConflict,      *)
(* NoClash); it shows that a statement keeps the account and that the      *)
(* changes of two transactions with such accounts can be merged.           *)
(*                                                                         *)
(* A transaction is given by the committed database d, its view v of it    *)
(* and the locks ls it holds: v[t] \ d[t] are the rows it added, and       *)
(* d[t] \ v[t] those it removed.                                           *)
(***************************************************************************)
EXTENDS Sessions, DatabaseProofs, WellFoundedInduction

(* The lock modes of the model, and those a write takes on its row.        *)
Modes == {"key_share", "no_key_update", "update"}
Writing == {"no_key_update", "update"}

(* Locks "ls" include one on the row's key, in one of the modes.           *)
Holds(ls, modes, t, r) == \E m \in modes : <<m, t, Identity(t, r)>> \in ls

(* Two rows agree on the columns.                                          *)
Agree(cols, a, b) == \A c \in cols : a[c] = b[c]

(* The referencing columns of a foreign key.                               *)
Referring(f) == {e[1] : e \in f.on}

(* Every row a transaction replaced or deleted it has locked.              *)
WritesAreLocked(d, v, ls) ==
    \A t \in Tables : \A r \in d[t] \ v[t] : Holds(ls, Writing, t, r)

(* A key that other rows may refer to is given up only under the lock that *)
(* excludes them; otherwise another version of the row still has it.       *)
KeysAreLocked(d, v, ls) ==
    \A t \in Tables : \A r \in d[t] \ v[t] :
        \/ Holds(ls, {"update"}, t, r)
        \/ \E a \in v[t] \ d[t] : Agree(KeyColumns(t), r, a)

(* Every committed row that an added row refers to is locked, unless the   *)
(* added row is a new version of a locked row that refers to it too.       *)
ParentsAreLocked(d, v, ls) ==
    \A t \in Tables : \A f \in Foreign(t) : \A a \in v[t] \ d[t] : \A p \in d[f.parent] :
        Refers(f, a, p) =>
            \/ Holds(ls, Modes, f.parent, p)
            \/ \E c \in d[t] : Holds(ls, Writing, t, c) /\ Agree(Referring(f), a, c)

(* What an open transaction's changes rest on.                             *)
Tracked(d, v, ls) ==
    /\ IsDatabase(v)
    /\ Integrity(v)
    /\ WritesAreLocked(d, v, ls)
    /\ KeysAreLocked(d, v, ls)
    /\ ParentsAreLocked(d, v, ls)

(* No lock of one transaction excludes a lock of the other.                *)
NoConflict(ls, ms) ==
    \A l \in ls : \A m \in ms : ~(l[2] = m[2] /\ l[3] = m[3] /\ Conflict(l[1], m[1]))

(* No added row of one transaction clashes with one of the other on a      *)
(* unique key.                                                             *)
NoClash(d, v, w) ==
    \A t \in Tables : \A u \in UniqueOn(t) : \A x \in v[t] \ d[t] : \A y \in w[t] \ d[t] :
        ~Clash(u, x, y)

(* View of Sessions, for given changes.                                    *)
ViewOf(d, changes) ==
    [t \in Tables |-> (d[t] \ RowsIn(changes.removed, t)) \cup RowsIn(changes.added, t)]

(* The changes are changes of d: what is removed is there, what is added   *)
(* is not.  No transaction's change has been overtaken.                    *)
Exact(d, changes) ==
    \A t \in Tables : /\ RowsIn(changes.removed, t) \subseteq d[t]
                      /\ RowsIn(changes.added, t) \cap d[t] = {}

(* The database, the open changes and the locks fit together.              *)
Coherent(d, changes, held) ==
    /\ IsDatabase(d)
    /\ Integrity(d)
    /\ DOMAIN changes = Session
    /\ DOMAIN held = Session
    /\ \A s \in Session : /\ Exact(d, changes[s])
                          /\ Tracked(d, ViewOf(d, changes[s]), held[s])
    /\ \A s \in Session : \A o \in Session \ {s} :
          /\ NoConflict(held[s], held[o])
          /\ NoClash(d, ViewOf(d, changes[s]), ViewOf(d, changes[o]))

-----------------------------------------------------------------------------
(* The primary key is a unique index over NOT NULL columns, and a foreign  *)
(* key may refer to it.                                                    *)
LEMMA KeyIsUnique ==
    ASSUME NEW t \in Tables
    PROVE  /\ Over(Key(t)) \in UniqueOn(t)
           /\ Key(t) \subseteq KeyColumns(t)
           /\ Key(t) \subseteq NotNull(t)
<1>1. Over(Key(t)) \in UniqueOn(t)
  BY DEF UniqueOn, Key
<1>2. Over(Key(t)).cols = Key(t) /\ Over(Key(t)).where = {}
  BY OverFields
<1>3. Key(t) \subseteq KeyColumns(t)
  BY <1>1, <1>2 DEF KeyColumns
<1>4. Key(t) \subseteq NotNull(t)
  BY DEF Key, NotNull
<1> QED BY <1>1, <1>3, <1>4

(* The primary keys of the tables that foreign keys lead to, and the       *)
(* composite key the grants refer to.                                      *)
LEMMA KeyNames ==
    /\ Key("tenants") = {"id"}
    /\ Key("users") = {"id"}
    /\ Key("roles") = {"id"}
    /\ Key("role_templates") = {"key"}
    /\ Key("scopes") = {"key"}
    /\ Key("refresh_tokens") = {"id"}
    /\ Key("oauth_clients") = {"id"}
    /\ {"id", "tenant_id"} \subseteq KeyColumns("users")
    /\ {"id", "tenant_id"} \subseteq KeyColumns("roles")
<1>1. /\ Key("tenants") = {"id"}
      /\ Key("users") = {"id"}
      /\ Key("roles") = {"id"}
      /\ Key("role_templates") = {"key"}
      /\ Key("scopes") = {"key"}
      /\ Key("refresh_tokens") = {"id"}
      /\ Key("oauth_clients") = {"id"}
  BY DEF Key, Schema, tenants, users, roles, role_templates, scopes, refresh_tokens,
         oauth_clients
<1>2. Over({"id", "tenant_id"}) \in UniqueOn("users")
  BY DEF UniqueOn, Schema, users, UserUnique
<1>3. Over({"id", "tenant_id"}) \in UniqueOn("roles")
  BY DEF UniqueOn, Schema, roles
<1>4. Over({"id", "tenant_id"}).cols = {"id", "tenant_id"} /\ Over({"id", "tenant_id"}).where = {}
  BY OverFields
<1>5. {"id", "tenant_id"} \subseteq KeyColumns("users")
  BY <1>2, <1>4 DEF KeyColumns
<1>6. {"id", "tenant_id"} \subseteq KeyColumns("roles")
  BY <1>3, <1>4 DEF KeyColumns
<1> QED BY <1>1, <1>5, <1>6

(* Foreign keys refer to ids, to keys or to ids with their tenant.         *)
LEMMA ForeignKeyTargets ==
    ASSUME NEW t \in Tables, NEW f \in Foreign(t)
    PROVE  \/ /\ f.parent \in {"tenants", "users", "roles", "refresh_tokens", "oauth_clients"}
              /\ \E e \in f.on : e[2] = "id"
              /\ \A e \in f.on : e[2] = "id"
           \/ /\ f.parent \in {"role_templates", "scopes"}
              /\ \E e \in f.on : e[2] = "key"
              /\ \A e \in f.on : e[2] = "key"
           \/ /\ f.parent \in {"users", "roles"}
              /\ \E e \in f.on : e[2] = "id"
              /\ \A e \in f.on : e[2] \in {"id", "tenant_id"}
<1> DEFINE Names(child, ref) == f.on = {<<child, ref>>}
<1>1. ASSUME NEW child, NEW ref, Names(child, ref)
      PROVE  (\E e \in f.on : e[2] = ref) /\ (\A e \in f.on : e[2] = ref)
  BY <1>1
<1>2. ASSUME NEW child, f.on = {<<child, "id">>, <<"tenant_id", "tenant_id">>}
      PROVE  (\E e \in f.on : e[2] = "id") /\ (\A e \in f.on : e[2] \in {"id", "tenant_id"})
  BY <1>2
<1>3. \/ /\ f.parent \in {"tenants", "users", "roles", "refresh_tokens", "oauth_clients"}
         /\ \E child : Names(child, "id")
      \/ f.parent \in {"role_templates", "scopes"} /\ \E child : Names(child, "key")
      \/ /\ f.parent \in {"users", "roles"}
         /\ \E child : f.on = {<<child, "id">>, <<"tenant_id", "tenant_id">>}
  BY ForeignKeyCases
<1> HIDE DEF Names
<1> QED BY <1>1, <1>2, <1>3

(* A foreign key names the whole primary key of its parent, and only       *)
(* columns whose change takes the strongest lock.                          *)
LEMMA ForeignKeysReferToKeys ==
    ASSUME NEW t \in Tables, NEW f \in Foreign(t)
    PROVE  /\ \A c \in Key(f.parent) : \E e \in f.on : e[2] = c
           /\ \A e \in f.on : e[2] \in KeyColumns(f.parent)
<1>1. f.parent \in Tables
  BY ForeignShape
<1>2. Key(f.parent) \subseteq KeyColumns(f.parent)
  BY <1>1, KeyIsUnique
<1>3. CASE /\ f.parent \in {"tenants", "users", "roles", "refresh_tokens", "oauth_clients"}
           /\ \E e \in f.on : e[2] = "id"
           /\ \A e \in f.on : e[2] = "id"
  <2>1. Key(f.parent) = {"id"}
    BY <1>3, KeyNames
  <2> QED BY <1>2, <1>3, <2>1
<1>4. CASE /\ f.parent \in {"role_templates", "scopes"}
           /\ \E e \in f.on : e[2] = "key"
           /\ \A e \in f.on : e[2] = "key"
  <2>1. Key(f.parent) = {"key"}
    BY <1>4, KeyNames
  <2> QED BY <1>2, <1>4, <2>1
<1>5. CASE /\ f.parent \in {"users", "roles"}
           /\ \E e \in f.on : e[2] = "id"
           /\ \A e \in f.on : e[2] \in {"id", "tenant_id"}
  <2>1. Key(f.parent) = {"id"} /\ {"id", "tenant_id"} \subseteq KeyColumns(f.parent)
    BY <1>5, KeyNames
  <2> QED BY <1>5, <2>1
<1> QED BY <1>3, <1>4, <1>5, ForeignKeyTargets

(* What SET NULL clears nobody refers to.                                  *)
LEMMA ClearedColumnsAreNoKeys ==
    /\ "template_key" \notin KeyColumns("roles")
    /\ "parent_id" \notin KeyColumns("refresh_tokens")
BY RolesShape, RefreshTokensShape, OverFields DEF KeyColumns

(* The columns of unique indexes are columns of the table.                 *)
LEMMA KeyColumnsAreColumns ==
    ASSUME NEW t \in Tables
    PROVE  KeyColumns(t) \subseteq Columns(t)
<1>1. ASSUME NEW u \in UniqueOn(t)
      PROVE  u.cols \subseteq Columns(t)
  BY TableNames, OverFields DEF UniqueOn, Columns, Schema, tenants, users, role_templates, roles,
     scopes, role_scopes, user_roles, refresh_tokens, verification_tokens, oauth_clients,
     oauth_client_secrets, signing_keys, revocation_events, throttle_buckets,
     auth_audit_events, UserUnique, KeyUnique, OverWhere
<1> QED BY <1>1 DEF KeyColumns

(* Two rows have one identity exactly when they agree on the primary key.  *)
LEMMA SameIdentity ==
    ASSUME NEW t, NEW r, NEW o
    PROVE  Identity(t, r) = Identity(t, o) <=> Agree(Key(t), r, o)
BY DEF Identity, Agree

(* Rows with one primary key clash on it: it is never NULL.                *)
LEMMA KeysClash ==
    ASSUME NEW t \in Tables, NEW r, NEW o, RowAllowed(t, r), Agree(Key(t), r, o)
    PROVE  Over(Key(t)) \in UniqueOn(t) /\ Clash(Over(Key(t)), r, o)
BY KeyIsUnique, OverFields DEF Clash, Indexed, RowAllowed, Agree

(* In a database that keeps its constraints, a primary key names one row.  *)
LEMMA SameKeySameRow ==
    ASSUME NEW d, Integrity(d), NEW t \in Tables, NEW r \in d[t], NEW o \in d[t],
           Agree(Key(t), r, o)
    PROVE  r = o
<1>1. RowAllowed(t, r)
  BY DEF Integrity, RowsAllowed
<1> QED BY <1>1, KeysClash DEF Integrity, UniqueHolds

(* What a row refers to by one foreign key has one primary key.            *)
LEMMA SameParent ==
    ASSUME NEW t \in Tables, NEW f \in Foreign(t), NEW r, NEW p, NEW q,
           Refers(f, r, p), Refers(f, r, q)
    PROVE  Agree(Key(f.parent), p, q)
BY ForeignKeysReferToKeys DEF Refers, Agree

(* A new version that keeps its key columns is referred to as before.      *)
LEMMA KeptKeyKeepsReferrers ==
    ASSUME NEW t \in Tables, NEW f \in Foreign(t), NEW r, NEW p, NEW q,
           Refers(f, r, p), Agree(KeyColumns(f.parent), p, q)
    PROVE  Refers(f, r, q)
BY ForeignKeysReferToKeys DEF Refers, Agree

(* Rows that agree on the referencing columns refer to the same row.       *)
LEMMA AgreeingRowsReferAlike ==
    ASSUME NEW f, NEW r, NEW o, NEW p, Agree(Referring(f), r, o), Refers(f, r, p)
    PROVE  Refers(f, o, p)
BY DEF Refers, Agree, Referring

-----------------------------------------------------------------------------
(* The locks of a set of rows lock each of them.                           *)
LEMMA LockGives ==
    ASSUME NEW ls, NEW mode, NEW t, NEW rows, NEW r \in rows, NEW modes, mode \in modes,
           Lock(mode, t, rows) \subseteq ls
    PROVE  Holds(ls, modes, t, r)
BY DEF Lock, Holds

(* Locks are on primary keys, not on versions of rows.                     *)
LEMMA HoldsAlike ==
    ASSUME NEW ls, NEW modes, NEW t, NEW r, NEW o, Holds(ls, modes, t, r), Agree(Key(t), r, o)
    PROVE  Holds(ls, modes, t, o)
BY SameIdentity DEF Holds

(* Two transactions never both hold write locks on a row.                  *)
LEMMA WritersConflict ==
    ASSUME NEW ls, NEW ms, NEW t, NEW r, Holds(ls, Writing, t, r), Holds(ms, Writing, t, r),
           NoConflict(ls, ms)
    PROVE  FALSE
<1>1. PICK m \in Writing : <<m, t, Identity(t, r)>> \in ls
  BY DEF Holds
<1>2. PICK n \in Writing : <<n, t, Identity(t, r)>> \in ms
  BY DEF Holds
<1>3. Conflict(m, n)
  BY DEF Conflict, Writing
<1> QED BY <1>1, <1>2, <1>3 DEF NoConflict

(* Whoever holds the strongest lock on a row is alone with it.             *)
LEMMA UpdateConflicts ==
    ASSUME NEW ls, NEW ms, NEW t, NEW r, Holds(ls, {"update"}, t, r), Holds(ms, Modes, t, r),
           NoConflict(ms, ls)
    PROVE  FALSE
<1>1. <<"update", t, Identity(t, r)>> \in ls
  BY DEF Holds
<1>2. PICK n \in Modes : <<n, t, Identity(t, r)>> \in ms
  BY DEF Holds
<1>3. Conflict(n, "update")
  BY DEF Conflict
<1> QED BY <1>1, <1>2, <1>3 DEF NoConflict

-----------------------------------------------------------------------------
(* A statement leaves a database of typed rows.                            *)
LEMMA ResultTyped ==
    ASSUME NEW v, IsDatabase(v), NEW st, IsStatement(st)
    PROVE  IsDatabase(Result(v, st))
<1>1. CASE st.op = "insert"
  BY <1>1, InsertTyped DEF IsStatement, Result
<1>2. CASE st.op = "update"
  BY <1>2, UpdateTyped DEF IsStatement, Result
<1>3. CASE st.op = "delete"
  BY <1>3, DeleteTyped DEF IsStatement, Result
<1> QED BY <1>1, <1>2, <1>3 DEF IsStatement

(* An accepted statement keeps every constraint of the view it was checked *)
(* against.                                                                *)
LEMMA ResultWhole ==
    ASSUME NEW v, IsDatabase(v), Integrity(v), NEW st, IsStatement(st), Accepts(v, st)
    PROVE  Integrity(Result(v, st))
<1>1. CASE st.op = "insert"
  BY <1>1, InsertKeepsIntegrity DEF IsStatement, Result, Accepts
<1>2. CASE st.op = "update"
  BY <1>2, UpdateKeepsIntegrity DEF IsStatement, Result, Accepts
<1>3. CASE st.op = "delete"
  BY <1>3, DeleteKeepsIntegrity DEF IsStatement, Result, Accepts
<1> QED BY <1>1, <1>2, <1>3 DEF IsStatement

(* An INSERT adds its row and nothing else.                                *)
LEMMA InsertedRows ==
    ASSUME NEW v, IsDatabase(v), NEW t \in Tables, NEW r, NEW x \in Tables
    PROVE  /\ \A o \in v[x] : o \in AfterInsert(v, t, r)[x]
           /\ \A o \in AfterInsert(v, t, r)[x] : o \in v[x] \/ (x = t /\ o = r)
BY DEF IsDatabase, AfterInsert

(* An UPDATE replaces rows of its table one by one.                        *)
LEMMA UpdatedRows ==
    ASSUME NEW v, IsDatabase(v), NEW t \in Tables, NEW where, NEW set, NEW x \in Tables
    PROVE  /\ x # t => AfterUpdate(v, t, where, set)[x] = v[x]
           /\ \A r \in v[t] : UpdatedRow(v, t, where, set, r) \in AfterUpdate(v, t, where, set)[t]
           /\ \A o \in AfterUpdate(v, t, where, set)[t] :
                 \E r \in v[t] : o = UpdatedRow(v, t, where, set, r)
BY DEF IsDatabase, AfterUpdate

(* An UPDATE locks the rows it hits, with the strongest lock those whose   *)
(* key changes.                                                            *)
LEMMA UpdateLocking ==
    ASSUME NEW v, NEW t \in Tables, NEW where, NEW set
    PROVE  /\ \A r \in Matching(v, t, where) : Holds(UpdateLocks(v, t, where, set), Writing, t, r)
           /\ \A r \in Rewritten(t, Matching(v, t, where), set) :
                 Holds(UpdateLocks(v, t, where, set), {"update"}, t, r)
<1> DEFINE hit == Matching(v, t, where)
           key == Rewritten(t, hit, set)
           ls  == UpdateLocks(v, t, where, set)
<1>1. Lock("update", t, key) \subseteq ls /\ Lock("no_key_update", t, hit \ key) \subseteq ls
  BY DEF UpdateLocks
<1>2. "update" \in Writing /\ "no_key_update" \in Writing /\ "update" \in {"update"}
  BY DEF Writing
<1> HIDE DEF hit, key, ls
<1>3. \A r \in key : Holds(ls, Writing, t, r) /\ Holds(ls, {"update"}, t, r)
  BY <1>1, <1>2, LockGives
<1>4. \A r \in hit \ key : Holds(ls, Writing, t, r)
  BY <1>1, <1>2, LockGives
<1> QED BY <1>3, <1>4 DEF ls, key, hit

(* A DELETE locks the rows it takes along and those it detaches.           *)
LEMMA DeleteLocking ==
    ASSUME NEW v, NEW t \in Tables, NEW where, NEW x \in Tables
    PROVE  LET gone == Doomed(v, t, Matching(v, t, where))
               ls   == DeleteLocks(v, t, where)
           IN  /\ \A r \in gone[x] : Holds(ls, Writing, x, r) /\ Holds(ls, {"update"}, x, r)
               /\ \A r \in Orphans(v, "SET_NULL", gone, x) : Holds(ls, Writing, x, r)
<1> DEFINE gone == Doomed(v, t, Matching(v, t, where))
           ls   == DeleteLocks(v, t, where)
<1>1. /\ Lock("update", x, gone[x]) \subseteq ls
      /\ Lock("no_key_update", x, Orphans(v, "SET_NULL", gone, x)) \subseteq ls
  BY DEF DeleteLocks
<1>2. "update" \in Writing /\ "no_key_update" \in Writing /\ "update" \in {"update"}
  BY DEF Writing
<1> HIDE DEF gone, ls
<1>3. \A r \in gone[x] : Holds(ls, Writing, x, r) /\ Holds(ls, {"update"}, x, r)
  BY <1>1, <1>2, LockGives
<1>4. \A r \in Orphans(v, "SET_NULL", gone, x) : Holds(ls, Writing, x, r)
  BY <1>1, <1>2, LockGives
<1> QED BY <1>3, <1>4 DEF gone, ls

(* A row that a DELETE changes without deleting it referred to a deleted   *)
(* row by a SET NULL key.                                                  *)
LEMMA DetachedRow ==
    ASSUME NEW v, NEW x \in Tables, NEW gone, NEW r \in v[x], r \in RowsOf(x),
           Detached(x, gone, r) # r
    PROVE  r \in Orphans(v, "SET_NULL", gone, x)
<1>1. DOMAIN r = Columns(x) /\ r = [c \in Columns(x) |-> r[c]]
  BY DEF RowsOf
<1>2. Nulled(x, gone, r) # {}
  <2>1. SUFFICES ASSUME Nulled(x, gone, r) = {}
                 PROVE  Detached(x, gone, r) = r
    OBVIOUS
  <2>2. \A c \in Columns(x) : Detached(x, gone, r)[c] = r[c]
    BY <1>1, <2>1 DEF Detached
  <2>3. Detached(x, gone, r) = [c \in Columns(x) |-> Detached(x, gone, r)[c]]
    BY <1>1 DEF Detached
  <2> QED BY <1>1, <2>2, <2>3
<1>3. PICK f \in Foreign(x) :
         f.onDelete = "SET_NULL" /\ \E p \in gone[f.parent] : Refers(f, r, p)
  BY <1>2 DEF Nulled
<1> QED BY <1>3 DEF Orphans

(* A detached row clashes with nothing it did not clash with before.       *)
LEMMA DetachedClashesAlone ==
    ASSUME NEW x \in Tables, NEW gone, NEW r \in RowsOf(x), NEW u \in UniqueOn(x), NEW y,
           Clash(u, Detached(x, gone, r), y)
    PROVE  Clash(u, r, y)
<1> DEFINE n == Detached(x, gone, r)
<1>1. CASE x = "roles"
  <2>1. \A c \in {"id", "tenant_id", "key"} : n[c] = r[c]
    BY <1>1, DetachedKeeps, RolesShape
  <2>2. u.where = {} /\ u.cols \subseteq {"id", "tenant_id", "key"}
    BY <1>1, RolesShape, OverFields
  <2> HIDE DEF n
  <2> QED BY <2>1, <2>2 DEF Clash, Indexed, n
<1>2. CASE x = "refresh_tokens"
  <2>1. \A c \in {"id", "token_hash"} : n[c] = r[c]
    BY <1>2, DetachedKeeps, RefreshTokensShape
  <2>2. u.where = {} /\ u.cols \subseteq {"id", "token_hash"}
    BY <1>2, RefreshTokensShape, OverFields
  <2> HIDE DEF n
  <2> QED BY <2>1, <2>2 DEF Clash, Indexed, n
<1>3. CASE x # "roles" /\ x # "refresh_tokens"
  <2>1. \A c \in Columns(x) : n[c] = r[c]
    BY <1>3, DetachedKeeps
  <2>2. n = r
    BY <2>1, DetachedKeeps DEF RowsOf
  <2> QED BY <2>2
<1> QED BY <1>1, <1>2, <1>3

(* After a statement a row of the view still has a version with its key    *)
(* columns, or it is locked against everybody.                             *)
LEMMA KeySurvives ==
    ASSUME NEW v, IsDatabase(v), NEW st, IsStatement(st), NEW t \in Tables, NEW r \in v[t]
    PROVE  \/ Holds(LocksOf(v, st), {"update"}, t, r)
           \/ \E b \in Result(v, st)[t] : Agree(KeyColumns(t), r, b)
<1>0. r \in RowsOf(t)
  BY DEF IsDatabase
<1>1. CASE r \in Result(v, st)[t]
  BY <1>1 DEF Agree
<1>2. CASE st.op = "insert"
  <2>1. Result(v, st) = AfterInsert(v, st.table, st.row)
    BY <1>2 DEF Result
  <2>2. r \in Result(v, st)[t]
    BY <2>1, InsertedRows DEF IsStatement
  <2> QED BY <2>2, <1>1
<1>3. CASE st.op = "update"
  <2> DEFINE hit == Matching(v, st.table, st.where)
  <2>0. st.table \in Tables
    BY DEF IsStatement
  <2>1. /\ Result(v, st) = AfterUpdate(v, st.table, st.where, st.set)
        /\ LocksOf(v, st) = UpdateLocks(v, st.table, st.where, st.set)
    BY <1>3 DEF Result, LocksOf
  <2>2. CASE t # st.table
    BY <2>0, <2>1, <2>2, <1>1, UpdatedRows
  <2>3. CASE t = st.table /\ r \notin hit
    <3>1. UpdatedRow(v, t, st.where, st.set, r) = r
      BY <2>3 DEF UpdatedRow
    <3>2. r \in AfterUpdate(v, t, st.where, st.set)[t]
      BY <3>1, UpdatedRows
    <3> QED BY <3>2, <2>1, <2>3, <1>1
  <2>4. CASE t = st.table /\ r \in Rewritten(t, hit, st.set)
    BY <2>1, <2>4, UpdateLocking
  <2>5. CASE t = st.table /\ r \in hit /\ r \notin Rewritten(t, hit, st.set)
    <3> DEFINE b == Patched(r, st.set)
    <3>1. UpdatedRow(v, t, st.where, st.set, r) = b
      BY <2>5 DEF UpdatedRow
    <3>2. b \in AfterUpdate(v, t, st.where, st.set)[t]
      BY <3>1, UpdatedRows
    <3>3. \A c \in DOMAIN st.set \cap KeyColumns(t) : r[c] = st.set[c]
      BY <2>5 DEF Rewritten
    <3>4. KeyColumns(t) \subseteq DOMAIN r
      BY <1>0, KeyColumnsAreColumns DEF RowsOf
    <3>5. Agree(KeyColumns(t), r, b)
      BY <3>3, <3>4 DEF Agree, Patched
    <3> QED BY <3>2, <3>5, <2>1, <2>5
  <2> QED BY <2>2, <2>3, <2>4, <2>5
<1>4. CASE st.op = "delete"
  <2> DEFINE gone == Doomed(v, st.table, Matching(v, st.table, st.where))
  <2>0. st.table \in Tables
    BY DEF IsStatement
  <2>1. /\ Result(v, st) = AfterDelete(v, st.table, st.where)
        /\ LocksOf(v, st) = DeleteLocks(v, st.table, st.where)
    BY <1>4 DEF Result, LocksOf
  <2>2. CASE r \in gone[t]
    BY <2>0, <2>1, <2>2, DeleteLocking
  <2>3. CASE r \notin gone[t]
    <3> DEFINE b == Detached(t, gone, r)
    <3>1. b \in Result(v, st)[t]
      BY <2>1, <2>3 DEF AfterDelete
    <3>2. KeyColumns(t) \subseteq Columns(t)
      BY KeyColumnsAreColumns
    <3> HIDE DEF gone
    <3>3. \A c \in KeyColumns(t) : b[c] = r[c]
      BY <1>0, <3>2, DetachedKeeps, ClearedColumnsAreNoKeys
    <3>4. Agree(KeyColumns(t), r, b)
      BY <3>3 DEF Agree
    <3> HIDE DEF b
    <3> QED BY <3>1, <3>4
  <2> QED BY <2>2, <2>3
<1> QED BY <1>2, <1>3, <1>4 DEF IsStatement

(* A statement locks every row it takes out of the view.                   *)
LEMMA DroppedRowsAreLocked ==
    ASSUME NEW v, IsDatabase(v), NEW st, IsStatement(st), NEW t \in Tables,
           NEW r \in v[t], r \notin Result(v, st)[t]
    PROVE  Holds(LocksOf(v, st), Writing, t, r)
<1>0. st.table \in Tables
  BY DEF IsStatement
<1>1. CASE st.op = "insert"
  <2>1. Result(v, st) = AfterInsert(v, st.table, st.row)
    BY <1>1 DEF Result
  <2> QED BY <1>0, <2>1, InsertedRows
<1>2. CASE st.op = "update"
  <2> DEFINE hit == Matching(v, st.table, st.where)
  <2>1. /\ Result(v, st) = AfterUpdate(v, st.table, st.where, st.set)
        /\ LocksOf(v, st) = UpdateLocks(v, st.table, st.where, st.set)
    BY <1>2 DEF Result, LocksOf
  <2>2. t = st.table
    BY <1>0, <2>1, UpdatedRows
  <2>3. UpdatedRow(v, t, st.where, st.set, r) \in Result(v, st)[t]
    BY <2>1, <2>2, UpdatedRows
  <2>4. r \in hit
    BY <2>2, <2>3 DEF UpdatedRow
  <2> QED BY <2>1, <2>2, <2>4, UpdateLocking
<1>3. CASE st.op = "delete"
  <2> DEFINE gone == Doomed(v, st.table, Matching(v, st.table, st.where))
  <2>1. /\ Result(v, st) = AfterDelete(v, st.table, st.where)
        /\ LocksOf(v, st) = DeleteLocks(v, st.table, st.where)
    BY <1>3 DEF Result, LocksOf
  <2>2. CASE r \in gone[t]
    BY <1>0, <2>1, <2>2, DeleteLocking
  <2>3. CASE r \notin gone[t]
    <3>1. Detached(t, gone, r) \in Result(v, st)[t]
      BY <2>1, <2>3 DEF AfterDelete
    <3>2. r \in RowsOf(t)
      BY DEF IsDatabase
    <3>3. Detached(t, gone, r) # r
      BY <3>1
    <3>4. r \in Orphans(v, "SET_NULL", gone, t)
      BY <3>2, <3>3, DetachedRow
    <3> QED BY <1>0, <2>1, <3>4, DeleteLocking
  <2> QED BY <2>2, <2>3
<1> QED BY <1>1, <1>2, <1>3 DEF IsStatement

(* Where the rows a statement adds come from.                              *)
LEMMA AddedRows ==
    ASSUME NEW v, IsDatabase(v), NEW st, IsStatement(st), NEW t \in Tables,
           NEW x \in Result(v, st)[t], x \notin v[t]
    PROVE  \/ st.op = "insert" /\ t = st.table /\ x = st.row
           \/ /\ st.op = "update" /\ t = st.table
              /\ \E r \in Matching(v, t, st.where) : x = Patched(r, st.set)
           \/ /\ st.op = "delete"
              /\ \E r \in v[t] :
                    LET gone == Doomed(v, st.table, Matching(v, st.table, st.where))
                    IN  x = Detached(t, gone, r) /\ r \in Orphans(v, "SET_NULL", gone, t)
<1>0. st.table \in Tables
  BY DEF IsStatement
<1>1. CASE st.op = "insert"
  <2>1. Result(v, st) = AfterInsert(v, st.table, st.row)
    BY <1>1 DEF Result
  <2> QED BY <1>0, <1>1, <2>1, InsertedRows
<1>2. CASE st.op = "update"
  <2>1. Result(v, st) = AfterUpdate(v, st.table, st.where, st.set)
    BY <1>2 DEF Result
  <2>2. t = st.table
    BY <1>0, <2>1, UpdatedRows
  <2>3. PICK r \in v[t] : x = UpdatedRow(v, t, st.where, st.set, r)
    BY <2>1, <2>2, UpdatedRows
  <2>4. r \in Matching(v, t, st.where) /\ x = Patched(r, st.set)
    BY <2>3 DEF UpdatedRow
  <2> QED BY <1>2, <2>2, <2>4
<1>3. CASE st.op = "delete"
  <2> DEFINE gone == Doomed(v, st.table, Matching(v, st.table, st.where))
  <2>1. Result(v, st) = AfterDelete(v, st.table, st.where)
    BY <1>3 DEF Result
  <2>2. PICK r \in v[t] : x = Detached(t, gone, r)
    BY <2>1 DEF AfterDelete
  <2>3. r \in RowsOf(t)
    BY DEF IsDatabase
  <2>4. r \in Orphans(v, "SET_NULL", gone, t)
    BY <2>2, <2>3, DetachedRow
  <2> QED BY <1>3, <2>2, <2>4
<1> QED BY <1>1, <1>2, <1>3 DEF IsStatement

(* ParentLocks locks the rows that a written row refers to.                *)
LEMMA ParentLocking ==
    ASSUME NEW v, NEW t \in Tables, NEW rows, NEW cols,
           NEW ls, ParentLocks(v, t, rows, cols) \subseteq ls,
           NEW x \in rows, NEW f \in Foreign(t), \E e \in f.on : e[1] \in cols,
           NEW p \in v[f.parent], Refers(f, x, p)
    PROVE  Holds(ls, Modes, f.parent, p)
<1> DEFINE parents == {q \in v[f.parent] : \E r \in rows : Refers(f, r, q)}
<1>1. Lock("key_share", f.parent, parents) \subseteq ls
  BY DEF ParentLocks
<1>2. p \in parents
  OBVIOUS
<1>3. "key_share" \in Modes
  BY DEF Modes
<1> HIDE DEF parents
<1> QED BY <1>1, <1>2, <1>3, LockGives

(* An added row's parents are locked, or it refers to nothing, or it       *)
(* refers to what a locked row of the view refers to.                      *)
LEMMA AddedRowsHaveLockedParents ==
    ASSUME NEW v, IsDatabase(v), NEW st, IsStatement(st), NEW t \in Tables,
           NEW x \in Result(v, st)[t], x \notin v[t], NEW f \in Foreign(t)
    PROVE  \/ \A p \in v[f.parent] :
                 Refers(f, x, p) => Holds(LocksOf(v, st), Modes, f.parent, p)
           \/ \E c \in Referring(f) : x[c] = NULL
           \/ \E r \in v[t] : /\ Holds(LocksOf(v, st), Writing, t, r)
                              /\ Agree(Referring(f), x, r)
<1>0. \A e \in f.on : e[1] \in Columns(t)
  BY ForeignColumns
<1>1. CASE st.op = "insert" /\ t = st.table /\ x = st.row
  <2>1. ParentLocks(v, t, {x}, Columns(t)) \subseteq LocksOf(v, st)
    BY <1>1 DEF LocksOf, InsertLocks
  <2>2. CASE f.on = {}
    BY <2>2, ForeignKeyTargets
  <2>3. CASE f.on # {}
    BY <1>0, <2>1, <2>3, ParentLocking
  <2> QED BY <2>2, <2>3
<1>2. ASSUME st.op = "update", t = st.table,
             NEW r \in Matching(v, t, st.where), x = Patched(r, st.set)
      PROVE  \/ \A p \in v[f.parent] :
                 Refers(f, x, p) => Holds(LocksOf(v, st), Modes, f.parent, p)
             \/ \E o \in v[t] : /\ Holds(LocksOf(v, st), Writing, t, o)
                                /\ Agree(Referring(f), x, o)
  <2> DEFINE rows == {Patched(o, st.set) : o \in Matching(v, t, st.where)}
  <2>1. LocksOf(v, st) = UpdateLocks(v, t, st.where, st.set)
    BY <1>2 DEF LocksOf
  <2>2. ParentLocks(v, t, rows, DOMAIN st.set) \subseteq LocksOf(v, st)
    BY <2>1 DEF UpdateLocks
  <2>3. x \in rows
    BY <1>2
  <2>4. CASE \E e \in f.on : e[1] \in DOMAIN st.set
    <3> HIDE DEF rows
    <3> QED BY <2>2, <2>3, <2>4, ParentLocking
  <2>5. CASE \A e \in f.on : e[1] \notin DOMAIN st.set
    <3>1. r \in v[t]
      BY DEF Matching
    <3>2. DOMAIN r = Columns(t)
      BY <3>1 DEF IsDatabase, RowsOf
    <3>3. Agree(Referring(f), x, r)
      BY <1>0, <1>2, <2>5, <3>2 DEF Agree, Referring, Patched
    <3>4. Holds(LocksOf(v, st), Writing, t, r)
      BY <2>1, UpdateLocking
    <3> QED BY <3>1, <3>3, <3>4
  <2> QED BY <2>4, <2>5
<1>3. ASSUME st.op = "delete", NEW r \in v[t], NEW gone,
             gone = Doomed(v, st.table, Matching(v, st.table, st.where)),
             x = Detached(t, gone, r), r \in Orphans(v, "SET_NULL", gone, t)
      PROVE  \/ \E c \in Referring(f) : x[c] = NULL
             \/ \E o \in v[t] : /\ Holds(LocksOf(v, st), Writing, t, o)
                                /\ Agree(Referring(f), x, o)
  <2>1. LocksOf(v, st) = DeleteLocks(v, st.table, st.where)
    BY <1>3 DEF LocksOf
  <2>2. Holds(LocksOf(v, st), Writing, t, r)
    BY <1>3, <2>1, DeleteLocking DEF IsStatement
  <2>3. r \in RowsOf(t)
    BY DEF IsDatabase
  <2>4. \A c \in Columns(t) : x[c] = r[c] \/ x[c] = NULL
    BY <1>3, <2>3, DetachedKeeps
  <2>5. Referring(f) \subseteq Columns(t)
    BY <1>0 DEF Referring
  <2>6. CASE \A c \in Referring(f) : x[c] # NULL
    BY <2>2, <2>4, <2>5, <2>6 DEF Agree
  <2> QED BY <2>6
<1> QED BY <1>1, <1>2, <1>3, AddedRows

(* A row a statement adds is one that Contested looked at, or a detached   *)
(* row, which clashes with what its former version clashed with.           *)
LEMMA AddedRowsClashAsWritten ==
    ASSUME NEW v, IsDatabase(v), NEW st, IsStatement(st), NEW t \in Tables,
           NEW x \in Result(v, st)[t], x \notin v[t]
    PROVE  \/ /\ t = st.table
              /\ \E w \in Written(v, st) :
                    /\ w[2] = x
                    /\ w[1] = NULL \/ (w[1] \in v[t] /\ Holds(LocksOf(v, st), Writing, t, w[1]))
           \/ \E r \in v[t] :
                    /\ Holds(LocksOf(v, st), Writing, t, r)
                    /\ \A u \in UniqueOn(t) : \A y : Clash(u, x, y) => Clash(u, r, y)
<1>1. CASE st.op = "insert" /\ t = st.table /\ x = st.row
  <2>1. <<NULL, x>> \in Written(v, st)
    BY <1>1 DEF Written
  <2> QED BY <1>1, <2>1
<1>2. ASSUME st.op = "update", t = st.table,
             NEW r \in Matching(v, t, st.where), x = Patched(r, st.set)
      PROVE  \E w \in Written(v, st) :
                    w[2] = x /\ w[1] \in v[t] /\ Holds(LocksOf(v, st), Writing, t, w[1])
  <2>1. LocksOf(v, st) = UpdateLocks(v, t, st.where, st.set)
    BY <1>2 DEF LocksOf
  <2>2. Holds(LocksOf(v, st), Writing, t, r)
    BY <2>1, UpdateLocking
  <2>3. <<r, x>> \in Written(v, st)
    BY <1>2 DEF Written
  <2>4. r \in v[t]
    BY DEF Matching
  <2> QED BY <2>2, <2>3, <2>4
<1>3. ASSUME st.op = "delete", NEW r \in v[t], NEW gone,
             gone = Doomed(v, st.table, Matching(v, st.table, st.where)),
             x = Detached(t, gone, r), r \in Orphans(v, "SET_NULL", gone, t)
      PROVE  /\ Holds(LocksOf(v, st), Writing, t, r)
             /\ \A u \in UniqueOn(t) : \A y : Clash(u, x, y) => Clash(u, r, y)
  <2>1. LocksOf(v, st) = DeleteLocks(v, st.table, st.where)
    BY <1>3 DEF LocksOf
  <2>2. Holds(LocksOf(v, st), Writing, t, r)
    BY <1>3, <2>1, DeleteLocking DEF IsStatement
  <2>3. r \in RowsOf(t)
    BY DEF IsDatabase
  <2>4. ASSUME NEW u \in UniqueOn(t), NEW y, Clash(u, x, y)
        PROVE  Clash(u, r, y)
    BY <1>3, <2>3, <2>4, DetachedClashesAlone
  <2> QED BY <2>2, <2>4
<1> QED BY <1>1, <1>2, <1>3, AddedRows

-----------------------------------------------------------------------------
(* A statement keeps the account of its transaction.                       *)
LEMMA StatementKeepsTrack ==
    ASSUME NEW d, IsDatabase(d), Integrity(d), NEW v, NEW ls, Tracked(d, v, ls),
           NEW st, IsStatement(st), Accepts(v, st)
    PROVE  Tracked(d, Result(v, st), ls \cup LocksOf(v, st))
<1> DEFINE n  == Result(v, st)
           ms == LocksOf(v, st)
           all == ls \cup ms
<1>1. IsDatabase(v) /\ Integrity(v)
  BY DEF Tracked
<1>2. IsDatabase(n) /\ Integrity(n)
  BY <1>1, ResultTyped, ResultWhole
<1>3. ASSUME NEW modes, NEW t, NEW r, Holds(ls, modes, t, r) \/ Holds(ms, modes, t, r)
      PROVE  Holds(all, modes, t, r)
  BY <1>3 DEF Holds
<1>4. ASSUME NEW t \in Tables, NEW r \in v[t], r \notin n[t]
      PROVE  Holds(all, Writing, t, r)
  BY <1>1, <1>3, <1>4, DroppedRowsAreLocked
<1>5. ASSUME NEW t \in Tables, NEW r \in v[t]
      PROVE  Holds(all, {"update"}, t, r) \/ \E b \in n[t] : Agree(KeyColumns(t), r, b)
  BY <1>1, <1>3, KeySurvives
<1>6. ASSUME NEW t \in Tables, NEW f \in Foreign(t), NEW x \in n[t], x \notin v[t]
      PROVE  \/ \A p \in v[f.parent] : Refers(f, x, p) => Holds(all, Modes, f.parent, p)
             \/ \E c \in Referring(f) : x[c] = NULL
             \/ \E r \in v[t] : Holds(all, Writing, t, r) /\ Agree(Referring(f), x, r)
  BY <1>1, <1>3, <1>6, AddedRowsHaveLockedParents
<1> HIDE DEF n, ms, all
<1>7. WritesAreLocked(d, n, all)
  <2> SUFFICES ASSUME NEW t \in Tables, NEW r \in d[t], r \notin n[t]
               PROVE  Holds(all, Writing, t, r)
    BY DEF WritesAreLocked
  <2>1. CASE r \in v[t]
    BY <2>1, <1>4
  <2>2. CASE r \notin v[t]
    BY <2>2, <1>3 DEF Tracked, WritesAreLocked
  <2> QED BY <2>1, <2>2
<1>8. KeysAreLocked(d, n, all)
  <2> SUFFICES ASSUME NEW t \in Tables, NEW r \in d[t], r \notin n[t]
               PROVE  \/ Holds(all, {"update"}, t, r)
                      \/ \E b \in n[t] \ d[t] : Agree(KeyColumns(t), r, b)
    BY DEF KeysAreLocked
  <2>1. ASSUME NEW b \in n[t], Agree(KeyColumns(t), r, b)
        PROVE  b \notin d[t]
    <3>1. Agree(Key(t), r, b)
      BY <2>1, KeyIsUnique DEF Agree
    <3> QED BY <3>1, SameKeySameRow
  <2>2. CASE r \in v[t]
    BY <2>1, <2>2, <1>5
  <2>3. CASE r \notin v[t]
    <3>1. CASE Holds(ls, {"update"}, t, r)
      BY <3>1, <1>3
    <3>2. CASE \E a \in v[t] \ d[t] : Agree(KeyColumns(t), r, a)
      <4>1. PICK a \in v[t] : Agree(KeyColumns(t), r, a)
        BY <3>2
      <4>2. Agree(Key(t), r, a)
        BY <4>1, KeyIsUnique DEF Agree
      <4>3. CASE Holds(all, {"update"}, t, a)
        <5>1. Agree(Key(t), a, r)
          BY <4>2 DEF Agree
        <5> QED BY <4>3, <5>1, HoldsAlike
      <4>4. ASSUME NEW b \in n[t], Agree(KeyColumns(t), a, b)
            PROVE  Agree(KeyColumns(t), r, b)
        BY <4>1, <4>4 DEF Agree
      <4> QED BY <4>3, <4>4, <2>1, <1>5
    <3> QED BY <2>3, <3>1, <3>2 DEF Tracked, KeysAreLocked
  <2> QED BY <2>2, <2>3
<1>9. ParentsAreLocked(d, n, all)
  <2> SUFFICES ASSUME NEW t \in Tables, NEW f \in Foreign(t), NEW x \in n[t], x \notin d[t],
                      NEW p \in d[f.parent], Refers(f, x, p)
               PROVE  \/ Holds(all, Modes, f.parent, p)
                      \/ \E c \in d[t] : Holds(all, Writing, t, c) /\ Agree(Referring(f), x, c)
    BY DEF ParentsAreLocked
  <2>0. f.parent \in Tables
    BY ForeignShape
  <2>1. ASSUME NEW a \in v[t], a \notin d[t], Agree(Referring(f), x, a)
        PROVE  \/ Holds(all, Modes, f.parent, p)
               \/ \E c \in d[t] : Holds(all, Writing, t, c) /\ Agree(Referring(f), x, c)
    <3>1. Refers(f, a, p)
      BY <2>1, AgreeingRowsReferAlike
    <3>2. \/ Holds(ls, Modes, f.parent, p)
          \/ \E c \in d[t] : Holds(ls, Writing, t, c) /\ Agree(Referring(f), a, c)
      BY <2>1, <3>1 DEF Tracked, ParentsAreLocked
    <3>3. ASSUME NEW c, Agree(Referring(f), a, c)
          PROVE  Agree(Referring(f), x, c)
      BY <2>1, <3>3 DEF Agree
    <3> QED BY <3>2, <3>3, <1>3
  <2>2. CASE x \in v[t]
    BY <2>1, <2>2 DEF Agree
  <2>3. CASE x \notin v[t]
    <3>1. CASE \A q \in v[f.parent] : Refers(f, x, q) => Holds(all, Modes, f.parent, q)
      <4>1. CASE p \in v[f.parent]
        BY <3>1, <4>1
      <4>2. CASE p \notin v[f.parent]
        <5>1. Holds(ls, Writing, f.parent, p)
          BY <4>2, <2>0 DEF Tracked, WritesAreLocked
        <5>2. Holds(all, Modes, f.parent, p)
          BY <5>1, <1>3 DEF Holds, Writing, Modes
        <5> QED BY <5>2
      <4> QED BY <4>1, <4>2
    <3>2. CASE \E c \in Referring(f) : x[c] = NULL
      BY <3>2 DEF Refers, Referring
    <3>3. ASSUME NEW r \in v[t], Holds(all, Writing, t, r), Agree(Referring(f), x, r)
          PROVE  \/ Holds(all, Modes, f.parent, p)
                 \/ \E c \in d[t] : Holds(all, Writing, t, c) /\ Agree(Referring(f), x, c)
      BY <2>1, <3>3
    <3> QED BY <2>3, <3>1, <3>2, <3>3, <1>6
  <2> QED BY <2>2, <2>3
<1> QED BY <1>2, <1>7, <1>8, <1>9 DEF Tracked, n, ms, all

(* A statement that waits for nobody adds no row that clashes with another *)
(* open transaction's.  It is here that Contested and the row locks share  *)
(* the work: Contested leaves out the versions of the row being written.   *)
LEMMA StatementStaysApart ==
    ASSUME NEW d, IsDatabase(d), Integrity(d),
           NEW v, NEW ls, Tracked(d, v, ls),
           NEW w, NEW ms, Tracked(d, w, ms),
           NEW st, IsStatement(st),
           NoConflict(ls \cup LocksOf(v, st), ms), NoClash(d, v, w),
           \A k \in Written(v, st) : \A u \in UniqueOn(st.table) :
              \A y \in w[st.table] \ d[st.table] :
                 ~((k[1] # NULL => Identity(st.table, y) # Identity(st.table, k[1]))
                   /\ Clash(u, k[2], y))
    PROVE  NoClash(d, Result(v, st), w)
<1> DEFINE n   == Result(v, st)
           all == ls \cup LocksOf(v, st)
<1>0. IsDatabase(v) /\ Integrity(v) /\ IsDatabase(w) /\ Integrity(w)
  BY DEF Tracked
<1> SUFFICES ASSUME NEW t \in Tables, NEW u \in UniqueOn(t), NEW x \in n[t], x \notin d[t],
                    NEW y \in w[t], y \notin d[t], Clash(u, x, y)
             PROVE  FALSE
  BY DEF NoClash
<1>1. ASSUME NEW r \in v[t], r \notin d[t], NEW g \in UniqueOn(t), Clash(g, r, y)
      PROVE  FALSE
  BY <1>1 DEF NoClash
<1>2. ASSUME NEW r \in d[t], Holds(all, Writing, t, r), NEW g \in UniqueOn(t), Clash(g, r, y)
      PROVE  FALSE
  <2>1. CASE r \in w[t]
    BY <1>0, <1>2, <2>1 DEF Integrity, UniqueHolds
  <2>2. CASE r \notin w[t]
    <3>1. Holds(ms, Writing, t, r)
      BY <2>2 DEF Tracked, WritesAreLocked
    <3> HIDE DEF all
    <3>2. NoConflict(all, ms)
      BY DEF all
    <3> QED BY <1>2, <3>1, <3>2, WritersConflict
  <2> QED BY <2>1, <2>2
<1>3. ASSUME NEW modes, NEW r, Holds(LocksOf(v, st), modes, t, r)
      PROVE  Holds(all, modes, t, r)
  BY <1>3 DEF Holds
<1>4. CASE x \in v[t]
  BY <1>1, <1>4
<1>5. CASE x \notin v[t]
  <2>1. ASSUME t = st.table, NEW k \in Written(v, st), k[2] = x,
               k[1] = NULL \/ (k[1] \in v[t] /\ Holds(LocksOf(v, st), Writing, t, k[1]))
        PROVE  FALSE
    <3>1. k[1] # NULL /\ Identity(t, y) = Identity(t, k[1])
      BY <2>1
    <3>2. k[1] \in v[t] /\ Holds(all, Writing, t, k[1])
      BY <2>1, <3>1, <1>3
    <3>3. Agree(Key(t), k[1], y)
      BY <3>1, SameIdentity
    <3>4. RowAllowed(t, k[1])
      BY <3>2, <1>0 DEF Integrity, RowsAllowed
    <3>5. Over(Key(t)) \in UniqueOn(t) /\ Clash(Over(Key(t)), k[1], y)
      BY <3>3, <3>4, KeysClash
    <3> HIDE DEF all
    <3> QED BY <3>2, <3>5, <1>1, <1>2
  <2>2. ASSUME NEW r \in v[t], Holds(LocksOf(v, st), Writing, t, r),
               \A g \in UniqueOn(t) : \A z : Clash(g, x, z) => Clash(g, r, z)
        PROVE  FALSE
    <3>1. Clash(u, r, y)
      BY <2>2
    <3>2. Holds(all, Writing, t, r)
      BY <2>2, <1>3
    <3> HIDE DEF all
    <3> QED BY <3>1, <3>2, <1>1, <1>2
  <2> QED BY <2>1, <2>2, <1>0, <1>5, AddedRowsClashAsWritten
<1> QED BY <1>4, <1>5

-----------------------------------------------------------------------------
(* Which of two transactions holds which lock does not matter.             *)
LEMMA ConflictsAreMutual ==
    ASSUME NEW ls, NEW ms, NoConflict(ls, ms)
    PROVE  NoConflict(ms, ls)
BY DEF NoConflict, Conflict

(* Neither does which of them added which row.                             *)
LEMMA ClashesAreMutual ==
    ASSUME NEW d, NEW v, NEW w, NoClash(d, v, w)
    PROVE  NoClash(d, w, v)
BY DEF NoClash, Clash

(* When the changes of two transactions are put together, a row added by   *)
(* one of them still has a parent: the other cannot have removed it, or    *)
(* has left a version with the same key.                                   *)
LEMMA OwnRowsKeepParents ==
    ASSUME NEW d, IsDatabase(d), Integrity(d),
           NEW v, NEW ls, Tracked(d, v, ls),
           NEW w, NEW ms, Tracked(d, w, ms), NoConflict(ls, ms),
           NEW m,
           \A t \in Tables : \A x \in v[t] : x \notin d[t] \/ x \in w[t] => x \in m[t],
           \A t \in Tables : \A x \in w[t] : x \notin d[t] \/ x \in v[t] => x \in m[t],
           NEW t \in Tables, NEW f \in Foreign(t), NEW a \in v[t], a \notin d[t]
    PROVE  HasParent(m, f, a)
<1>0. f.parent \in Tables /\ Integrity(v) /\ Integrity(w)
  BY ForeignShape DEF Tracked
<1>1. HasParent(v, f, a)
  BY <1>0 DEF Integrity, ForeignHolds
<1>2. CASE \E e \in f.on : a[e[1]] = NULL
  BY <1>2 DEF HasParent
<1>3. ASSUME NEW p \in v[f.parent], Refers(f, a, p)
      PROVE  HasParent(m, f, a)
  <2>1. CASE p \notin d[f.parent] \/ p \in w[f.parent]
    BY <1>0, <1>3, <2>1 DEF HasParent
  <2>2. CASE p \in d[f.parent] /\ p \notin w[f.parent]
    <3>1. ASSUME NEW q \in w[f.parent], Refers(f, a, q)
          PROVE  HasParent(m, f, a)
      <4>1. CASE q \in d[f.parent]
        <5>1. Agree(Key(f.parent), p, q)
          BY <1>3, <3>1, SameParent
        <5>2. p = q
          BY <1>0, <2>2, <4>1, <5>1, SameKeySameRow
        <5> QED BY <2>2, <5>2
      <4>2. CASE q \notin d[f.parent]
        BY <1>0, <3>1, <4>2 DEF HasParent
      <4> QED BY <4>1, <4>2
    <3>2. CASE Holds(ls, Modes, f.parent, p)
      <4>1. CASE Holds(ms, {"update"}, f.parent, p)
        BY <3>2, <4>1, UpdateConflicts
      <4>2. ASSUME NEW b \in w[f.parent], Agree(KeyColumns(f.parent), p, b)
            PROVE  HasParent(m, f, a)
        BY <1>3, <3>1, <4>2, KeptKeyKeepsReferrers
      <4> QED BY <1>0, <2>2, <4>1, <4>2 DEF Tracked, KeysAreLocked
    <3>3. ASSUME NEW c \in d[t], Holds(ls, Writing, t, c), Agree(Referring(f), a, c)
          PROVE  HasParent(m, f, a)
      <4>1. c \in w[t]
        BY <3>3, WritersConflict DEF Tracked, WritesAreLocked
      <4>2. HasParent(w, f, c)
        BY <1>0, <4>1 DEF Integrity, ForeignHolds
      <4>3. \A e \in f.on : a[e[1]] = c[e[1]] /\ a[e[1]] # NULL
        BY <1>3, <3>3 DEF Agree, Referring, Refers
      <4>4. PICK q \in w[f.parent] : Refers(f, c, q)
        BY <4>2, <4>3 DEF HasParent
      <4>5. Refers(f, a, q)
        BY <4>3, <4>4 DEF Refers
      <4> QED BY <3>1, <4>5
    <3> QED BY <1>3, <2>2, <3>2, <3>3 DEF Tracked, ParentsAreLocked
  <2> QED BY <2>1, <2>2
<1> QED BY <1>1, <1>2, <1>3 DEF HasParent

(* A row neither of them changed has a parent in both views, so it has one *)
(* when the changes are put together.                                      *)
LEMMA SharedRowsKeepParents ==
    ASSUME NEW d, Integrity(d), NEW v, Integrity(v), NEW w, Integrity(w), NEW m,
           \A t \in Tables : \A x \in v[t] : x \notin d[t] \/ x \in w[t] => x \in m[t],
           \A t \in Tables : \A x \in w[t] : x \notin d[t] \/ x \in v[t] => x \in m[t],
           NEW t \in Tables, NEW f \in Foreign(t), NEW a \in v[t], a \in w[t]
    PROVE  HasParent(m, f, a)
<1>0. f.parent \in Tables
  BY ForeignShape
<1>1. HasParent(v, f, a) /\ HasParent(w, f, a)
  BY DEF Integrity, ForeignHolds
<1>2. CASE \E e \in f.on : a[e[1]] = NULL
  BY <1>2 DEF HasParent
<1>3. ASSUME NEW p \in v[f.parent], Refers(f, a, p), NEW q \in w[f.parent], Refers(f, a, q)
      PROVE  HasParent(m, f, a)
  <2>1. CASE p \notin d[f.parent] \/ q \notin d[f.parent]
    BY <1>0, <1>3, <2>1 DEF HasParent
  <2>2. CASE p \in d[f.parent] /\ q \in d[f.parent]
    <3>1. Agree(Key(f.parent), p, q)
      BY <1>3, SameParent
    <3>2. p = q
      BY <1>0, <2>2, <3>1, SameKeySameRow
    <3> QED BY <1>0, <1>3, <3>2 DEF HasParent
  <2> QED BY <2>1, <2>2
<1> QED BY <1>1, <1>2, <1>3 DEF HasParent

(* The changes of two transactions, put together, keep every constraint.   *)
LEMMA MergeKeepsIntegrity ==
    ASSUME NEW d, IsDatabase(d), Integrity(d),
           NEW v, NEW ls, Tracked(d, v, ls),
           NEW w, NEW ms, Tracked(d, w, ms), NoConflict(ls, ms), NoClash(d, v, w),
           NEW m, \A t \in Tables : m[t] = (w[t] \ (d[t] \ v[t])) \cup (v[t] \ d[t])
    PROVE  Integrity(m)
<1>0. Integrity(v) /\ Integrity(w) /\ NoConflict(ms, ls) /\ NoClash(d, w, v)
  BY ConflictsAreMutual, ClashesAreMutual DEF Tracked
<1>1. \A t \in Tables : \A x \in m[t] : \/ x \in v[t] /\ x \notin d[t]
                                        \/ x \in w[t] /\ x \notin d[t]
                                        \/ x \in v[t] /\ x \in w[t]
  OBVIOUS
<1>2. /\ \A t \in Tables : \A x \in v[t] : x \notin d[t] \/ x \in w[t] => x \in m[t]
      /\ \A t \in Tables : \A x \in w[t] : x \notin d[t] \/ x \in v[t] => x \in m[t]
  OBVIOUS
<1>3. RowsAllowed(m)
  BY <1>0, <1>1 DEF Integrity, RowsAllowed
<1>4. UniqueHolds(m)
  <2> SUFFICES ASSUME NEW t \in Tables, NEW u \in UniqueOn(t), NEW a \in m[t], NEW b \in m[t],
                      Clash(u, a, b)
               PROVE  a = b
    BY DEF UniqueHolds
  <2>1. CASE a \in v[t] /\ b \in v[t]
    BY <2>1, <1>0 DEF Integrity, UniqueHolds
  <2>2. CASE a \in w[t] /\ b \in w[t]
    BY <2>2, <1>0 DEF Integrity, UniqueHolds
  <2>3. CASE a \in v[t] \ d[t] /\ b \in w[t] \ d[t]
    BY <2>3 DEF NoClash
  <2>4. CASE b \in v[t] \ d[t] /\ a \in w[t] \ d[t]
    BY <2>4, <1>0 DEF NoClash
  <2> QED BY <2>1, <2>2, <2>3, <2>4, <1>1
<1>5. ForeignHolds(m)
  <2> SUFFICES ASSUME NEW t \in Tables, NEW f \in Foreign(t), NEW a \in m[t]
               PROVE  HasParent(m, f, a)
    BY DEF ForeignHolds
  <2>1. CASE a \in v[t] /\ a \notin d[t]
    BY <2>1, <1>0, <1>2, OwnRowsKeepParents
  <2>2. CASE a \in w[t] /\ a \notin d[t]
    BY <2>2, <1>0, <1>2, OwnRowsKeepParents
  <2>3. CASE a \in v[t] /\ a \in w[t]
    BY <2>3, <1>0, <1>2, SharedRowsKeepParents
  <2> QED BY <2>1, <2>2, <2>3, <1>1
<1> QED BY <1>3, <1>4, <1>5 DEF Integrity

(* Two open transactions never remove one row or add one row.              *)
LEMMA MergedChanges ==
    ASSUME NEW d, Integrity(d),
           NEW v, NEW ls, Tracked(d, v, ls),
           NEW w, NEW ms, Tracked(d, w, ms), NoConflict(ls, ms), NoClash(d, v, w),
           NEW t \in Tables
    PROVE  /\ d[t] \ v[t] \subseteq w[t]
           /\ (v[t] \ d[t]) \cap w[t] = {}
<1>1. ASSUME NEW r \in d[t], r \notin v[t]
      PROVE  r \in w[t]
  BY <1>1, WritersConflict DEF Tracked, WritesAreLocked
<1>2. ASSUME NEW x \in v[t], x \notin d[t], x \in w[t]
      PROVE  FALSE
  <2>1. RowAllowed(t, x)
    BY DEF Tracked, Integrity, RowsAllowed
  <2>2. Agree(Key(t), x, x)
    BY DEF Agree
  <2>3. Over(Key(t)) \in UniqueOn(t) /\ Clash(Over(Key(t)), x, x)
    BY <2>1, <2>2, KeysClash
  <2> QED BY <1>2, <2>3 DEF NoClash
<1> QED BY <1>1, <1>2

(* When one of them commits, the other's account holds of the new          *)
(* committed database.                                                     *)
LEMMA MergeKeepsTrack ==
    ASSUME NEW d, IsDatabase(d), Integrity(d),
           NEW v, NEW ls, Tracked(d, v, ls),
           NEW w, NEW ms, Tracked(d, w, ms), NoConflict(ls, ms), NoClash(d, v, w),
           NEW m, IsDatabase(m),
           \A t \in Tables : m[t] = (w[t] \ (d[t] \ v[t])) \cup (v[t] \ d[t])
    PROVE  Tracked(w, m, ls)
<1>0. IsDatabase(v) /\ Integrity(v) /\ IsDatabase(w) /\ Integrity(w)
  BY DEF Tracked
<1>1. Integrity(m)
  BY MergeKeepsIntegrity
<1>2. \A t \in Tables : m[t] \ w[t] = v[t] \ d[t] /\ w[t] \ m[t] = d[t] \ v[t]
  BY MergedChanges
<1>3. WritesAreLocked(w, m, ls)
  BY <1>2 DEF Tracked, WritesAreLocked
<1>4. KeysAreLocked(w, m, ls)
  BY <1>2 DEF Tracked, KeysAreLocked
<1>5. ParentsAreLocked(w, m, ls)
  <2> SUFFICES ASSUME NEW t \in Tables, NEW f \in Foreign(t), NEW a \in m[t] \ w[t],
                      NEW p \in w[f.parent], Refers(f, a, p)
               PROVE  \/ Holds(ls, Modes, f.parent, p)
                      \/ \E c \in w[t] : Holds(ls, Writing, t, c) /\ Agree(Referring(f), a, c)
    BY DEF ParentsAreLocked
  <2>0. f.parent \in Tables
    BY ForeignShape
  <2>1. a \in v[t] /\ a \notin d[t]
    BY <1>2
  <2>2. ASSUME NEW c \in d[t], Holds(ls, Writing, t, c), Agree(Referring(f), a, c)
        PROVE  \E o \in w[t] : Holds(ls, Writing, t, o) /\ Agree(Referring(f), a, o)
    BY <2>2, WritersConflict DEF Tracked, WritesAreLocked
  <2>3. ASSUME NEW q \in d[f.parent], Refers(f, a, q)
        PROVE  \/ Holds(ls, Modes, f.parent, q)
               \/ \E c \in d[t] : Holds(ls, Writing, t, c) /\ Agree(Referring(f), a, c)
    BY <2>1, <2>3 DEF Tracked, ParentsAreLocked
  <2>4. CASE p \in d[f.parent]
    BY <2>2, <2>3, <2>4
  <2>5. CASE p \notin d[f.parent]
    <3>1. HasParent(v, f, a)
      BY <1>0, <2>1 DEF Integrity, ForeignHolds
    <3>2. PICK q \in v[f.parent] : Refers(f, a, q)
      BY <3>1 DEF HasParent, Refers
    <3>3. Agree(Key(f.parent), q, p)
      BY <3>2, SameParent
    <3>4. CASE q \notin d[f.parent]
      <4>1. RowAllowed(f.parent, q)
        BY <1>0, <2>0 DEF Integrity, RowsAllowed
      <4>2. Over(Key(f.parent)) \in UniqueOn(f.parent) /\ Clash(Over(Key(f.parent)), q, p)
        BY <2>0, <3>3, <4>1, KeysClash
      <4> QED BY <2>0, <2>5, <3>4, <4>2 DEF NoClash
    <3>5. CASE q \in d[f.parent]
      <4>1. CASE Holds(ls, Modes, f.parent, q)
        BY <3>3, <4>1, HoldsAlike
      <4> QED BY <2>2, <2>3, <3>2, <3>5, <4>1
    <3> QED BY <3>4, <3>5
  <2> QED BY <2>4, <2>5
<1> QED BY <1>1, <1>3, <1>4, <1>5 DEF Tracked

-----------------------------------------------------------------------------
(* Beyond lists the difference of two databases, table by table.           *)
LEMMA RowsBeyond ==
    ASSUME NEW n, NEW d, NEW t \in Tables
    PROVE  RowsIn(Beyond(n, d), t) = n[t] \ d[t]
<1>1. ASSUME NEW r \in n[t] \ d[t]
      PROVE  r \in RowsIn(Beyond(n, d), t)
  <2>1. <<t, r>> \in Beyond(n, d)
    BY DEF Beyond
  <2>2. <<t, r>>[1] = t /\ <<t, r>>[2] = r
    OBVIOUS
  <2> QED BY <2>1, <2>2 DEF RowsIn
<1>2. ASSUME NEW r \in RowsIn(Beyond(n, d), t)
      PROVE  r \in n[t] \ d[t]
  <2>1. PICK x \in Beyond(n, d) : x[1] = t /\ x[2] = r
    BY DEF RowsIn
  <2>2. PICK y \in Tables : x \in {y} \X (n[y] \ d[y])
    BY DEF Beyond
  <2> QED BY <2>1, <2>2
<1> QED BY <1>1, <1>2

(* Changes that are exact can be read back from the view.                  *)
LEMMA ChangesOfView ==
    ASSUME NEW d, NEW changes, Exact(d, changes), NEW t \in Tables
    PROVE  /\ ViewOf(d, changes)[t] \ d[t] = RowsIn(changes.added, t)
           /\ d[t] \ ViewOf(d, changes)[t] = RowsIn(changes.removed, t)
BY DEF Exact, ViewOf

(* What Execute records as the changes gives the database it computed.     *)
LEMMA ViewOfBeyond ==
    ASSUME NEW d, NEW n, IsDatabase(n), NEW changes,
           changes.added = Beyond(n, d), changes.removed = Beyond(d, n)
    PROVE  ViewOf(d, changes) = n /\ Exact(d, changes)
<1>1. \A t \in Tables : RowsIn(changes.added, t) = n[t] \ d[t]
  BY RowsBeyond
<1>2. \A t \in Tables : RowsIn(changes.removed, t) = d[t] \ n[t]
  BY RowsBeyond
<1>3. Exact(d, changes)
  BY <1>1, <1>2 DEF Exact
<1>4. \A t \in Tables : ViewOf(d, changes)[t] = n[t]
  BY <1>1, <1>2 DEF ViewOf
<1>5. ViewOf(d, changes) = [t \in Tables |-> ViewOf(d, changes)[t]]
  BY DEF ViewOf
<1>6. n = [t \in Tables |-> n[t]]
  BY DEF IsDatabase
<1>7. ViewOf(d, changes) = n
  BY <1>4, <1>5, <1>6
<1> QED BY <1>3, <1>7

(* A transaction without changes sees the committed database.              *)
LEMMA NothingChanged ==
    ASSUME NEW d, IsDatabase(d)
    PROVE  ViewOf(d, Clean) = d /\ Exact(d, Clean)
<1>1. \A t \in Tables : RowsIn(Clean.added, t) = {} /\ RowsIn(Clean.removed, t) = {}
  BY DEF Clean, RowsIn
<1>2. \A t \in Tables : ViewOf(d, Clean)[t] = d[t]
  BY <1>1 DEF ViewOf
<1>3. ViewOf(d, Clean) = [t \in Tables |-> ViewOf(d, Clean)[t]]
  BY DEF ViewOf
<1>4. d = [t \in Tables |-> d[t]]
  BY DEF IsDatabase
<1>5. Exact(d, Clean)
  BY <1>1 DEF Exact
<1>6. ViewOf(d, Clean) = d
  BY <1>2, <1>3, <1>4
<1> QED BY <1>5, <1>6

(* Its account is empty.                                                   *)
LEMMA NothingTracked ==
    ASSUME NEW d, IsDatabase(d), Integrity(d), NEW v, NEW ls
    PROVE  /\ Tracked(d, d, {})
           /\ NoConflict({}, ls) /\ NoConflict(ls, {})
           /\ NoClash(d, d, v) /\ NoClash(d, v, d)
BY DEF Tracked, WritesAreLocked, KeysAreLocked, ParentsAreLocked, NoConflict, NoClash

(* A rollback leaves the others what they were.                            *)
LEMMA RollbackStaysCoherent ==
    ASSUME NEW d, NEW changes, NEW held, Coherent(d, changes, held), NEW s \in Session
    PROVE  Coherent(d, [changes EXCEPT ![s] = Clean], [held EXCEPT ![s] = {}])
<1> DEFINE next == [changes EXCEPT ![s] = Clean]
           kept == [held EXCEPT ![s] = {}]
<1>1. /\ DOMAIN next = Session /\ DOMAIN kept = Session
      /\ next[s] = Clean /\ kept[s] = {}
      /\ \A o \in Session \ {s} : next[o] = changes[o] /\ kept[o] = held[o]
  BY DEF Coherent
<1>2. IsDatabase(d) /\ Integrity(d)
  BY DEF Coherent
<1>3. ViewOf(d, next[s]) = d /\ Exact(d, next[s])
  BY <1>1, <1>2, NothingChanged
<1> HIDE DEF next, kept
<1>4. ASSUME NEW o \in Session
      PROVE  Exact(d, next[o]) /\ Tracked(d, ViewOf(d, next[o]), kept[o])
  <2>1. CASE o = s
    BY <2>1, <1>1, <1>2, <1>3, NothingTracked
  <2>2. CASE o # s
    BY <2>2, <1>1 DEF Coherent
  <2> QED BY <2>1, <2>2
<1>5. ASSUME NEW o \in Session, NEW q \in Session \ {o}
      PROVE  /\ NoConflict(kept[o], kept[q])
             /\ NoClash(d, ViewOf(d, next[o]), ViewOf(d, next[q]))
  <2>1. CASE o = s
    BY <2>1, <1>1, <1>2, <1>3, NothingTracked
  <2>2. CASE q = s
    BY <2>2, <1>1, <1>2, <1>3, NothingTracked
  <2>3. CASE o # s /\ q # s
    BY <2>3, <1>1 DEF Coherent
  <2> QED BY <2>1, <2>2, <2>3
<1> QED BY <1>1, <1>2, <1>4, <1>5 DEF Coherent, next, kept

(* A commit: the view becomes the database under everybody else.           *)
LEMMA CommitStaysCoherent ==
    ASSUME NEW d, NEW changes, NEW held, Coherent(d, changes, held), NEW s \in Session
    PROVE  Coherent(ViewOf(d, changes[s]), [changes EXCEPT ![s] = Clean], [held EXCEPT ![s] = {}])
<1> DEFINE next == [changes EXCEPT ![s] = Clean]
           kept == [held EXCEPT ![s] = {}]
           w    == ViewOf(d, changes[s])
<1>1. /\ DOMAIN next = Session /\ DOMAIN kept = Session
      /\ next[s] = Clean /\ kept[s] = {}
      /\ \A o \in Session \ {s} : next[o] = changes[o] /\ kept[o] = held[o]
  BY DEF Coherent
<1>2. IsDatabase(d) /\ Integrity(d) /\ Tracked(d, w, held[s])
  BY DEF Coherent
<1>3. IsDatabase(w) /\ Integrity(w)
  BY <1>2 DEF Tracked
<1> HIDE DEF next, kept, w
<1>4. ViewOf(w, next[s]) = w /\ Exact(w, next[s])
  BY <1>1, <1>3, NothingChanged
<1>5. ASSUME NEW o \in Session \ {s}
      PROVE  /\ Exact(w, next[o])
             /\ Tracked(w, ViewOf(w, next[o]), kept[o])
             /\ \A t \in Tables : ViewOf(w, next[o])[t] \ w[t] = ViewOf(d, changes[o])[t] \ d[t]
  <2> DEFINE v == ViewOf(d, changes[o])
             m == ViewOf(w, next[o])
  <2>1. Exact(d, changes[o]) /\ Tracked(d, v, held[o])
    BY DEF Coherent
  <2>2. NoConflict(held[o], held[s]) /\ NoClash(d, v, w)
    BY DEF Coherent, w
  <2>3. next[o] = changes[o] /\ kept[o] = held[o]
    BY <1>1
  <2>4. \A t \in Tables : /\ v[t] \ d[t] = RowsIn(changes[o].added, t)
                          /\ d[t] \ v[t] = RowsIn(changes[o].removed, t)
    BY <2>1, ChangesOfView
  <2>5. \A t \in Tables : m[t] = (w[t] \ (d[t] \ v[t])) \cup (v[t] \ d[t])
    BY <2>3, <2>4 DEF ViewOf
  <2>6. m = [t \in Tables |-> m[t]]
    BY DEF ViewOf
  <2> HIDE DEF v, m
  <2>7. \A t \in Tables : d[t] \ v[t] \subseteq w[t] /\ (v[t] \ d[t]) \cap w[t] = {}
    BY <1>2, <2>1, <2>2, MergedChanges
  <2>8. Exact(w, next[o])
    BY <2>3, <2>4, <2>7 DEF Exact
  <2>9. IsDatabase(v)
    BY <2>1 DEF Tracked
  <2>10. IsDatabase(m)
    BY <1>3, <2>5, <2>6, <2>9 DEF IsDatabase
  <2>11. Tracked(w, m, held[o])
    BY <1>2, <2>1, <2>2, <2>5, <2>10, MergeKeepsTrack
  <2>12. \A t \in Tables : m[t] \ w[t] = v[t] \ d[t]
    BY <2>5, <2>7
  <2> QED BY <2>3, <2>8, <2>11, <2>12 DEF v, m
<1>6. ASSUME NEW o \in Session
      PROVE  Exact(w, next[o]) /\ Tracked(w, ViewOf(w, next[o]), kept[o])
  <2>1. CASE o = s
    BY <2>1, <1>1, <1>3, <1>4, NothingTracked
  <2>2. CASE o # s
    BY <2>2, <1>5
  <2> QED BY <2>1, <2>2
<1>7. ASSUME NEW o \in Session, NEW q \in Session \ {o}
      PROVE  /\ NoConflict(kept[o], kept[q])
             /\ NoClash(w, ViewOf(w, next[o]), ViewOf(w, next[q]))
  <2>1. CASE o = s
    BY <2>1, <1>1, <1>3, <1>4, NothingTracked
  <2>2. CASE q = s
    BY <2>2, <1>1, <1>3, <1>4, NothingTracked
  <2>3. CASE o # s /\ q # s
    <3>1. NoConflict(held[o], held[q]) /\ NoClash(d, ViewOf(d, changes[o]), ViewOf(d, changes[q]))
      BY DEF Coherent
    <3>2. \A t \in Tables : ViewOf(w, next[o])[t] \ w[t] = ViewOf(d, changes[o])[t] \ d[t]
      BY <2>3, <1>5
    <3>3. \A t \in Tables : ViewOf(w, next[q])[t] \ w[t] = ViewOf(d, changes[q])[t] \ d[t]
      BY <2>3, <1>5
    <3>4. NoClash(w, ViewOf(w, next[o]), ViewOf(w, next[q]))
      BY <3>1, <3>2, <3>3 DEF NoClash
    <3> QED BY <2>3, <3>1, <3>4, <1>1
  <2> QED BY <2>1, <2>2, <2>3
<1> QED BY <1>1, <1>3, <1>6, <1>7 DEF Coherent, next, kept, w

(* A statement: its changes and locks are recorded.                        *)
LEMMA StatementStaysCoherent ==
    ASSUME NEW d, NEW changes, NEW held, Coherent(d, changes, held), NEW s \in Session,
           NEW st, IsStatement(st), Accepts(ViewOf(d, changes[s]), st),
           NEW n, n = Result(ViewOf(d, changes[s]), st),
           NEW ls, ls = LocksOf(ViewOf(d, changes[s]), st),
           \A o \in Session \ {s} : NoConflict(ls, held[o]),
           \A o \in Session \ {s} :
              \A k \in Written(ViewOf(d, changes[s]), st) : \A u \in UniqueOn(st.table) :
                 \A y \in ViewOf(d, changes[o])[st.table] \ d[st.table] :
                    ~((k[1] # NULL => Identity(st.table, y) # Identity(st.table, k[1]))
                      /\ Clash(u, k[2], y)),
           NEW now, now.added = Beyond(n, d), now.removed = Beyond(d, n)
    PROVE  Coherent(d, [changes EXCEPT ![s] = now], [held EXCEPT ![s] = @ \cup ls])
<1> DEFINE next == [changes EXCEPT ![s] = now]
           kept == [held EXCEPT ![s] = @ \cup ls]
           v    == ViewOf(d, changes[s])
<1>1. /\ DOMAIN next = Session /\ DOMAIN kept = Session
      /\ next[s] = now /\ kept[s] = held[s] \cup ls
      /\ \A o \in Session \ {s} : next[o] = changes[o] /\ kept[o] = held[o]
  BY DEF Coherent
<1>2. IsDatabase(d) /\ Integrity(d) /\ Tracked(d, v, held[s])
  BY DEF Coherent
<1>3. Tracked(d, n, held[s] \cup ls)
  BY <1>2, StatementKeepsTrack
<1>4. IsDatabase(n)
  BY <1>3 DEF Tracked
<1>5. ViewOf(d, now) = n /\ Exact(d, now)
  BY <1>4, ViewOfBeyond
<1>6. ASSUME NEW o \in Session \ {s}
      PROVE  NoConflict(held[s] \cup ls, held[o]) /\ NoClash(d, n, ViewOf(d, changes[o]))
  <2>1. NoConflict(held[s], held[o])
    BY DEF Coherent
  <2>2. NoConflict(held[s] \cup ls, held[o])
    BY <2>1 DEF NoConflict
  <2>3. NoClash(d, v, ViewOf(d, changes[o])) /\ Tracked(d, ViewOf(d, changes[o]), held[o])
    BY DEF Coherent
  <2>4. NoClash(d, n, ViewOf(d, changes[o]))
    BY <1>2, <2>2, <2>3, StatementStaysApart
  <2> QED BY <2>2, <2>4
<1> HIDE DEF next, kept, v
<1>7. ASSUME NEW o \in Session
      PROVE  Exact(d, next[o]) /\ Tracked(d, ViewOf(d, next[o]), kept[o])
  <2>1. CASE o = s
    BY <2>1, <1>1, <1>3, <1>5
  <2>2. CASE o # s
    BY <2>2, <1>1 DEF Coherent
  <2> QED BY <2>1, <2>2
<1>8. ASSUME NEW o \in Session, NEW q \in Session \ {o}
      PROVE  /\ NoConflict(kept[o], kept[q])
             /\ NoClash(d, ViewOf(d, next[o]), ViewOf(d, next[q]))
  <2>1. CASE o = s
    BY <2>1, <1>1, <1>5, <1>6
  <2>2. CASE q = s
    BY <2>2, <1>1, <1>5, <1>6, ConflictsAreMutual, ClashesAreMutual
  <2>3. CASE o # s /\ q # s
    BY <2>3, <1>1 DEF Coherent
  <2> QED BY <2>1, <2>2, <2>3
<1> QED BY <1>1, <1>2, <1>7, <1>8 DEF Coherent, next, kept

-----------------------------------------------------------------------------
(* Where a request may be.                                                 *)
Places == {"new", "open", "running", "committing", "closing", "done"}

(* The inductive invariant.                                                *)
IInv ==
    /\ Coherent(db, delta, locks)
    /\ pc \in [Session -> Places]
    /\ step \in [Session -> Nat]
    /\ program \in [Session -> Programs]
    /\ \A s \in Session : pc[s] = "running" => step[s] < Len(program[s])
    /\ \A s \in Session : delta[s].added \subseteq delta[s].made

(* The view of a request, as a function of the database and its changes.   *)
LEMMA ViewIsViewOf ==
    ASSUME NEW s
    PROVE  View(s) = ViewOf(db, delta[s])
BY DEF View, ViewOf

(* A running request has a statement to run.                               *)
LEMMA NextIsStatement ==
    ASSUME NEW p \in Programs, NEW k \in Nat, k < Len(p)
    PROVE  IsStatement(p[k + 1])
<1>1. p \in Seq({p[i] : i \in DOMAIN p}) /\ \A i \in DOMAIN p : IsStatement(p[i])
  BY ProgramsAreStatements
<1>2. Len(p) \in Nat /\ DOMAIN p = 1..Len(p)
  BY <1>1
<1>3. k + 1 \in DOMAIN p
  BY <1>2
<1> QED BY <1>1, <1>3

(* Nothing is open at the start.                                           *)
LEMMA InitCoherent == Init => IInv
<1> SUFFICES ASSUME Init
             PROVE  IInv
  OBVIOUS
<1>1. IsDatabase(db) /\ Integrity(db)
  BY InitialIsWhole DEF Init, AbstractInit
<1>2. \A s \in Session : delta[s] = Clean /\ locks[s] = {}
  BY DEF Init
<1>3. \A s \in Session : ViewOf(db, delta[s]) = db /\ Exact(db, delta[s])
  BY <1>1, <1>2, NothingChanged
<1>4. Coherent(db, delta, locks)
  BY <1>1, <1>2, <1>3, NothingTracked DEF Coherent, Init
<1>5. pc \in [Session -> Places] /\ step \in [Session -> Nat] /\ program \in [Session -> Programs]
  BY WorkloadsArePrograms DEF Init, AbstractInit, Places
<1>6. \A s \in Session : pc[s] = "new"
  BY DEF Init
<1>7. \A s \in Session : delta[s].added \subseteq delta[s].made
  BY <1>2 DEF Clean
<1> QED BY <1>4, <1>5, <1>6, <1>7 DEF IInv

(* Execute waits for nobody, so its locks and its unique keys are free.    *)
LEMMA ExecuteStaysCoherent ==
    ASSUME IInv, NEW s \in Session, Execute(s)
    PROVE  Coherent(db, delta, locks)'
<1> DEFINE v == View(s)
           st == Statement(s)
           n  == Result(v, st)
           ls == LocksOf(v, st)
           now == [added   |-> Beyond(n, db),
                   removed |-> Beyond(db, n),
                   made    |-> delta[s].made \cup Beyond(n, db)]
<1>1. pc[s] = "running" /\ Blockers(s) = {} /\ Accepts(v, st)
  BY DEF Execute, Succeeds
<1>2. IsStatement(st)
  BY <1>1, NextIsStatement DEF IInv, Statement
<1>3. v = ViewOf(db, delta[s]) /\ \A o \in Session \ {s} : View(o) = ViewOf(db, delta[o])
  BY ViewIsViewOf
<1>4. \A o \in Session \ {s} : ~LockedOut(s, o) /\ ~Contested(s, o)
  BY <1>1 DEF Blockers
<1>5. ASSUME NEW o \in Session \ {s}
      PROVE  NoConflict(ls, locks[o])
  BY <1>4 DEF LockedOut, NoConflict
<1>6. ASSUME NEW o \in Session \ {s}, NEW k \in Written(v, st), NEW u \in UniqueOn(st.table),
             NEW y \in ViewOf(db, delta[o])[st.table] \ db[st.table]
      PROVE  ~((k[1] # NULL => Identity(st.table, y) # Identity(st.table, k[1]))
               /\ Clash(u, k[2], y))
  <2>1. st.table \in Tables
    BY <1>2 DEF IsStatement
  <2>2. Exact(db, delta[o])
    BY DEF IInv, Coherent
  <2>3. y \in RowsIn(delta[o].added, st.table)
    BY <2>1, <2>2, ChangesOfView
  <2>4. y \in RowsIn(delta[o].made \cup delta[o].removed, st.table)
    BY <2>3 DEF RowsIn, IInv
  <2>5. ~Contested(s, o)
    BY <1>4
  <2> QED BY <2>4, <2>5 DEF Contested
<1>7. /\ delta' = [delta EXCEPT ![s] = now]
      /\ locks' = [locks EXCEPT ![s] = @ \cup ls]
      /\ db' = db
  BY DEF Execute
<1>8. Coherent(db, delta, locks) /\ now.added = Beyond(n, db) /\ now.removed = Beyond(db, n)
  BY DEF IInv
<1> HIDE DEF v, st, now
<1>9. Coherent(db, [delta EXCEPT ![s] = now], [locks EXCEPT ![s] = @ \cup ls])
  BY <1>1, <1>2, <1>3, <1>5, <1>6, <1>8, StatementStaysCoherent
<1> QED BY <1>7, <1>9

(* Every step keeps the invariant.                                         *)
LEMMA NextStaysCoherent ==
    ASSUME IInv, [Next]_vars
    PROVE  IInv'
<1>0. Coherent(db, delta, locks)
  BY DEF IInv
<1>1. ASSUME UNCHANGED <<db, delta, locks>>
      PROVE  Coherent(db, delta, locks)'
  BY <1>0, <1>1
<1>2. ASSUME NEW s \in Session, NEW told, End(s, told), db' = db
      PROVE  Coherent(db, delta, locks)'
  <2>1. delta' = [delta EXCEPT ![s] = Clean] /\ locks' = [locks EXCEPT ![s] = {}]
    BY <1>2 DEF End
  <2> QED BY <1>0, <1>2, <2>1, RollbackStaysCoherent
<1>3. ASSUME NEW s \in Session, NEW told, End(s, told), db' = View(s)
      PROVE  Coherent(db, delta, locks)'
  <2>1. delta' = [delta EXCEPT ![s] = Clean] /\ locks' = [locks EXCEPT ![s] = {}]
    BY <1>3 DEF End
  <2>2. db' = ViewOf(db, delta[s])
    BY <1>3, ViewIsViewOf
  <2> QED BY <1>0, <2>1, <2>2, CommitStaysCoherent
<1>4. Coherent(db, delta, locks)'
  <2>1. CASE UNCHANGED vars
    BY <2>1, <1>1 DEF vars
  <2>2. ASSUME NEW s \in Session,
               Checkout(s) \/ Refuse(s) \/ DeadlockAbort(s) \/ Issue(s) \/ Raise(s)
                 \/ Return(s) \/ Cancel(s)
        PROVE  Coherent(db, delta, locks)'
    BY <2>2, <1>1 DEF Checkout, Refuse, DeadlockAbort, Issue, Raise, Return, Cancel
  <2>3. ASSUME NEW s \in Session, CheckoutTimeout(s) \/ Close(s)
        PROVE  Coherent(db, delta, locks)'
    BY <2>3, <1>2 DEF CheckoutTimeout, Close
  <2>4. ASSUME NEW s \in Session, Execute(s)
        PROVE  Coherent(db, delta, locks)'
    BY <2>4, ExecuteStaysCoherent
  <2>5. ASSUME NEW s \in Session, Commit(s)
        PROVE  Coherent(db, delta, locks)'
    BY <2>5, <1>3 DEF Commit
  <2>6. ASSUME NEW s \in Session, CommitLost(s)
        PROVE  Coherent(db, delta, locks)'
    BY <2>6, <1>2, <1>3 DEF CommitLost
  <2> QED BY <2>1, <2>2, <2>3, <2>4, <2>5, <2>6
          DEF Next, Proceed, Driver, Handler, Dependency, AllDone
<1>5. /\ pc' \in [Session -> Places]
      /\ step' \in [Session -> Nat]
      /\ program' \in [Session -> Programs]
      /\ \A s \in Session : pc'[s] = "running" => step'[s] < Len(program'[s])
  <2>0. /\ pc \in [Session -> Places]
        /\ step \in [Session -> Nat]
        /\ program \in [Session -> Programs]
        /\ \A s \in Session : pc[s] = "running" => step[s] < Len(program[s])
    BY DEF IInv
  <2>1. CASE UNCHANGED vars
    BY <2>0, <2>1 DEF vars
  <2>2. ASSUME NEW s \in Session, NEW place \in Places \ {"running"}, Goto(s, place),
               UNCHANGED <<program, step>>
        PROVE  <1>5!1 /\ <1>5!2 /\ <1>5!3 /\ <1>5!4
    BY <2>0, <2>2 DEF Goto
  <2>3. ASSUME NEW s \in Session, Issue(s)
        PROVE  <1>5!1 /\ <1>5!2 /\ <1>5!3 /\ <1>5!4
    BY <2>0, <2>3 DEF Issue, Goto, Places
  <2>4. ASSUME NEW s \in Session, Execute(s)
        PROVE  <1>5!1 /\ <1>5!2 /\ <1>5!3 /\ <1>5!4
    <3>1. pc' = [pc EXCEPT ![s] = "open"] /\ step' = [step EXCEPT ![s] = @ + 1]
          /\ program' = program
      BY <2>4 DEF Execute, Goto
    <3> QED BY <2>0, <3>1 DEF Places
  <2>5. ASSUME NEW s \in Session, Proceed(s) \/ Cancel(s)
        PROVE  <1>5!1 /\ <1>5!2 /\ <1>5!3 /\ <1>5!4
    <3>1. \/ Issue(s)
          \/ Execute(s)
          \/ /\ \E place \in Places \ {"running"} : Goto(s, place)
             /\ UNCHANGED <<program, step>>
      BY <2>5 DEF Proceed, Cancel, Driver, Handler, Dependency, Checkout, CheckoutTimeout,
         Refuse, DeadlockAbort, Raise, Return, Commit, CommitLost, Close, End, Places
    <3> QED BY <3>1, <2>2, <2>3, <2>4
  <2> QED BY <2>1, <2>5 DEF Next, AllDone
<1>6. \A s \in Session : delta'[s].added \subseteq delta'[s].made
  <2>0. DOMAIN delta = Session /\ \A s \in Session : delta[s].added \subseteq delta[s].made
    BY DEF IInv, Coherent
  <2>1. CASE delta' = delta
    BY <2>0, <2>1
  <2>2. ASSUME NEW s \in Session, NEW now, delta' = [delta EXCEPT ![s] = now],
               now.added \subseteq now.made
        PROVE  \A o \in Session : delta'[o].added \subseteq delta'[o].made
    BY <2>0, <2>2
  <2>3. ASSUME NEW s \in Session, Execute(s)
        PROVE  \A o \in Session : delta'[o].added \subseteq delta'[o].made
    BY <2>0, <2>2, <2>3 DEF Execute
  <2>4. ASSUME NEW s \in Session, NEW told, End(s, told)
        PROVE  \A o \in Session : delta'[o].added \subseteq delta'[o].made
    BY <2>2, <2>4 DEF End, Clean
  <2>5. ASSUME NEW s \in Session, Proceed(s) \/ Cancel(s)
        PROVE  delta' = delta \/ Execute(s) \/ \E told : End(s, told)
    BY <2>5 DEF Proceed, Cancel, Driver, Handler, Dependency, Checkout, CheckoutTimeout,
       Issue, Refuse, DeadlockAbort, Raise, Return, Commit, CommitLost, Close
  <2> QED BY <2>1, <2>3, <2>4, <2>5 DEF Next, AllDone, vars
<1> QED BY <1>4, <1>5, <1>6 DEF IInv

(* The invariant holds for ever.                                           *)
THEOREM Invariance == Spec => []IInv
<1>1. Init => IInv
  BY InitCoherent
<1>2. IInv /\ [Next]_vars => IInv'
  BY NextStaysCoherent
<1> QED BY <1>1, <1>2, PTL DEF Spec

(* The committed database satisfies every NOT NULL, CHECK, UNIQUE and      *)
(* FOREIGN KEY at every moment, for any programs, any number of requests   *)
(* and any pool: no commit of get_session needs a check of its own.        *)
THEOREM CommitsKeepIntegrity == Spec => []CommittedIntegrity
<1>1. IInv => CommittedIntegrity
  BY DEF IInv, Coherent, CommittedIntegrity
<1> QED BY <1>1, Invariance, PTL

-----------------------------------------------------------------------------
(* The signing keys.                                                       *)

(* A row with a write lock stays in the view, whoever else commits.        *)
LEMMA LockedRowsStay ==
    ASSUME NEW d, NEW changes, NEW held, Coherent(d, changes, held),
           NEW s \in Session, NEW o \in Session \ {s}, NEW t \in Tables,
           NEW r \in ViewOf(d, changes[s])[t], Holds(held[s], Writing, t, r)
    PROVE  r \in ViewOf(ViewOf(d, changes[o]), changes[s])[t]
<1> DEFINE w == ViewOf(d, changes[o])
<1>1. CASE r \in RowsIn(changes[s].added, t)
  BY <1>1 DEF ViewOf
<1>2. CASE r \in d[t] /\ r \notin RowsIn(changes[s].removed, t)
  <2>1. Tracked(d, w, held[o]) /\ NoConflict(held[s], held[o])
    BY DEF Coherent
  <2>2. r \in w[t]
    BY <1>2, <2>1, WritersConflict DEF Tracked, WritesAreLocked
  <2> HIDE DEF w
  <2>3. r \in ViewOf(w, changes[s])[t]
    BY <1>2, <2>2 DEF ViewOf
  <2> QED BY <2>3 DEF w
<1> QED BY <1>1, <1>2 DEF ViewOf

(* Nothing refers to or from the signing keys.                             *)
LEMMA OtherStatementsKeepKeys ==
    ASSUME NEW v, IsDatabase(v), NEW st, IsStatement(st), st.table # "signing_keys"
    PROVE  Result(v, st)["signing_keys"] = v["signing_keys"]
<1> DEFINE t == "signing_keys"
<1>0. t \in Tables /\ Foreign(t) = {} /\ st.table \in Tables
  BY TableNames, Foreigns DEF IsStatement
<1>1. CASE st.op = "insert"
  <2>1. Result(v, st) = AfterInsert(v, st.table, st.row)
    BY <1>1 DEF Result
  <2>2. /\ \A r \in v[t] : r \in Result(v, st)[t]
        /\ \A r \in Result(v, st)[t] : r \in v[t]
    BY <1>0, <2>1, InsertedRows
  <2> QED BY <2>2
<1>2. CASE st.op = "update"
  <2>1. Result(v, st) = AfterUpdate(v, st.table, st.where, st.set)
    BY <1>2 DEF Result
  <2> QED BY <1>0, <2>1, UpdatedRows
<1>3. CASE st.op = "delete"
  <2> DEFINE own  == OnlyIn(st.table, Matching(v, st.table, st.where))
             gone == Doomed(v, st.table, Matching(v, st.table, st.where))
  <2>1. Result(v, st)[t] = {Detached(t, gone, r) : r \in v[t] \ gone[t]}
    BY <1>0, <1>3 DEF Result, AfterDelete
  <2>2. \A any : Orphans(v, "CASCADE", any, t) = {} /\ Orphans(v, "SET_NULL", any, t) = {}
    BY <1>0 DEF Orphans
  <2>3. \A any : Kids(v, any)[t] = {}
    BY <1>0, <2>2 DEF Kids
  <2>4. own[t] = {}
    BY <1>0 DEF OnlyIn
  <2>5. gone[t] = own[t] \cup Kids(v, own)[t] \cup Kids(v, Kids(v, own))[t]
    BY <1>0 DEF Doomed
  <2>6. gone[t] = {}
    BY <2>3, <2>4, <2>5
  <2> HIDE DEF own, gone
  <2>7. \A r \in v[t] : Detached(t, gone, r) = r
    BY <1>0, <2>2, DetachedRow DEF IsDatabase
  <2> QED BY <2>1, <2>6, <2>7
<1> QED BY <1>1, <1>2, <1>3 DEF IsStatement

(* The shape of the table of keys.                                         *)
LEMMA SigningKeysShape ==
    /\ "signing_keys" \in Tables
    /\ Columns("signing_keys") = {"kid", "status"}
    /\ Key("signing_keys") = {"kid"}
    /\ "status" \in NotNull("signing_keys")
    /\ OverWhere({"status"}, {<<"status", "active">>}) \in UniqueOn("signing_keys")
BY TableNames DEF Columns, Key, NotNull, UniqueOn, Schema, signing_keys, KeyUnique

(* The partial unique index admits one active key.                         *)
LEMMA AtMostOneActive ==
    ASSUME NEW d, Integrity(d), NEW r \in d["signing_keys"], NEW o \in d["signing_keys"],
           r["status"] = "active", o["status"] = "active"
    PROVE  r = o
<1> DEFINE u == OverWhere({"status"}, {<<"status", "active">>})
<1>1. u.cols = {"status"} /\ u.where = {<<"status", "active">>}
  BY DEF OverWhere
<1>2. r["status"] # NULL
  BY SigningKeysShape DEF Integrity, RowsAllowed, RowAllowed
<1>3. u \in UniqueOn("signing_keys")
  BY SigningKeysShape
<1> HIDE DEF u
<1>4. Indexed(u, r) /\ Indexed(u, o)
  BY <1>1 DEF Indexed
<1>5. Clash(u, r, o)
  BY <1>1, <1>2, <1>4 DEF Clash
<1> QED BY <1>3, <1>5, SigningKeysShape DEF Integrity, UniqueHolds

(* The key with that kid is active and locked.                             *)
InHand(v, ls, kid) ==
    \E r \in v["signing_keys"] : /\ r["status"] = "active"
                                 /\ r["kid"] = kid
                                 /\ Holds(ls, Writing, "signing_keys", r)

(* Every promotion among the first n statements holds.                     *)
PromotionsHold(v, ls, p, n) ==
    \A j \in DOMAIN p : j <= n /\ Promotes(p, j) => InHand(v, ls, p[j].where["kid"])

(* A statement that activates a key has it in hand.                        *)
LEMMA ActivatedKeyIsInHand ==
    ASSUME NEW v, IsDatabase(v), NEW st, IsStatement(st), Activates(st), Hits(v, st),
           NEW ls, LocksOf(v, st) \subseteq ls
    PROVE  InHand(Result(v, st), ls, st.where["kid"])
<1> DEFINE t == "signing_keys"
<1>1. /\ st.op = "update" /\ st.table = t /\ "kid" \in DOMAIN st.where
      /\ "kid" \notin DOMAIN st.set
      /\ "status" \in DOMAIN st.set /\ st.set["status"] = "active"
  BY DEF Activates
<1>2. PICK r \in Matching(v, t, st.where) : TRUE
  BY <1>1 DEF Hits
<1>3. r \in v[t] /\ r["kid"] = st.where["kid"]
  BY <1>1, <1>2 DEF Matching
<1>4. DOMAIN r = {"kid", "status"}
  BY <1>3, SigningKeysShape DEF IsDatabase, RowsOf
<1> DEFINE b == Patched(r, st.set)
<1>5. b["status"] = "active" /\ b["kid"] = r["kid"]
  BY <1>1, <1>4 DEF Patched
<1>6. UpdatedRow(v, t, st.where, st.set, r) = b
  BY DEF UpdatedRow
<1>7. b \in Result(v, st)[t]
  BY <1>1, <1>3, <1>6, SigningKeysShape, UpdatedRows DEF Result
<1>8. Holds(LocksOf(v, st), Writing, t, r)
  BY <1>1, SigningKeysShape, UpdateLocking DEF LocksOf
<1> HIDE DEF b
<1>9. Agree(Key(t), r, b)
  BY <1>5, SigningKeysShape DEF Agree
<1>10. Holds(LocksOf(v, st), Writing, t, b)
  BY <1>8, <1>9, HoldsAlike
<1>11. Holds(ls, Writing, t, b)
  BY <1>10 DEF Holds
<1> QED BY <1>3, <1>5, <1>7, <1>11 DEF InHand

(* A statement that spares it leaves it so.                                *)
LEMMA SparedKeyStaysInHand ==
    ASSUME NEW v, IsDatabase(v), NEW st, IsStatement(st), NEW kid, SparesKey(st, kid),
           NEW ls, InHand(v, ls, kid), NEW ms, ls \subseteq ms
    PROVE  InHand(Result(v, st), ms, kid)
<1> DEFINE t == "signing_keys"
<1>1. PICK r \in v[t] : r["status"] = "active" /\ r["kid"] = kid /\ Holds(ls, Writing, t, r)
  BY DEF InHand
<1>2. Holds(ms, Writing, t, r)
  BY <1>1 DEF Holds
<1>3. t \in Tables /\ Foreign(t) = {}
  BY SigningKeysShape, Foreigns
<1>4. r \in Result(v, st)[t]
  <2>1. CASE st.table # t
    BY <2>1, OtherStatementsKeepKeys
  <2>2. CASE st.table = t /\ st.op = "insert"
    <3>1. Result(v, st) = AfterInsert(v, t, st.row)
      BY <2>2 DEF Result
    <3> QED BY <1>3, <3>1, InsertedRows
  <2>3. ASSUME st.table = t, st.op # "insert"
        PROVE  r \notin Matching(v, t, st.where)
    <3>1. "kid" \in DOMAIN st.where /\ st.where["kid"] # kid
      BY <2>3 DEF SparesKey
    <3> QED BY <1>1, <3>1 DEF Matching
  <2>4. CASE st.table = t /\ st.op = "update"
    <3>1. Result(v, st) = AfterUpdate(v, t, st.where, st.set)
      BY <2>4 DEF Result
    <3>2. UpdatedRow(v, t, st.where, st.set, r) = r
      BY <2>3, <2>4 DEF UpdatedRow
    <3>3. UpdatedRow(v, t, st.where, st.set, r) \in AfterUpdate(v, t, st.where, st.set)[t]
      BY <1>3, UpdatedRows
    <3> QED BY <3>1, <3>2, <3>3
  <2>5. CASE st.table = t /\ st.op = "delete"
    <3> DEFINE hit  == Matching(v, t, st.where)
               gone == Doomed(v, t, hit)
    <3>1. Result(v, st)[t] = {Detached(t, gone, o) : o \in v[t] \ gone[t]}
      BY <1>3, <2>5 DEF Result, AfterDelete
    <3>2. \A any : Kids(v, any)[t] = {}
      BY <1>3 DEF Kids, Orphans
    <3>3. OnlyIn(t, hit)[t] = hit
      BY <1>3 DEF OnlyIn
    <3>4. gone[t] = OnlyIn(t, hit)[t] \cup Kids(v, OnlyIn(t, hit))[t]
                      \cup Kids(v, Kids(v, OnlyIn(t, hit)))[t]
      BY <1>3 DEF Doomed
    <3>5. gone[t] = hit
      BY <3>2, <3>3, <3>4
    <3>6. r \notin hit
      BY <2>3, <2>5
    <3> HIDE DEF hit, gone
    <3>7. r \in RowsOf(t)
      BY <1>3 DEF IsDatabase
    <3>8. r \notin Orphans(v, "SET_NULL", gone, t)
      BY <1>3 DEF Orphans
    <3>9. Detached(t, gone, r) = r
      BY <1>3, <3>7, <3>8, DetachedRow
    <3> QED BY <3>1, <3>5, <3>6, <3>9
  <2> QED BY <2>1, <2>2, <2>4, <2>5 DEF IsStatement
<1> QED BY <1>1, <1>2, <1>4 DEF InHand

(* A statement and the promotions before and at it.                        *)
LEMMA StatementKeepsPromotions ==
    ASSUME NEW p \in Programs, NEW n \in Nat, n < Len(p),
           NEW v, IsDatabase(v), Hits(v, p[n + 1]),
           NEW ls, PromotionsHold(v, ls, p, n)
    PROVE  PromotionsHold(Result(v, p[n + 1]), ls \cup LocksOf(v, p[n + 1]), p, n + 1)
<1> DEFINE st == p[n + 1]
           ms == ls \cup LocksOf(v, st)
<1>0. DOMAIN p = 1..Len(p) /\ Len(p) \in Nat
  <2>1. p \in Seq({p[i] : i \in DOMAIN p})
    BY ProgramsAreStatements
  <2> QED BY <2>1
<1>1. IsStatement(st)
  BY NextIsStatement
<1>2. ls \subseteq ms /\ LocksOf(v, st) \subseteq ms
  OBVIOUS
<1>3. n + 1 \in DOMAIN p
  BY <1>0
<1> SUFFICES ASSUME NEW j \in DOMAIN p, j <= n + 1, Promotes(p, j)
             PROVE  InHand(Result(v, st), ms, p[j].where["kid"])
  BY DEF PromotionsHold
<1>4. CASE j = n + 1
  <2>1. Activates(st)
    BY <1>4 DEF Promotes
  <2> HIDE DEF st, ms
  <2>2. InHand(Result(v, st), ms, st.where["kid"])
    BY <1>1, <1>2, <2>1, ActivatedKeyIsInHand DEF st
  <2> QED BY <1>4, <2>2 DEF st
<1>5. CASE j <= n
  <2>1. InHand(v, ls, p[j].where["kid"])
    BY <1>5 DEF PromotionsHold
  <2>2. SparesKey(st, p[j].where["kid"])
    BY <1>0, <1>3, <1>5 DEF Promotes
  <2> HIDE DEF st, ms
  <2> QED BY <1>1, <1>2, <2>1, <2>2, SparedKeyStaysInHand
<1> QED BY <1>0, <1>4, <1>5

(* What has not been committed of the keys, while requests are under way.  *)
Underway == {"open", "running", "committing"}

KeysInv ==
    /\ \E k \in db["signing_keys"] : k["status"] = "active"
    /\ \A s \in Session :
          NoKeyTouched(program[s]) => /\ RowsIn(delta[s].added, "signing_keys") = {}
                                      /\ RowsIn(delta[s].removed, "signing_keys") = {}
    /\ \A s \in Session : pc[s] \in Underway =>
          PromotionsHold(ViewOf(db, delta[s]), locks[s], program[s], step[s])
    /\ \A s \in Session : pc[s] = "new" => step[s] = 0
    /\ \A s \in Session : pc[s] = "committing" => step[s] = Len(program[s])

(* It holds before the first request, whose initial state has a key.       *)
LEMMA InitKeys ==
    ASSUME RotationsPromote, Init
    PROVE  KeysInv
<1>1. \A s \in Session : pc[s] = "new" /\ delta[s] = Clean
  BY DEF Init
<1>2. \A t : RowsIn(Clean.added, t) = {} /\ RowsIn(Clean.removed, t) = {}
  BY DEF Clean, RowsIn
<1> QED BY <1>1, <1>2 DEF KeysInv, RotationsPromote, Init, AbstractInit, Underway

(* Who commits hands an active key on.                                     *)
LEMMA CommitsAnActiveKey ==
    ASSUME RotationsPromote, IInv, KeysInv, NEW s \in Session, pc[s] = "committing"
    PROVE  \E k \in View(s)["signing_keys"] : k["status"] = "active"
<1>1. program[s] \in Programs /\ step[s] = Len(program[s])
  BY DEF IInv, KeysInv
<1>2. CASE NoKeyTouched(program[s])
  <2>1. RowsIn(delta[s].added, "signing_keys") = {} /\ RowsIn(delta[s].removed, "signing_keys") = {}
    BY <1>2 DEF KeysInv
  <2>2. View(s)["signing_keys"] = db["signing_keys"]
    BY <2>1, SigningKeysShape DEF View
  <2> QED BY <2>2 DEF KeysInv
<1>3. ASSUME NEW j \in DOMAIN program[s], Promotes(program[s], j)
      PROVE  \E k \in View(s)["signing_keys"] : k["status"] = "active"
  <2>1. program[s] \in Seq({program[s][i] : i \in DOMAIN program[s]})
    BY <1>1, ProgramsAreStatements
  <2>2. j <= step[s]
    BY <1>1, <2>1
  <2>3. PromotionsHold(View(s), locks[s], program[s], step[s])
    BY ViewIsViewOf DEF KeysInv, Underway
  <2>4. InHand(View(s), locks[s], program[s][j].where["kid"])
    BY <1>3, <2>2, <2>3 DEF PromotionsHold
  <2> QED BY <2>4 DEF InHand
<1> QED BY <1>1, <1>2, <1>3 DEF RotationsPromote

(* A step that only moves a request on.                                    *)
LEMMA MovingOnKeepsKeys ==
    ASSUME IInv, KeysInv, NEW s \in Session, NEW place \in Places \ {"new"}, Goto(s, place),
           UNCHANGED <<db, program, step, delta, locks>>,
           place \in Underway => pc[s] \in Underway \cup {"new"},
           place = "committing" => step[s] = Len(program[s])
    PROVE  KeysInv'
<1>1. pc' = [pc EXCEPT ![s] = place] /\ pc \in [Session -> Places] /\ step \in [Session -> Nat]
  BY DEF Goto, IInv
<1>2. \A o \in Session : pc'[o] = IF o = s THEN place ELSE pc[o]
  BY <1>1
<1>3. ASSUME NEW o \in Session, pc'[o] \in Underway
      PROVE  PromotionsHold(ViewOf(db, delta[o]), locks[o], program[o], step[o])
  <2>1. CASE pc[o] \in Underway
    BY <2>1 DEF KeysInv
  <2>2. CASE pc[o] = "new"
    <3>1. step[o] = 0
      BY <2>2 DEF KeysInv
    <3>2. program[o] \in Seq({program[o][i] : i \in DOMAIN program[o]})
      BY ProgramsAreStatements DEF IInv
    <3> QED BY <3>1, <3>2 DEF PromotionsHold
  <2> QED BY <1>2, <1>3, <2>1, <2>2
<1>4. \A o \in Session : pc'[o] = "new" => step[o] = 0
  BY <1>2 DEF KeysInv
<1>5. \A o \in Session : pc'[o] = "committing" => step[o] = Len(program[o])
  BY <1>2 DEF KeysInv
<1> QED BY <1>3, <1>4, <1>5 DEF KeysInv

(* A statement.                                                            *)
LEMMA ExecuteKeepsKeys ==
    ASSUME IInv, KeysInv, NEW s \in Session, Execute(s)
    PROVE  KeysInv'
<1> DEFINE p  == program[s]
           k  == step[s]
           v  == View(s)
           st == p[k + 1]
           n  == Result(v, st)
           now == [added   |-> Beyond(n, db),
                   removed |-> Beyond(db, n),
                   made    |-> delta[s].made \cup Beyond(n, db)]
<1>1. /\ pc[s] = "running" /\ Hits(v, st)
      /\ delta' = [delta EXCEPT ![s] = now]
      /\ locks' = [locks EXCEPT ![s] = @ \cup LocksOf(v, st)]
      /\ step' = [step EXCEPT ![s] = @ + 1]
      /\ pc' = [pc EXCEPT ![s] = "open"]
      /\ db' = db /\ program' = program
  BY DEF Execute, Succeeds, Statement, Goto
<1>2. /\ p \in Programs /\ k \in Nat /\ k < Len(p)
      /\ DOMAIN delta = Session /\ DOMAIN locks = Session
      /\ step \in [Session -> Nat] /\ pc \in [Session -> Places]
      /\ IsDatabase(db) /\ Tracked(db, ViewOf(db, delta[s]), locks[s])
  BY <1>1 DEF IInv, Coherent
<1>3. v = ViewOf(db, delta[s]) /\ IsDatabase(v)
  BY <1>2, ViewIsViewOf DEF Tracked
<1>4. IsStatement(st)
  BY <1>2, NextIsStatement
<1>5. IsDatabase(n)
  BY <1>3, <1>4, ResultTyped
<1> HIDE DEF n
<1>6. ViewOf(db, now) = n
  BY <1>5, ViewOfBeyond
<1>7. PromotionsHold(v, locks[s], p, k)
  BY <1>1, <1>3 DEF KeysInv, Underway
<1>8. PromotionsHold(n, locks[s] \cup LocksOf(v, st), p, k + 1)
  <2> HIDE DEF v, p, k
  <2> QED BY <1>1, <1>2, <1>3, <1>7, StatementKeepsPromotions DEF n
<1>9. ASSUME NoKeyTouched(p)
      PROVE  /\ RowsIn(now.added, "signing_keys") = {}
             /\ RowsIn(now.removed, "signing_keys") = {}
  <2>1. p \in Seq({p[i] : i \in DOMAIN p})
    BY <1>2, ProgramsAreStatements
  <2>2. k + 1 \in DOMAIN p
    BY <1>2, <2>1
  <2>3. st.table # "signing_keys"
    BY <1>9, <2>2 DEF NoKeyTouched
  <2>4. n["signing_keys"] = v["signing_keys"]
    BY <1>3, <1>4, <2>3, OtherStatementsKeepKeys DEF n
  <2>5. v["signing_keys"] = db["signing_keys"]
    BY <1>3, <1>9, SigningKeysShape DEF KeysInv, ViewOf
  <2>6. /\ RowsIn(now.added, "signing_keys") = n["signing_keys"] \ db["signing_keys"]
        /\ RowsIn(now.removed, "signing_keys") = db["signing_keys"] \ n["signing_keys"]
    BY RowsBeyond, SigningKeysShape
  <2> QED BY <2>4, <2>5, <2>6
<1> HIDE DEF now
<1>10. /\ delta'[s] = now /\ locks'[s] = locks[s] \cup LocksOf(v, st) /\ step'[s] = k + 1
       /\ pc'[s] = "open"
       /\ \A o \in Session \ {s} : /\ delta'[o] = delta[o] /\ locks'[o] = locks[o]
                                   /\ step'[o] = step[o] /\ pc'[o] = pc[o]
  BY <1>1, <1>2
<1>11. ASSUME NEW o \in Session, pc'[o] \in Underway
       PROVE  PromotionsHold(ViewOf(db', delta'[o]), locks'[o], program'[o], step'[o])
  <2>1. CASE o = s
    BY <2>1, <1>1, <1>6, <1>8, <1>10
  <2>2. CASE o # s
    BY <2>2, <1>1, <1>10, <1>11 DEF KeysInv
  <2> QED BY <2>1, <2>2
<1>12. \A o \in Session : NoKeyTouched(program'[o]) =>
          RowsIn(delta'[o].added, "signing_keys") = {} /\ RowsIn(delta'[o].removed, "signing_keys") = {}
  BY <1>1, <1>9, <1>10 DEF KeysInv
<1>13. /\ \A o \in Session : pc'[o] = "new" => step'[o] = 0
       /\ \A o \in Session : pc'[o] = "committing" => step'[o] = Len(program'[o])
  BY <1>1, <1>10 DEF KeysInv
<1> QED BY <1>1, <1>11, <1>12, <1>13 DEF KeysInv

(* The end of a request, with or without its changes.                      *)
LEMMA EndKeepsKeys ==
    ASSUME RotationsPromote, IInv, KeysInv, NEW s \in Session, NEW told, End(s, told),
           UNCHANGED <<program, step>>,
           db' = db \/ (pc[s] = "committing" /\ db' = View(s))
    PROVE  KeysInv'
<1>1. /\ pc' = [pc EXCEPT ![s] = "done"]
      /\ delta' = [delta EXCEPT ![s] = Clean]
      /\ locks' = [locks EXCEPT ![s] = {}]
      /\ program' = program /\ step' = step
  BY DEF End, Goto
<1>2. pc \in [Session -> Places] /\ Coherent(db, delta, locks)
  BY DEF IInv
<1>3. /\ pc'[s] = "done" /\ delta'[s] = Clean
      /\ \A o \in Session \ {s} : pc'[o] = pc[o] /\ delta'[o] = delta[o] /\ locks'[o] = locks[o]
  BY <1>1, <1>2 DEF Coherent
<1>4. \E k \in db'["signing_keys"] : k["status"] = "active"
  BY CommitsAnActiveKey DEF KeysInv
<1>5. \A o \in Session : NoKeyTouched(program'[o]) =>
          RowsIn(delta'[o].added, "signing_keys") = {} /\ RowsIn(delta'[o].removed, "signing_keys") = {}
  <2>1. RowsIn(Clean.added, "signing_keys") = {} /\ RowsIn(Clean.removed, "signing_keys") = {}
    BY DEF Clean, RowsIn
  <2> QED BY <1>1, <1>3, <2>1 DEF KeysInv
<1>6. ASSUME NEW o \in Session, pc'[o] \in Underway
      PROVE  PromotionsHold(ViewOf(db', delta'[o]), locks'[o], program'[o], step'[o])
  <2>1. o # s
    BY <1>3, <1>6 DEF Underway
  <2>2. PromotionsHold(ViewOf(db, delta[o]), locks[o], program[o], step[o])
    BY <1>3, <1>6, <2>1 DEF KeysInv
  <2>3. CASE db' = db
    BY <1>1, <1>3, <2>1, <2>2, <2>3
  <2>4. CASE db' = View(s)
    <3>1. db' = ViewOf(db, delta[s])
      BY <2>4, ViewIsViewOf
    <3>2. ASSUME NEW r \in ViewOf(db, delta[o])["signing_keys"],
                 Holds(locks[o], Writing, "signing_keys", r)
          PROVE  r \in ViewOf(ViewOf(db, delta[s]), delta[o])["signing_keys"]
      BY <1>2, <2>1, <3>2, LockedRowsStay, SigningKeysShape
    <3>3. PromotionsHold(ViewOf(ViewOf(db, delta[s]), delta[o]), locks[o], program[o], step[o])
      BY <2>2, <3>2 DEF PromotionsHold, InHand
    <3> QED BY <1>1, <1>3, <2>1, <3>1, <3>3
  <2> QED BY <2>3, <2>4
<1>7. /\ \A o \in Session : pc'[o] = "new" => step'[o] = 0
      /\ \A o \in Session : pc'[o] = "committing" => step'[o] = Len(program'[o])
  BY <1>1, <1>3 DEF KeysInv
<1> QED BY <1>4, <1>5, <1>6, <1>7 DEF KeysInv

(* Every step of a request keeps it.                                       *)
LEMMA NextKeepsKeys ==
    ASSUME RotationsPromote, IInv, KeysInv, [Next]_vars
    PROVE  KeysInv'
<1>1. CASE UNCHANGED vars
  BY <1>1 DEF vars, KeysInv
<1>2. ASSUME NEW s \in Session, Checkout(s) \/ Refuse(s) \/ DeadlockAbort(s) \/ Issue(s)
                \/ Raise(s) \/ Return(s) \/ Cancel(s)
      PROVE  KeysInv'
  <2>1. UNCHANGED <<db, program, step, delta, locks>>
    BY <1>2 DEF Checkout, Refuse, DeadlockAbort, Issue, Raise, Return, Cancel
  <2>2. \E place \in Places \ {"new"} :
           /\ Goto(s, place)
           /\ place \in Underway => pc[s] \in Underway \cup {"new"}
           /\ place = "committing" => step[s] = Len(program[s])
    BY <1>2 DEF Checkout, Refuse, DeadlockAbort, Issue, Raise, Return, Cancel, Places, Underway
  <2> QED BY <2>1, <2>2, MovingOnKeepsKeys
<1>3. ASSUME NEW s \in Session, Execute(s)
      PROVE  KeysInv'
  BY <1>3, ExecuteKeepsKeys
<1>4. ASSUME NEW s \in Session, CheckoutTimeout(s) \/ Commit(s) \/ CommitLost(s) \/ Close(s)
      PROVE  KeysInv'
  <2>1. /\ UNCHANGED <<program, step>>
        /\ db' = db \/ (pc[s] = "committing" /\ db' = View(s))
        /\ \E told \in {"committed", "failed"} : End(s, told)
    BY <1>4 DEF CheckoutTimeout, Commit, CommitLost, Close
  <2> QED BY <2>1, EndKeepsKeys
<1> QED BY <1>1, <1>2, <1>3, <1>4 DEF Next, Proceed, Driver, Handler, Dependency, AllDone

(* However promotions and retirements of signing keys overlap, whichever   *)
(* fail, are cancelled or lose their answer, exactly one key is active     *)
(* after every commit, if each of them leaves one active in its own view.  *)
THEOREM RotationsKeepOneKey ==
    ASSUME RotationsPromote
    PROVE  Spec => []ExactlyOneActiveKey
<1>1. Init => KeysInv
  BY InitKeys
<1>2. IInv /\ KeysInv /\ [Next]_vars => KeysInv'
  BY NextKeepsKeys
<1>3. IInv /\ KeysInv => ExactlyOneActiveKey
  <2> SUFFICES ASSUME IInv, KeysInv
               PROVE  ExactlyOneActiveKey
    OBVIOUS
  <2>1. PICK k \in db["signing_keys"] : k["status"] = "active"
    BY DEF KeysInv
  <2>2. Integrity(db)
    BY DEF IInv, Coherent
  <2>3. {r \in db["signing_keys"] : r.status = "active"} = {k}
    BY <2>1, <2>2, AtMostOneActive
  <2> QED BY <2>1, <2>3 DEF ExactlyOneActiveKey
<1> QED BY <1>1, <1>2, <1>3, Invariance, PTL DEF Spec

-----------------------------------------------------------------------------
(* Serial order.                                                           *)

(* Two open transactions with their accounts, neither in the other's way.  *)
Beside(d, v, ls, w, ms) ==
    /\ IsDatabase(d) /\ Integrity(d)
    /\ Tracked(d, v, ls) /\ Tracked(d, w, ms)
    /\ NoConflict(ls, ms) /\ NoClash(d, v, w)

(* What a transaction that sees v of d sees when another has made w of d.  *)
Merged(d, v, w) == [t \in Tables |-> (w[t] \ (d[t] \ v[t])) \cup (v[t] \ d[t])]

(* Its changes are the same, and its account holds of the new database.    *)
LEMMA MergedIsTracked ==
    ASSUME NEW d, NEW v, NEW ls, NEW w, NEW ms, Beside(d, v, ls, w, ms)
    PROVE  /\ Tracked(w, Merged(d, v, w), ls)
           /\ \A t \in Tables : Merged(d, v, w)[t] \ w[t] = v[t] \ d[t]
<1> DEFINE m == Merged(d, v, w)
<1>1. \A t \in Tables : m[t] = (w[t] \ (d[t] \ v[t])) \cup (v[t] \ d[t])
  BY DEF Merged
<1>2. m = [t \in Tables |-> m[t]]
  BY DEF Merged
<1>3. IsDatabase(v) /\ IsDatabase(w)
  BY DEF Beside, Tracked
<1> HIDE DEF m
<1>4. IsDatabase(m)
  BY <1>1, <1>2, <1>3 DEF IsDatabase
<1>5. Tracked(w, m, ls)
  BY <1>1, <1>4, MergeKeepsTrack DEF Beside
<1>6. \A t \in Tables : m[t] \ w[t] = v[t] \ d[t]
  BY <1>1, MergedChanges DEF Beside
<1> QED BY <1>5, <1>6 DEF m

(* A transaction's rows are none of those the other added, and a row it    *)
(* holds stays when the other commits.                                     *)
LEMMA RowsStay ==
    ASSUME NEW d, NEW v, NEW ls, NEW w, NEW ms, Beside(d, v, ls, w, ms),
           NEW t \in Tables, NEW r \in v[t]
    PROVE  /\ r \in d[t] \/ r \notin w[t]
           /\ r \in Merged(d, v, w)[t] <=> r \notin d[t] \/ r \in w[t]
           /\ Holds(ls, Writing, t, r) => r \in Merged(d, v, w)[t]
<1>1. r \in d[t] \/ r \notin w[t]
  BY MergedChanges DEF Beside
<1>2. r \in Merged(d, v, w)[t] <=> r \notin d[t] \/ r \in w[t]
  BY <1>1 DEF Merged
<1>3. Holds(ls, Writing, t, r) /\ r \in d[t] => r \in w[t]
  BY WritersConflict DEF Beside, Tracked, WritesAreLocked
<1> QED BY <1>1, <1>2, <1>3

(* What else is there then, the other has added.                           *)
LEMMA NewRows ==
    ASSUME NEW d, NEW v, NEW ls, NEW w, NEW ms, Beside(d, v, ls, w, ms),
           NEW t \in Tables, NEW r, r \notin v[t]
    PROVE  r \in Merged(d, v, w)[t] <=> r \in w[t] /\ r \notin d[t]
BY DEF Merged

(* A row of d that the transaction has removed, the other still has.       *)
LEMMA RemovedRowsRemain ==
    ASSUME NEW d, NEW v, NEW ls, NEW w, NEW ms, Beside(d, v, ls, w, ms),
           NEW t \in Tables, NEW r \in d[t], r \notin v[t]
    PROVE  r \in w[t]
BY MergedChanges DEF Beside

(* A WHERE clause that names the whole primary key finds one row.          *)
LEMMA NamedRow ==
    ASSUME NEW v, Integrity(v), NEW t \in Tables, NEW where, Key(t) \subseteq DOMAIN where,
           NEW r \in Matching(v, t, where)
    PROVE  Matching(v, t, where) = {r}
<1>1. ASSUME NEW o \in Matching(v, t, where)
      PROVE  o = r
  <2>1. Agree(Key(t), o, r)
    BY DEF Agree, Matching
  <2> QED BY <2>1, SameKeySameRow DEF Matching
<1> QED BY <1>1

(* What an UPDATE of one row leaves.                                       *)
LEMMA OneRowUpdated ==
    ASSUME NEW v, IsDatabase(v), Integrity(v), NEW t \in Tables, NEW where, NEW set,
           Key(t) \subseteq DOMAIN where, NEW r \in Matching(v, t, where)
    PROVE  /\ \A x \in Tables : x # t => AfterUpdate(v, t, where, set)[x] = v[x]
           /\ \A o : o \in AfterUpdate(v, t, where, set)[t]
                        <=> o = Patched(r, set) \/ (o \in v[t] /\ o # r)
<1>1. r \in v[t] /\ \A o \in v[t] : o \in Matching(v, t, where) <=> o = r
  BY NamedRow DEF Matching
<1>2. UpdatedRow(v, t, where, set, r) = Patched(r, set)
  BY <1>1 DEF UpdatedRow
<1>3. \A o \in v[t] : o # r => UpdatedRow(v, t, where, set, o) = o
  BY <1>1 DEF UpdatedRow
<1> QED BY <1>1, <1>2, <1>3, UpdatedRows

(* An INSERT that went before does the same after the other's commit.      *)
LEMMA InsertMerges ==
    ASSUME NEW d, NEW v, NEW ls, NEW w, NEW ms, Beside(d, v, ls, w, ms),
           NEW t \in Tables, NEW r, InsertOK(v, t, r),
           NEW n, n = AfterInsert(v, t, r), Beside(d, n, ls, w, ms)
    PROVE  /\ InsertOK(Merged(d, v, w), t, r)
           /\ AfterInsert(Merged(d, v, w), t, r) = Merged(d, n, w)
<1> DEFINE m == Merged(d, v, w)
           k == Merged(d, n, w)
<1>0. IsDatabase(m) /\ IsDatabase(k) /\ Integrity(m) /\ Integrity(k)
      /\ IsDatabase(v) /\ IsDatabase(n) /\ Integrity(v) /\ Integrity(n)
  BY MergedIsTracked DEF Tracked, Beside
<1>1. /\ n[t] = v[t] \cup {r}
      /\ \A x \in Tables : x # t => n[x] = v[x]
  BY <1>0 DEF AfterInsert, IsDatabase
<1>2. r \notin v[t]
  <2>1. SUFFICES ASSUME r \in v[t]
                 PROVE  FALSE
    OBVIOUS
  <2>2. RowAllowed(t, r) /\ Agree(Key(t), r, r)
    BY DEF InsertOK, Agree
  <2> QED BY <2>1, <2>2, KeysClash DEF InsertOK
<1>3. r \notin m[t] /\ r \in k[t]
  <2>1. r \in n[t]
    BY <1>1
  <2>2. r \in d[t] \/ r \notin w[t]
    BY <2>1, RowsStay
  <2>3. r \in k[t] <=> r \notin d[t] \/ r \in w[t]
    BY <2>1, RowsStay
  <2>4. r \in m[t] <=> r \in w[t] /\ r \notin d[t]
    BY <1>2, NewRows
  <2>5. r \in d[t] => r \in w[t]
    BY <1>2, RemovedRowsRemain
  <2> QED BY <2>2, <2>3, <2>4, <2>5
<1>4. ASSUME NEW x \in Tables, NEW o, x # t \/ o # r
      PROVE  o \in m[x] <=> o \in k[x]
  <2>1. o \in v[x] <=> o \in n[x]
    BY <1>1, <1>4
  <2> QED BY <2>1 DEF Merged
<1> HIDE DEF m, k
<1>5. \A x \in Tables : AfterInsert(m, t, r)[x] = k[x]
  <2> SUFFICES ASSUME NEW x \in Tables
               PROVE  AfterInsert(m, t, r)[x] = k[x]
    OBVIOUS
  <2>1. CASE x = t
    <3>1. AfterInsert(m, t, r)[x] = m[t] \cup {r}
      BY <1>0, <2>1 DEF AfterInsert, IsDatabase
    <3> QED BY <3>1, <2>1, <1>3, <1>4
  <2>2. CASE x # t
    <3>1. AfterInsert(m, t, r)[x] = m[x]
      BY <1>0, <2>2 DEF AfterInsert, IsDatabase
    <3> QED BY <3>1, <2>2, <1>4
  <2> QED BY <2>1, <2>2
<1>6. AfterInsert(m, t, r) = k
  <2>1. AfterInsert(m, t, r) = [x \in Tables |-> AfterInsert(m, t, r)[x]]
    BY <1>0 DEF AfterInsert, IsDatabase
  <2>2. k = [x \in Tables |-> k[x]]
    BY <1>0 DEF IsDatabase
  <2> QED BY <2>1, <2>2, <1>5
<1>7. InsertOK(m, t, r)
  <2>1. RowAllowed(t, r)
    BY DEF InsertOK
  <2>2. ASSUME NEW u \in UniqueOn(t), NEW o \in m[t], Clash(u, r, o)
        PROVE  FALSE
    <3>1. o \in k[t] /\ o # r
      BY <1>3, <1>4
    <3> QED BY <3>1, <2>2, <1>0, <1>3 DEF Integrity, UniqueHolds
  <2>3. \A f \in Foreign(t) : HasParent(AfterInsert(m, t, r), f, r)
    BY <1>0, <1>3, <1>6 DEF Integrity, ForeignHolds
  <2> QED BY <2>1, <2>2, <2>3 DEF InsertOK
<1> QED BY <1>6, <1>7 DEF m, k

(* So does an UPDATE that names its row.                                   *)
LEMMA UpdateMerges ==
    ASSUME NEW d, NEW v, NEW ls, NEW w, NEW ms, Beside(d, v, ls, w, ms),
           NEW t \in Tables, NEW where, NEW set, Key(t) \subseteq DOMAIN where,
           UpdateOK(v, t, where, set),
           NEW r \in Matching(v, t, where), Holds(ls, Writing, t, r),
           NEW n, n = AfterUpdate(v, t, where, set), Beside(d, n, ls, w, ms)
    PROVE  /\ Matching(Merged(d, v, w), t, where) = {r}
           /\ UpdateOK(Merged(d, v, w), t, where, set)
           /\ AfterUpdate(Merged(d, v, w), t, where, set) = Merged(d, n, w)
<1> DEFINE m == Merged(d, v, w)
           k == Merged(d, n, w)
           p == Patched(r, set)
<1>0. /\ IsDatabase(m) /\ IsDatabase(k) /\ Integrity(m) /\ Integrity(k)
      /\ IsDatabase(v) /\ IsDatabase(n) /\ Integrity(v) /\ Integrity(n)
  BY MergedIsTracked DEF Tracked, Beside
<1>1. Matching(v, t, where) = {r} /\ r \in v[t]
  BY <1>0, NamedRow DEF Matching
<1>2. /\ \A x \in Tables : x # t => n[x] = v[x]
      /\ \A o : o \in n[t] <=> o = p \/ (o \in v[t] /\ o # r)
  BY <1>0, OneRowUpdated
<1>3. r \in m[t]
  BY <1>1, RowsStay
<1>4. Matching(m, t, where) = {r}
  <2>1. r \in Matching(m, t, where)
    BY <1>3 DEF Matching
  <2> HIDE DEF m
  <2> QED BY <2>1, <1>0, NamedRow
<1> HIDE DEF m, k
<1>5. /\ \A x \in Tables : x # t => AfterUpdate(m, t, where, set)[x] = m[x]
      /\ \A o : o \in AfterUpdate(m, t, where, set)[t] <=> o = p \/ (o \in m[t] /\ o # r)
  <2>1. r \in Matching(m, t, where)
    BY <1>4
  <2> QED BY <1>0, <2>1, OneRowUpdated
<1> USE DEF m, k
<1>6. RowAllowed(t, p)
  BY <1>1 DEF UpdateOK
<1>7. p \in v[t] => p = r
  <2>1. SUFFICES ASSUME p \in v[t], p # r
                 PROVE  FALSE
    OBVIOUS
  <2>2. UpdatedRow(v, t, where, set, p) = p
    BY <2>1, <1>1 DEF UpdatedRow
  <2>3. Over(Key(t)) \in UniqueOn(t) /\ Clash(Over(Key(t)), p, p)
    BY <1>6, KeysClash DEF Agree
  <2> QED BY <2>1, <2>2, <2>3, <1>1 DEF UpdateOK
<1>8. p \in k[t]
  <2>1. p \in n[t]
    BY <1>2
  <2>2. p \in k[t] <=> p \notin d[t] \/ p \in w[t]
    BY <2>1, RowsStay
  <2>3. CASE p \in v[t]
    <3>1. r \in k[t] <=> r \in m[t]
      BY <2>3, <1>7, <1>2, RowsStay, <1>1
    <3> QED BY <3>1, <2>3, <1>7, <1>3
  <2>4. CASE p \notin v[t]
    BY <2>2, <2>4, RemovedRowsRemain
  <2> QED BY <2>3, <2>4
<1>9. r # p => r \notin k[t]
  <2>1. r \notin n[t] <=> r # p
    BY <1>2
  <2>2. r \in d[t] \/ r \notin w[t]
    BY <1>1, RowsStay
  <2> QED BY <2>1, <2>2, NewRows
<1>10. ASSUME NEW x \in Tables, NEW o, x # t \/ (o # r /\ o # p)
       PROVE  o \in m[x] <=> o \in k[x]
  <2>1. o \in v[x] <=> o \in n[x]
    BY <1>2, <1>10
  <2> QED BY <2>1 DEF Merged
<1>11. p \in m[t] => p = r
  <2>1. SUFFICES ASSUME p \in m[t], p \notin v[t]
                 PROVE  FALSE
    BY <1>7
  <2>2. p \in w[t] /\ p \notin d[t]
    BY <2>1, NewRows
  <2>3. p \in n[t]
    BY <1>2
  <2> QED BY <2>2, <2>3, RowsStay
<1> HIDE DEF m, k, p
<1>12. \A x \in Tables : AfterUpdate(m, t, where, set)[x] = k[x]
  <2>1. ASSUME NEW o
        PROVE  o \in AfterUpdate(m, t, where, set)[t] <=> o \in k[t]
    BY <1>5, <1>8, <1>9, <1>10
  <2>2. AfterUpdate(m, t, where, set)[t] = k[t]
    BY <2>1
  <2>3. ASSUME NEW x \in Tables, x # t
        PROVE  AfterUpdate(m, t, where, set)[x] = k[x]
    BY <2>3, <1>5, <1>10
  <2> QED BY <2>2, <2>3
<1>13. AfterUpdate(m, t, where, set) = k
  <2>1. AfterUpdate(m, t, where, set) = [x \in Tables |-> AfterUpdate(m, t, where, set)[x]]
    BY <1>0 DEF AfterUpdate, IsDatabase
  <2>2. k = [x \in Tables |-> k[x]]
    BY <1>0 DEF IsDatabase
  <2> QED BY <2>1, <2>2, <1>12
<1>14. UpdateOK(m, t, where, set)
  <2>1. \A q \in Matching(m, t, where) : q = r /\ Patched(q, set) = p
    BY <1>4 DEF p
  <2>2. ASSUME NEW u \in UniqueOn(t), NEW o \in m[t] \ {r},
               Clash(u, p, UpdatedRow(m, t, where, set, o))
        PROVE  FALSE
    <3>1. UpdatedRow(m, t, where, set, o) = o
      BY <1>4 DEF UpdatedRow
    <3>2. o # p
      BY <1>11
    <3>3. o \in k[t]
      BY <3>2, <1>10
    <3> QED BY <2>2, <3>1, <3>2, <3>3, <1>0, <1>8 DEF Integrity, UniqueHolds
  <2>3. \A f \in Foreign(t) : HasParent(k, f, p)
    BY <1>0, <1>8 DEF Integrity, ForeignHolds
  <2>4. \A x \in Tables : \A f \in Foreign(x) : \A q \in k[x] : HasParent(k, f, q)
    BY <1>0 DEF Integrity, ForeignHolds
  <2> QED BY <2>1, <2>2, <2>3, <2>4, <1>6, <1>13 DEF UpdateOK
<1> QED BY <1>4, <1>13, <1>14 DEF m, k

(* The strongest lock is a write lock.                                     *)
LEMMA UpdateIsWriting ==
    ASSUME NEW ls, NEW t, NEW r, Holds(ls, {"update"}, t, r)
    PROVE  Holds(ls, Writing, t, r)
BY DEF Holds, Writing

(* Nobody can have made a row that refers to a row under the strongest     *)
(* lock, when the rows that refer to it already are locked too.            *)
LEMMA NothingFollows ==
    ASSUME NEW d, NEW v, NEW ls, NEW w, NEW ms, Beside(d, v, ls, w, ms),
           NEW t \in Tables, NEW f \in Foreign(t),
           NEW p \in v[f.parent], Holds(ls, {"update"}, f.parent, p),
           \A r \in v[t] : Refers(f, r, p) => Holds(ls, Writing, t, r),
           NEW a \in w[t], a \notin d[t], Refers(f, a, p)
    PROVE  FALSE
<1>0. /\ f.parent \in Tables
      /\ Integrity(d) /\ Integrity(v) /\ Integrity(w)
      /\ NoConflict(ls, ms) /\ NoConflict(ms, ls) /\ NoClash(d, v, w)
      /\ Tracked(d, v, ls) /\ Tracked(d, w, ms)
  BY ForeignShape, ConflictsAreMutual DEF Beside, Tracked
<1>1. HasParent(w, f, a)
  BY <1>0 DEF Integrity, ForeignHolds
<1>2. PICK q \in w[f.parent] : Refers(f, a, q)
  BY <1>1 DEF HasParent, Refers
<1>3. Agree(Key(f.parent), p, q)
  BY <1>2, SameParent
<1>4. CASE q \notin d[f.parent]
  <2>1. CASE p \in d[f.parent]
    <3>1. p \in w[f.parent] => p = q
      BY <1>0, <1>3, SameKeySameRow
    <3>2. p \notin w[f.parent]
      BY <3>1, <2>1, <1>4
    <3>3. Holds(ms, Writing, f.parent, p)
      BY <1>0, <2>1, <3>2 DEF Tracked, WritesAreLocked
    <3> QED BY <1>0, <3>3, UpdateIsWriting, WritersConflict
  <2>2. CASE p \notin d[f.parent]
    <3>1. RowAllowed(f.parent, p)
      BY <1>0 DEF Integrity, RowsAllowed
    <3>2. Over(Key(f.parent)) \in UniqueOn(f.parent) /\ Clash(Over(Key(f.parent)), p, q)
      BY <1>0, <1>3, <3>1, KeysClash
    <3> QED BY <1>0, <1>2, <1>4, <2>2, <3>2 DEF NoClash
  <2> QED BY <2>1, <2>2
<1>5. CASE q \in d[f.parent]
  <2>1. CASE Holds(ms, Modes, f.parent, q)
    <3>1. Holds(ls, {"update"}, f.parent, q)
      BY <1>3, HoldsAlike
    <3> QED BY <1>0, <2>1, <3>1, UpdateConflicts
  <2>2. ASSUME NEW c \in d[t], Holds(ms, Writing, t, c), Agree(Referring(f), a, c)
        PROVE  FALSE
    <3>1. Refers(f, c, p)
      BY <2>2, AgreeingRowsReferAlike
    <3>2. Holds(ls, Writing, t, c)
      <4>1. CASE c \in v[t]
        BY <3>1, <4>1
      <4>2. CASE c \notin v[t]
        BY <1>0, <4>2 DEF Tracked, WritesAreLocked
      <4> QED BY <4>1, <4>2
    <3> QED BY <1>0, <2>2, <3>2, WritersConflict
  <2> QED BY <1>0, <1>2, <1>5, <2>1, <2>2 DEF Tracked, ParentsAreLocked
<1> QED BY <1>4, <1>5

(* A DELETE finds the same rows to take along, to detach or to refuse for. *)
LEMMA OrphansAlike ==
    ASSUME NEW d, NEW v, NEW ls, NEW w, NEW ms, Beside(d, v, ls, w, ms),
           NEW gone, \A x \in Tables : gone[x] \subseteq v[x],
           \A x \in Tables : \A p \in gone[x] : Holds(ls, {"update"}, x, p),
           NEW rule, NEW x \in Tables,
           \A r \in Orphans(v, rule, gone, x) : Holds(ls, Writing, x, r)
    PROVE  Orphans(Merged(d, v, w), rule, gone, x) = Orphans(v, rule, gone, x)
<1> DEFINE m == Merged(d, v, w)
<1>1. ASSUME NEW r \in Orphans(v, rule, gone, x)
      PROVE  r \in Orphans(m, rule, gone, x)
  <2>1. r \in v[x] /\ Holds(ls, Writing, x, r)
    BY DEF Orphans
  <2>2. r \in m[x]
    BY <2>1, RowsStay
  <2> QED BY <2>2 DEF Orphans
<1>2. ASSUME NEW r \in Orphans(m, rule, gone, x)
      PROVE  r \in Orphans(v, rule, gone, x)
  <2>1. r \in m[x]
    BY DEF Orphans
  <2>2. PICK f \in Foreign(x) : f.onDelete = rule /\ \E p \in gone[f.parent] : Refers(f, r, p)
    BY DEF Orphans
  <2>3. PICK p \in gone[f.parent] : Refers(f, r, p)
    BY <2>2
  <2>4. f.parent \in Tables
    BY ForeignShape
  <2>5. p \in v[f.parent] /\ Holds(ls, {"update"}, f.parent, p)
    BY <2>4
  <2>6. \A o \in v[x] : Refers(f, o, p) => Holds(ls, Writing, x, o)
    BY <2>2 DEF Orphans
  <2>7. CASE r \in v[x]
    BY <2>2, <2>7 DEF Orphans
  <2>8. CASE r \notin v[x]
    <3>1. r \in w[x] /\ r \notin d[x]
      BY <2>1, <2>8, NewRows
    <3> QED BY <2>3, <2>5, <2>6, <3>1, NothingFollows
  <2> QED BY <2>7, <2>8
<1> HIDE DEF m
<1> QED BY <1>1, <1>2 DEF m

(* The rows a DELETE takes along are rows of the view.                     *)
LEMMA DoomedParts ==
    ASSUME NEW v, NEW t \in Tables, NEW rows, rows \subseteq v[t], NEW x \in Tables
    PROVE  /\ OnlyIn(t, rows)[x] \subseteq Doomed(v, t, rows)[x]
           /\ Orphans(v, "CASCADE", OnlyIn(t, rows), x) \subseteq Doomed(v, t, rows)[x]
           /\ Orphans(v, "CASCADE", Kids(v, OnlyIn(t, rows)), x) \subseteq Doomed(v, t, rows)[x]
           /\ Doomed(v, t, rows)[x] \subseteq v[x]
           /\ Kids(v, OnlyIn(t, rows))[x] = Orphans(v, "CASCADE", OnlyIn(t, rows), x)
BY DEF Doomed, Kids, OnlyIn, Orphans

(* So a DELETE takes the same rows along after the other's commit.         *)
LEMMA DoomedAlike ==
    ASSUME NEW d, NEW v, NEW ls, NEW w, NEW ms, Beside(d, v, ls, w, ms),
           NEW t \in Tables, NEW rows, rows \subseteq v[t],
           \A x \in Tables : \A r \in Doomed(v, t, rows)[x] : Holds(ls, {"update"}, x, r)
    PROVE  Doomed(Merged(d, v, w), t, rows) = Doomed(v, t, rows)
<1> DEFINE m == Merged(d, v, w)
           own == OnlyIn(t, rows)
           kids == Kids(v, own)
           gone == Doomed(v, t, rows)
<1>1. \A x \in Tables : /\ own[x] \subseteq gone[x]
                        /\ Orphans(v, "CASCADE", own, x) \subseteq gone[x]
                        /\ Orphans(v, "CASCADE", kids, x) \subseteq gone[x]
                        /\ gone[x] \subseteq v[x]
                        /\ kids[x] = Orphans(v, "CASCADE", own, x)
  BY DoomedParts
<1> HIDE DEF gone
<1>2. \A x \in Tables : \A r \in gone[x] : Holds(ls, {"update"}, x, r) /\ Holds(ls, Writing, x, r)
  BY UpdateIsWriting DEF gone
<1>3. ASSUME NEW some, \A x \in Tables : some[x] \subseteq gone[x],
             \A x \in Tables : Orphans(v, "CASCADE", some, x) \subseteq gone[x]
      PROVE  Kids(m, some) = Kids(v, some)
  <2>1. ASSUME NEW x \in Tables
        PROVE  Orphans(m, "CASCADE", some, x) = Orphans(v, "CASCADE", some, x)
    <3>1. \A y \in Tables : some[y] \subseteq v[y]
      BY <1>1, <1>3
    <3>2. \A y \in Tables : \A p \in some[y] : Holds(ls, {"update"}, y, p)
      BY <1>2, <1>3
    <3>3. \A r \in Orphans(v, "CASCADE", some, x) : Holds(ls, Writing, x, r)
      BY <1>2, <1>3
    <3> QED BY <3>1, <3>2, <3>3, OrphansAlike
  <2> HIDE DEF m
  <2> QED BY <2>1 DEF Kids
<1>4. Kids(m, own) = kids
  <2> HIDE DEF own, m
  <2> QED BY <1>1, <1>3
<1>5. Kids(m, kids) = Kids(v, kids)
  <2> HIDE DEF kids, own, m
  <2> QED BY <1>1, <1>3
<1> HIDE DEF m
<1>6. Doomed(m, t, rows) = gone
  BY <1>4, <1>5 DEF Doomed, gone
<1> QED BY <1>6 DEF m, gone

(* A detached row keeps its primary key.                                   *)
LEMMA DetachedKeepsKey ==
    ASSUME NEW x \in Tables, NEW gone, NEW r \in RowsOf(x)
    PROVE  Agree(Key(x), Detached(x, gone, r), r)
<1>1. Key(x) \subseteq KeyColumns(x) /\ KeyColumns(x) \subseteq Columns(x)
  BY KeyIsUnique, KeyColumnsAreColumns
<1>2. \A c \in KeyColumns(x) : Detached(x, gone, r)[c] = r[c]
  BY <1>1, DetachedKeeps, ClearedColumnsAreNoKeys
<1> QED BY <1>1, <1>2 DEF Agree

(* And so does a DELETE that names its row, with all it takes along.       *)
LEMMA DeleteMerges ==
    ASSUME NEW d, NEW v, NEW ls, NEW w, NEW ms, Beside(d, v, ls, w, ms),
           NEW t \in Tables, NEW where, Key(t) \subseteq DOMAIN where,
           DeleteOK(v, t, where), NEW p \in Matching(v, t, where),
           NEW gone, gone = Doomed(v, t, Matching(v, t, where)),
           \A x \in Tables : \A r \in gone[x] : Holds(ls, {"update"}, x, r),
           \A x \in Tables : \A r \in Orphans(v, "SET_NULL", gone, x) : Holds(ls, Writing, x, r),
           NEW n, n = AfterDelete(v, t, where), Beside(d, n, ls, w, ms)
    PROVE  /\ Matching(Merged(d, v, w), t, where) = Matching(v, t, where)
           /\ Doomed(Merged(d, v, w), t, Matching(v, t, where)) = gone
           /\ \A x \in Tables : Orphans(Merged(d, v, w), "SET_NULL", gone, x)
                                   = Orphans(v, "SET_NULL", gone, x)
           /\ DeleteOK(Merged(d, v, w), t, where)
           /\ AfterDelete(Merged(d, v, w), t, where) = Merged(d, n, w)
<1> DEFINE m == Merged(d, v, w)
           k == Merged(d, n, w)
           hit == Matching(v, t, where)
           after == AfterDelete(m, t, where)
<1>0. /\ IsDatabase(m) /\ IsDatabase(k) /\ Integrity(m)
      /\ IsDatabase(v) /\ Integrity(v)
  BY MergedIsTracked DEF Tracked, Beside
<1>1. p \in v[t] /\ hit \subseteq v[t]
  BY DEF Matching
<1>2. \A x \in Tables : gone[x] \subseteq v[x] /\ hit \subseteq gone[t]
  <2>1. \A x \in Tables : gone[x] \subseteq v[x] /\ OnlyIn(t, hit)[t] \subseteq gone[t]
    BY <1>1, DoomedParts
  <2> QED BY <2>1 DEF OnlyIn
<1>3. p \in m[t]
  <2>1. Holds(ls, Writing, t, p)
    BY <1>2, UpdateIsWriting
  <2> QED BY <1>1, <2>1, RowsStay
<1>4. Matching(m, t, where) = hit
  <2>1. p \in Matching(m, t, where)
    BY <1>3 DEF Matching
  <2>2. hit = {p}
    BY <1>0, NamedRow
  <2> HIDE DEF m, hit
  <2>3. Matching(m, t, where) = {p}
    BY <2>1, <1>0, NamedRow
  <2> QED BY <2>2, <2>3
<1>5. Doomed(m, t, hit) = gone
  <2> HIDE DEF hit
  <2> QED BY <1>1, DoomedAlike DEF hit
<1>6. ASSUME NEW x \in Tables
      PROVE  /\ Orphans(m, "SET_NULL", gone, x) = Orphans(v, "SET_NULL", gone, x)
             /\ Orphans(m, "RESTRICT", gone, x) = {}
  <2>1. Orphans(v, "RESTRICT", gone, x) = {}
    BY DEF DeleteOK
  <2>2. \A r \in Orphans(v, "RESTRICT", gone, x) : Holds(ls, Writing, x, r)
    BY <2>1
  <2>3. Orphans(m, "RESTRICT", gone, x) = Orphans(v, "RESTRICT", gone, x)
    BY <1>2, <2>2, OrphansAlike
  <2>4. Orphans(m, "SET_NULL", gone, x) = Orphans(v, "SET_NULL", gone, x)
    BY <1>2, OrphansAlike
  <2> QED BY <2>1, <2>3, <2>4
<1> HIDE DEF m, k, hit
<1>7. DeleteOK(m, t, where)
  BY <1>4, <1>5, <1>6, NulledNullable DEF DeleteOK
<1>8. /\ \A x \in Tables : n[x] = {Detached(x, gone, r) : r \in v[x] \ gone[x]}
      /\ \A x \in Tables : after[x] = {Detached(x, gone, r) : r \in m[x] \ gone[x]}
  BY <1>4, <1>5 DEF AfterDelete, hit
<1>9. ASSUME NEW x \in Tables, NEW o \in m[x], o \notin v[x]
      PROVE  Detached(x, gone, o) = o
  <2>1. o \in RowsOf(x)
    BY <1>0 DEF IsDatabase
  <2>2. o \notin Orphans(m, "SET_NULL", gone, x)
    BY <1>6, <1>9 DEF Orphans
  <2> QED BY <2>1, <2>2, DetachedRow
<1>10. ASSUME NEW x \in Tables, NEW o \in v[x], Detached(x, gone, o) # o
       PROVE  Holds(ls, Writing, x, o) /\ Detached(x, gone, o) \notin v[x]
  <2>1. o \in RowsOf(x)
    BY <1>0 DEF IsDatabase
  <2>2. o \in Orphans(v, "SET_NULL", gone, x)
    BY <2>1, <1>10, DetachedRow
  <2>3. Agree(Key(x), Detached(x, gone, o), o)
    BY <2>1, DetachedKeepsKey
  <2>4. Detached(x, gone, o) \in v[x] => Detached(x, gone, o) = o
    BY <2>3, <1>0, SameKeySameRow
  <2> QED BY <2>2, <2>4, <1>10
<1>11. ASSUME NEW x \in Tables, NEW y \in after[x]
       PROVE  y \in k[x]
  <2>1. PICK o \in m[x] \ gone[x] : y = Detached(x, gone, o)
    BY <1>8
  <2>2. CASE o \in v[x]
    <3>1. y \in n[x]
      BY <1>8, <2>1, <2>2
    <3>2. y \in k[x] <=> y \notin d[x] \/ y \in w[x]
      BY <3>1, RowsStay DEF k
    <3>3. o \notin d[x] \/ o \in w[x]
      BY <2>1, <2>2, RowsStay DEF m
    <3>4. y # o /\ y \in d[x] => y \in w[x]
      BY <2>1, <2>2, <1>10, RemovedRowsRemain
    <3> QED BY <3>2, <3>3, <3>4
  <2>3. CASE o \notin v[x]
    <3>1. y = o
      BY <2>1, <2>3, <1>9
    <3>2. y \in w[x] /\ y \notin d[x]
      BY <2>1, <2>3, <3>1, NewRows DEF m
    <3>3. y \in n[x] => y \in k[x]
      BY <3>2, RowsStay DEF k
    <3>4. y \notin n[x] => y \in k[x]
      BY <3>2, NewRows DEF k
    <3> QED BY <3>3, <3>4
  <2> QED BY <2>2, <2>3
<1>12. ASSUME NEW x \in Tables, NEW y \in k[x]
       PROVE  y \in after[x]
  <2>1. CASE y \in n[x]
    <3>1. PICK o \in v[x] \ gone[x] : y = Detached(x, gone, o)
      BY <1>8, <2>1
    <3>2. y \notin d[x] \/ y \in w[x]
      BY <2>1, RowsStay DEF k
    <3>3. y = o => o \in m[x]
      BY <3>1, <3>2, RowsStay DEF m
    <3>4. y # o => o \in m[x]
      BY <3>1, <1>10, RowsStay DEF m
    <3> QED BY <3>1, <3>3, <3>4, <1>8
  <2>2. CASE y \notin n[x]
    <3>1. y \in w[x] /\ y \notin d[x]
      BY <2>2, NewRows DEF k
    <3>2. y \notin v[x]
      BY <3>1, RowsStay
    <3>3. y \in m[x]
      BY <3>1, <3>2, NewRows DEF m
    <3>4. y \notin gone[x] /\ Detached(x, gone, y) = y
      BY <1>2, <1>9, <3>2, <3>3
    <3> QED BY <3>3, <3>4, <1>8
  <2> QED BY <2>1, <2>2
<1>13. after = k
  <2>1. after = [x \in Tables |-> after[x]]
    BY DEF AfterDelete
  <2>2. k = [x \in Tables |-> k[x]]
    BY <1>0 DEF IsDatabase
  <2> HIDE DEF after
  <2>3. \A x \in Tables : after[x] = k[x]
    BY <1>11, <1>12
  <2> QED BY <2>1, <2>2, <2>3
<1> QED BY <1>4, <1>5, <1>6, <1>7, <1>13 DEF m, k, hit

(* The write locks a statement relies on when others commit under it.      *)
Covered(v, st, ls) ==
    /\ st.op = "update" =>
          \A r \in Matching(v, st.table, st.where) : Holds(ls, Writing, st.table, r)
    /\ st.op = "delete" =>
          \A x \in Tables :
             /\ \A r \in Doomed(v, st.table, Matching(v, st.table, st.where))[x] :
                   Holds(ls, {"update"}, x, r)
             /\ \A r \in Orphans(v, "SET_NULL",
                                 Doomed(v, st.table, Matching(v, st.table, st.where)), x) :
                   Holds(ls, Writing, x, r)

(* It takes them when it runs.                                             *)
LEMMA StatementIsCovered ==
    ASSUME NEW v, NEW st, IsStatement(st), NEW ls, LocksOf(v, st) \subseteq ls
    PROVE  Covered(v, st, ls)
<1>0. st.table \in Tables
  BY DEF IsStatement
<1>1. ASSUME NEW modes, NEW t, NEW r, Holds(LocksOf(v, st), modes, t, r)
      PROVE  Holds(ls, modes, t, r)
  BY <1>1 DEF Holds
<1>2. CASE st.op = "insert"
  BY <1>2 DEF Covered
<1>3. CASE st.op = "update"
  <2>1. LocksOf(v, st) = UpdateLocks(v, st.table, st.where, st.set)
    BY <1>3 DEF LocksOf
  <2> QED BY <1>0, <1>1, <1>3, <2>1, UpdateLocking DEF Covered
<1>4. CASE st.op = "delete"
  <2>1. LocksOf(v, st) = DeleteLocks(v, st.table, st.where)
    BY <1>4 DEF LocksOf
  <2>2. ASSUME NEW x \in Tables, NEW gone,
               gone = Doomed(v, st.table, Matching(v, st.table, st.where))
        PROVE  /\ \A r \in gone[x] : Holds(ls, {"update"}, x, r)
               /\ \A r \in Orphans(v, "SET_NULL", gone, x) : Holds(ls, Writing, x, r)
    BY <1>0, <1>1, <2>1, <2>2, DeleteLocking
  <2> QED BY <1>4, <2>2 DEF Covered
<1> QED BY <1>2, <1>3, <1>4 DEF IsStatement

(* More locks cover and account for what fewer did.                        *)
LEMMA MoreLocksServe ==
    ASSUME NEW ls, NEW ms, ls \subseteq ms
    PROVE  /\ \A v, st : Covered(v, st, ls) => Covered(v, st, ms)
           /\ \A d, v : Tracked(d, v, ls) => Tracked(d, v, ms)
<1>1. \A modes, t, r : Holds(ls, modes, t, r) => Holds(ms, modes, t, r)
  BY DEF Holds
<1>2. ASSUME NEW v, NEW st, Covered(v, st, ls)
      PROVE  Covered(v, st, ms)
  BY <1>1, <1>2 DEF Covered
<1>3. ASSUME NEW d, NEW v, Tracked(d, v, ls)
      PROVE  Tracked(d, v, ms)
  <2>1. WritesAreLocked(d, v, ms)
    BY <1>1, <1>3 DEF Tracked, WritesAreLocked
  <2>2. KeysAreLocked(d, v, ms)
    BY <1>1, <1>3 DEF Tracked, KeysAreLocked
  <2>3. ASSUME NEW t \in Tables, NEW f \in Foreign(t), NEW a \in v[t] \ d[t],
               NEW p \in d[f.parent], Refers(f, a, p)
        PROVE  \/ Holds(ms, Modes, f.parent, p)
               \/ \E c \in d[t] : Holds(ms, Writing, t, c) /\ Agree(Referring(f), a, c)
    BY <1>1, <1>3, <2>3 DEF Tracked, ParentsAreLocked
  <2> QED BY <1>3, <2>1, <2>2, <2>3 DEF Tracked, ParentsAreLocked
<1> QED BY <1>2, <1>3

(* A statement that names its row does after the other's commit what it    *)
(* did before.                                                             *)
LEMMA StatementMerges ==
    ASSUME NEW d, NEW v, NEW ls, NEW w, NEW ms, Beside(d, v, ls, w, ms),
           NEW st, IsStatement(st), NamesRow(st), Succeeds(v, st), Covered(v, st, ls),
           NEW n, n = Result(v, st), Beside(d, n, ls, w, ms)
    PROVE  /\ Succeeds(Merged(d, v, w), st)
           /\ Covered(Merged(d, v, w), st, ls)
           /\ Result(Merged(d, v, w), st) = Merged(d, n, w)
<1> DEFINE t == st.table
           m == Merged(d, v, w)
<1>0. t \in Tables
  BY DEF IsStatement
<1>1. CASE st.op = "insert"
  <2>1. InsertOK(v, t, st.row) /\ n = AfterInsert(v, t, st.row)
    BY <1>1 DEF Succeeds, Accepts, Result
  <2>2. InsertOK(m, t, st.row) /\ AfterInsert(m, t, st.row) = Merged(d, n, w)
    BY <1>0, <2>1, InsertMerges
  <2> HIDE DEF m
  <2> QED BY <1>1, <2>2 DEF Succeeds, Hits, Accepts, Result, Covered, m
<1>2. CASE st.op = "update"
  <2>1. /\ UpdateOK(v, t, st.where, st.set) /\ n = AfterUpdate(v, t, st.where, st.set)
        /\ Matching(v, t, st.where) # {} /\ Key(t) \subseteq DOMAIN st.where
        /\ \A r \in Matching(v, t, st.where) : Holds(ls, Writing, t, r)
    BY <1>2 DEF Succeeds, Hits, Accepts, Result, Covered, NamesRow
  <2>2. PICK r \in Matching(v, t, st.where) : TRUE
    BY <2>1
  <2>3. Matching(v, t, st.where) = {r}
    BY <1>0, <2>1, NamedRow DEF Beside, Tracked
  <2>4. /\ Matching(m, t, st.where) = {r}
        /\ UpdateOK(m, t, st.where, st.set)
        /\ AfterUpdate(m, t, st.where, st.set) = Merged(d, n, w)
    BY <1>0, <2>1, UpdateMerges
  <2> HIDE DEF m
  <2>5. Holds(ls, Writing, t, r)
    BY <2>1
  <2>6. Succeeds(m, st)
    BY <1>2, <2>4 DEF Succeeds, Hits, Accepts
  <2>7. Covered(m, st, ls)
    BY <1>2, <2>4, <2>5 DEF Covered
  <2> QED BY <1>2, <2>4, <2>6, <2>7 DEF Result, m
<1>3. CASE st.op = "delete"
  <2> DEFINE hit  == Matching(v, t, st.where)
             gone == Doomed(v, t, hit)
  <2>1. /\ DeleteOK(v, t, st.where) /\ n = AfterDelete(v, t, st.where)
        /\ hit # {} /\ Key(t) \subseteq DOMAIN st.where
    BY <1>3 DEF Succeeds, Hits, Accepts, Result, NamesRow
  <2>2. /\ \A x \in Tables : \A r \in gone[x] : Holds(ls, {"update"}, x, r)
        /\ \A x \in Tables : \A r \in Orphans(v, "SET_NULL", gone, x) : Holds(ls, Writing, x, r)
    BY <1>3 DEF Covered
  <2>3. PICK p \in hit : TRUE
    BY <2>1
  <2> HIDE DEF gone
  <2>4. /\ Matching(m, t, st.where) = hit
        /\ Doomed(m, t, hit) = gone
        /\ \A x \in Tables : Orphans(m, "SET_NULL", gone, x) = Orphans(v, "SET_NULL", gone, x)
        /\ DeleteOK(m, t, st.where)
        /\ AfterDelete(m, t, st.where) = Merged(d, n, w)
    BY <1>0, <2>1, <2>2, DeleteMerges DEF gone
  <2> HIDE DEF m, hit
  <2>5. Succeeds(m, st)
    BY <1>3, <2>1, <2>4 DEF Succeeds, Hits, Accepts
  <2>6. Covered(m, st, ls)
    BY <1>3, <2>2, <2>4 DEF Covered
  <2> QED BY <1>3, <2>4, <2>5, <2>6 DEF Result, m
<1> QED BY <1>1, <1>2, <1>3 DEF IsStatement

-----------------------------------------------------------------------------
(* The states that k statements of p lead through from d to v, each        *)
(* succeeding and each accounted for by the locks; "made" has the rows     *)
(* that were new in any of them.                                           *)
Trace(d, p, k, states, v, ls, made) ==
    /\ states[0] = d /\ states[k] = v
    /\ \A i \in 0..k : Tracked(d, states[i], ls)
    /\ \A i \in 1..k : /\ Succeeds(states[i - 1], p[i])
                       /\ Covered(states[i - 1], p[i], ls)
                       /\ Result(states[i - 1], p[i]) = states[i]
    /\ \A t \in Tables : \A i \in 0..k : states[i][t] \ d[t] \subseteq RowsIn(made, t)
    /\ \A t \in Tables : \A y \in RowsIn(made, t) : \E i \in 0..k : y \in states[i][t] \ d[t]

(* No row made by one transaction clashes with one made by the other.      *)
Apart(made, others) ==
    \A t \in Tables : \A u \in UniqueOn(t) :
       \A x \in RowsIn(made, t) : \A y \in RowsIn(others, t) : ~Clash(u, x, y)

(* Before the first statement.                                             *)
LEMMA EmptyTrace ==
    ASSUME NEW d, IsDatabase(d), Integrity(d), NEW p, NEW ls
    PROVE  Trace(d, p, 0, [i \in {0} |-> d], d, {}, {})
<1> DEFINE T == [i \in {0} |-> d]
<1>1. 0..0 = {0} /\ 1..0 = {} /\ T[0] = d
  OBVIOUS
<1>2. Tracked(d, d, {})
  BY NothingTracked
<1>3. \A t : RowsIn({}, t) = {}
  BY DEF RowsIn
<1> HIDE DEF T
<1> QED BY <1>1, <1>2, <1>3 DEF Trace, T

(* One statement more.                                                     *)
LEMMA TraceGrows ==
    ASSUME NEW d, IsDatabase(d), Integrity(d), NEW p, NEW k \in Nat,
           NEW states, NEW v, NEW ls, NEW made, Trace(d, p, k, states, v, ls, made),
           IsStatement(p[k + 1]), Succeeds(v, p[k + 1]),
           NEW n, n = Result(v, p[k + 1]),
           NEW all, all = ls \cup LocksOf(v, p[k + 1]),
           NEW more, \A t \in Tables : RowsIn(more, t) = RowsIn(made, t) \cup (n[t] \ d[t])
    PROVE  \E longer : Trace(d, p, k + 1, longer, n, all, more)
<1> DEFINE T == [i \in 0..(k + 1) |-> IF i = k + 1 THEN n ELSE states[i]]
<1>1. /\ 0..(k + 1) = (0..k) \cup {k + 1} /\ 1..(k + 1) = (1..k) \cup {k + 1}
      /\ k + 1 \notin 0..k /\ (k + 1) - 1 = k /\ k \in 0..k /\ 0 \in 0..k
      /\ \A i \in 1..k : i \in 0..k /\ i - 1 \in 0..k
  OBVIOUS
<1>2. T[k + 1] = n /\ \A i \in 0..k : T[i] = states[i]
  BY <1>1
<1> HIDE DEF T
<1>3. states[0] = d /\ states[k] = v
  BY DEF Trace
<1>4. /\ \A x, st : Covered(x, st, ls) => Covered(x, st, all)
      /\ \A x : Tracked(d, x, ls) => Tracked(d, x, all)
  BY MoreLocksServe
<1>5. Tracked(d, v, ls) /\ Accepts(v, p[k + 1])
  BY <1>1, <1>3 DEF Trace, Succeeds
<1>6. Tracked(d, n, all)
  BY <1>5, StatementKeepsTrack
<1>7. \A i \in 0..(k + 1) : Tracked(d, T[i], all)
  BY <1>1, <1>2, <1>4, <1>6 DEF Trace
<1>8. Covered(v, p[k + 1], all)
  BY StatementIsCovered
<1>9. ASSUME NEW i \in 1..(k + 1)
      PROVE  /\ Succeeds(T[i - 1], p[i])
             /\ Covered(T[i - 1], p[i], all)
             /\ Result(T[i - 1], p[i]) = T[i]
  <2>1. CASE i = k + 1
    <3>1. T[i - 1] = v /\ T[i] = n
      BY <2>1, <1>1, <1>2, <1>3
    <3> QED BY <2>1, <3>1, <1>8
  <2>2. CASE i \in 1..k
    <3>1. T[i - 1] = states[i - 1] /\ T[i] = states[i]
      BY <2>2, <1>1, <1>2
    <3> QED BY <2>2, <3>1, <1>4 DEF Trace
  <2> QED BY <2>1, <2>2, <1>1
<1>10. \A t \in Tables : \A i \in 0..(k + 1) : T[i][t] \ d[t] \subseteq RowsIn(more, t)
  <2> SUFFICES ASSUME NEW t \in Tables, NEW i \in 0..(k + 1)
               PROVE  T[i][t] \ d[t] \subseteq RowsIn(more, t)
    OBVIOUS
  <2>1. CASE i = k + 1
    BY <2>1, <1>2
  <2>2. CASE i \in 0..k
    <3>1. states[i][t] \ d[t] \subseteq RowsIn(made, t)
      BY <2>2 DEF Trace
    <3> QED BY <2>2, <3>1, <1>2
  <2> QED BY <2>1, <2>2, <1>1
<1>11. ASSUME NEW t \in Tables, NEW y \in RowsIn(more, t)
       PROVE  \E i \in 0..(k + 1) : y \in T[i][t] \ d[t]
  <2>1. CASE y \in n[t] \ d[t]
    BY <2>1, <1>1, <1>2
  <2>2. CASE y \in RowsIn(made, t)
    <3>1. PICK i \in 0..k : y \in states[i][t] \ d[t]
      BY <2>2 DEF Trace
    <3> QED BY <3>1, <1>1, <1>2
  <2> QED BY <2>1, <2>2
<1>12. T[0] = d
  BY <1>1, <1>2, <1>3
<1>13. Trace(d, p, k + 1, T, n, all, more)
  BY <1>2, <1>7, <1>9, <1>10, <1>11, <1>12 DEF Trace
<1> QED BY <1>13

(* A statement that waits for nobody makes no row that clashes with one    *)
(* another open transaction has made, be it replaced or deleted since.     *)
LEMMA StatementKeepsApart ==
    ASSUME NEW d, IsDatabase(d), Integrity(d), NEW v, NEW ls, Tracked(d, v, ls),
           NEW made, \A t \in Tables : v[t] \ d[t] \subseteq RowsIn(made, t),
           NEW p, NEW k \in Nat, NEW states, NEW w, NEW ms, NEW others,
           Trace(d, p, k, states, w, ms, others), Apart(made, others),
           NEW st, IsStatement(st), NoConflict(ls \cup LocksOf(v, st), ms),
           \A c \in Written(v, st) : \A u \in UniqueOn(st.table) :
              \A y \in RowsIn(others, st.table) :
                 ~((c[1] # NULL => Identity(st.table, y) # Identity(st.table, c[1]))
                   /\ Clash(u, c[2], y)),
           NEW n, n = Result(v, st),
           NEW more, \A t \in Tables : RowsIn(more, t) = RowsIn(made, t) \cup (n[t] \ d[t])
    PROVE  Apart(more, others)
<1> SUFFICES ASSUME NEW t \in Tables, NEW u \in UniqueOn(t), NEW x \in RowsIn(more, t),
                    NEW y \in RowsIn(others, t), Clash(u, x, y)
             PROVE  FALSE
  BY DEF Apart
<1>1. CASE x \in RowsIn(made, t)
  BY <1>1 DEF Apart
<1>2. CASE x \in n[t] \ d[t]
  <2>1. PICK i \in 0..k : y \in states[i][t] \ d[t]
    BY DEF Trace
  <2>2. Tracked(d, states[i], ms)
    BY DEF Trace
  <2>3. \A z \in Tables : states[i][z] \ d[z] \subseteq RowsIn(others, z)
    BY DEF Trace
  <2>4. NoClash(d, v, states[i])
    BY <2>3 DEF NoClash, Apart
  <2>5. \A c \in Written(v, st) : \A g \in UniqueOn(st.table) :
           \A z \in states[i][st.table] \ d[st.table] :
              ~((c[1] # NULL => Identity(st.table, z) # Identity(st.table, c[1]))
                /\ Clash(g, c[2], z))
    <3>1. st.table \in Tables
      BY DEF IsStatement
    <3> QED BY <3>1, <2>3
  <2> DEFINE o == states[i]
  <2>6. Tracked(d, o, ms) /\ NoClash(d, v, o)
    BY <2>2, <2>4
  <2>7. \A c \in Written(v, st) : \A g \in UniqueOn(st.table) :
           \A z \in o[st.table] \ d[st.table] :
              ~((c[1] # NULL => Identity(st.table, z) # Identity(st.table, c[1]))
                /\ Clash(g, c[2], z))
    BY <2>5
  <2> HIDE DEF o
  <2>8. NoClash(d, n, o)
    BY <2>6, <2>7, StatementStaysApart
  <2> QED BY <1>2, <2>1, <2>8 DEF NoClash, o
<1> QED BY <1>1, <1>2

(* When another transaction commits, this one's statements might as well   *)
(* have run after it: they succeed from the new database on and come to    *)
(* the view it has now.                                                    *)
LEMMA TraceMerges ==
    ASSUME NEW d, IsDatabase(d), Integrity(d), NEW p, NEW k \in Nat,
           NEW states, NEW v, NEW ls, NEW made, Trace(d, p, k, states, v, ls, made),
           \A i \in 1..k : IsStatement(p[i]) /\ NamesRow(p[i]),
           NEW w, NEW ms, Tracked(d, w, ms), NoConflict(ls, ms),
           NEW others, \A t \in Tables : w[t] \ d[t] \subseteq RowsIn(others, t),
           Apart(made, others)
    PROVE  \E after : Trace(w, p, k, after, Merged(d, v, w), ls, made)
<1> DEFINE M(i) == Merged(d, states[i], w)
           T == [i \in 0..k |-> M(i)]
<1>1. 0 \in 0..k /\ k \in 0..k /\ \A i \in 1..k : i \in 0..k /\ i - 1 \in 0..k
  OBVIOUS
<1>2. \A i \in 0..k : T[i] = M(i)
  OBVIOUS
<1>3. ASSUME NEW i \in 0..k
      PROVE  Beside(d, states[i], ls, w, ms)
  <2>1. Tracked(d, states[i], ls)
    BY DEF Trace
  <2>2. \A t \in Tables : states[i][t] \ d[t] \subseteq RowsIn(made, t)
    BY DEF Trace
  <2>3. NoClash(d, states[i], w)
    BY <2>2 DEF NoClash, Apart
  <2> QED BY <2>1, <2>3 DEF Beside
<1>4. ASSUME NEW i \in 0..k
      PROVE  /\ Tracked(w, M(i), ls)
             /\ \A t \in Tables : M(i)[t] \ w[t] = states[i][t] \ d[t]
  BY <1>3, MergedIsTracked
<1>5. M(0) = w
  <2>1. IsDatabase(w)
    BY DEF Tracked
  <2>2. \A t \in Tables : M(0)[t] = w[t]
    BY DEF Trace, Merged
  <2>3. M(0) = [t \in Tables |-> M(0)[t]]
    BY DEF Merged
  <2>4. w = [t \in Tables |-> w[t]]
    BY <2>1 DEF IsDatabase
  <2> HIDE DEF M
  <2> QED BY <2>2, <2>3, <2>4
<1>6. M(k) = Merged(d, v, w)
  BY DEF Trace
<1>7. ASSUME NEW i \in 1..k
      PROVE  /\ Succeeds(M(i - 1), p[i])
             /\ Covered(M(i - 1), p[i], ls)
             /\ Result(M(i - 1), p[i]) = M(i)
  <2>1. /\ Succeeds(states[i - 1], p[i]) /\ Covered(states[i - 1], p[i], ls)
        /\ Result(states[i - 1], p[i]) = states[i]
    BY DEF Trace
  <2>2. Beside(d, states[i - 1], ls, w, ms) /\ Beside(d, states[i], ls, w, ms)
    BY <1>1, <1>3
  <2>3. IsStatement(p[i]) /\ NamesRow(p[i])
    OBVIOUS
  <2> QED BY <2>1, <2>2, <2>3, StatementMerges
<1> HIDE DEF M, T
<1>8. T[0] = w /\ T[k] = Merged(d, v, w)
  BY <1>1, <1>2, <1>5, <1>6
<1>9. \A i \in 0..k : Tracked(w, T[i], ls)
  BY <1>2, <1>4
<1>10. ASSUME NEW i \in 1..k
       PROVE  /\ Succeeds(T[i - 1], p[i])
              /\ Covered(T[i - 1], p[i], ls)
              /\ Result(T[i - 1], p[i]) = T[i]
  BY <1>1, <1>2, <1>7
<1>11. ASSUME NEW t \in Tables, NEW i \in 0..k
       PROVE  T[i][t] \ w[t] = states[i][t] \ d[t]
  BY <1>2, <1>4
<1>12. \A t \in Tables : \A i \in 0..k : T[i][t] \ w[t] \subseteq RowsIn(made, t)
  <2>1. \A t \in Tables : \A i \in 0..k : states[i][t] \ d[t] \subseteq RowsIn(made, t)
    BY DEF Trace
  <2> QED BY <2>1, <1>11
<1>13. \A t \in Tables : \A y \in RowsIn(made, t) : \E i \in 0..k : y \in T[i][t] \ w[t]
  <2>1. \A t \in Tables : \A y \in RowsIn(made, t) : \E i \in 0..k : y \in states[i][t] \ d[t]
    BY DEF Trace
  <2> QED BY <2>1, <1>11
<1>14. Trace(w, p, k, T, Merged(d, v, w), ls, made)
  BY <1>8, <1>9, <1>10, <1>12, <1>13 DEF Trace
<1> QED BY <1>14

-----------------------------------------------------------------------------
(* Of a set of natural numbers that is not empty one is the least.         *)
LEMMA LeastNatural ==
    ASSUME NEW T, T \subseteq Nat, T # {}
    PROVE  \E m \in T : \A k \in T : m <= k
<1> DEFINE Less == OpToRel(<, Nat)
<1>1. IsWellFoundedOn(Less, Nat)
  BY NatLessThanWellFounded
<1> HIDE DEF Less
<1>2. PICK m \in T : \A k \in T : ~ (<<k, m>> \in Less)
  BY <1>1, WFMin
<1>3. \A k \in T : ~ (k < m)
  BY <1>2 DEF OpToRel, Less
<1>4. m \in Nat /\ \A k \in T : k \in Nat
  OBVIOUS
<1>5. \A k \in T : m <= k
  BY <1>3, <1>4
<1> QED BY <1>5

(* Induction, for sets of numbers.                                         *)
LEMMA SetInduction ==
    ASSUME NEW T, 0 \in T, \A n \in Nat : n \in T => n + 1 \in T
    PROVE  Nat \subseteq T
<1> SUFFICES ASSUME Nat \ T # {}
             PROVE  FALSE
  OBVIOUS
<1>1. PICK m \in Nat \ T : \A k \in Nat \ T : m <= k
  BY LeastNatural
<1>2. m - 1 \in Nat /\ m - 1 \in T
  BY <1>1
<1>3. (m - 1) + 1 = m
  BY <1>1
<1> QED BY <1>1, <1>2, <1>3

(* There is one way to replay a program: any sequence of databases each of *)
(* which is the result of the one before is the one States defines.        *)
LEMMA StatesAreUnique ==
    ASSUME NEW p, NEW d, Len(p) \in Nat,
           NEW states, states[0] = d,
           \A i \in 1..Len(p) : Result(states[i - 1], p[i]) = states[i]
    PROVE  \A i \in 0..Len(p) : States(p, d)[i] = states[i]
<1> DEFINE D == 0..Len(p)
           Unfolds(g) == g = [i \in D |-> IF i = 0 THEN d ELSE Result(g[i - 1], p[i])]
           f == CHOOSE g : Unfolds(g)
           h == [i \in D |-> states[i]]
<1>1. \A i \in D : i = 0 \/ (i \in 1..Len(p) /\ i - 1 \in D)
  OBVIOUS
<1>2. Unfolds(h)
  <2>1. \A i \in D : h[i] = IF i = 0 THEN d ELSE Result(h[i - 1], p[i])
    <3>1. \A i \in D : h[i] = states[i]
      OBVIOUS
    <3> HIDE DEF h
    <3> QED BY <1>1, <3>1
  <2> QED BY <2>1
<1>3. Unfolds(f)
  <2> HIDE DEF Unfolds
  <2> QED BY <1>2
<1>4. States(p, d) = f
  BY DEF States
<1> HIDE DEF f
<1>5. \A i \in D : f[i] = IF i = 0 THEN d ELSE Result(f[i - 1], p[i])
  BY <1>3
<1> DEFINE Same == {i \in Nat : i \in D => f[i] = states[i]}
<1>6. 0 \in Same
  BY <1>5
<1>7. ASSUME NEW i \in Nat, i \in Same
      PROVE  i + 1 \in Same
  <2>1. SUFFICES ASSUME i + 1 \in D
                 PROVE  f[i + 1] = states[i + 1]
    OBVIOUS
  <2>2. i \in D /\ i + 1 \in 1..Len(p) /\ i + 1 # 0 /\ (i + 1) - 1 = i
    BY <2>1
  <2>3. f[i + 1] = Result(f[i], p[i + 1])
    BY <2>1, <2>2, <1>5
  <2> QED BY <2>2, <2>3, <1>7
<1> HIDE DEF Same
<1>8. Nat \subseteq Same
  BY <1>6, <1>7, SetInduction
<1> QED BY <1>4, <1>8 DEF Same

(* A trace to the end of a program is a replay of it.                      *)
LEMMA TraceReplays ==
    ASSUME NEW d, NEW S, NEW p \in Seq(S), NEW states, NEW v, NEW ls, NEW made,
           Trace(d, p, Len(p), states, v, ls, made)
    PROVE  Replays(p, d) /\ Replay(p, d) = v
<1>1. Len(p) \in Nat /\ DOMAIN p = 1..Len(p)
  OBVIOUS
<1>2. states[0] = d /\ states[Len(p)] = v
      /\ \A i \in 1..Len(p) : /\ Succeeds(states[i - 1], p[i])
                              /\ Result(states[i - 1], p[i]) = states[i]
  BY DEF Trace
<1>3. \A i \in 0..Len(p) : States(p, d)[i] = states[i]
  BY <1>1, <1>2, StatesAreUnique
<1>4. Len(p) \in 0..Len(p) /\ \A i \in 1..Len(p) : i - 1 \in 0..Len(p)
  BY <1>1
<1> QED BY <1>1, <1>2, <1>3, <1>4 DEF Replays, Replay

-----------------------------------------------------------------------------
(* A request that has not ended has an account of its statements so far.   *)
TracedRequest(s) ==
    \E states : Trace(db, program[s], step[s], states, View(s), locks[s], delta[s].made)

(* The inductive invariant of serial order.                                *)
SerialInv ==
    /\ \A s \in Session : pc[s] # "done" => TracedRequest(s)
    /\ \A s \in Session : pc[s] = "done" => delta[s].made = {}
    /\ \A s \in Session : \A o \in Session \ {s} : Apart(delta[s].made, delta[o].made)
    /\ \A s \in Session : step[s] <= Len(program[s])
    /\ \A s \in Session : pc[s] = "committing" => step[s] = Len(program[s])
    /\ DOMAIN outcome = Session
    /\ \A s \in Session : outcome[s] = "none" <=> pc[s] # "done"

(* Rows nobody made clash with none.                                       *)
LEMMA NothingMade ==
    ASSUME NEW made
    PROVE  Apart({}, made) /\ Apart(made, {})
BY DEF Apart, RowsIn

(* The statements of programs.                                             *)
LEMMA ProgramShape ==
    ASSUME NEW p \in Programs
    PROVE  /\ p \in Seq({p[i] : i \in DOMAIN p})
           /\ Len(p) \in Nat /\ DOMAIN p = 1..Len(p)
           /\ \A i \in 1..Len(p) : IsStatement(p[i])
           /\ ProgramsNameRows => \A i \in 1..Len(p) : NamesRow(p[i])
<1>1. p \in Seq({p[i] : i \in DOMAIN p}) /\ \A i \in DOMAIN p : IsStatement(p[i])
  BY ProgramsAreStatements
<1>2. Len(p) \in Nat /\ DOMAIN p = 1..Len(p)
  BY <1>1
<1> QED BY <1>1, <1>2 DEF ProgramsNameRows

(* What two sessions made is apart whichever is named first.               *)
LEMMA ApartIsMutual ==
    ASSUME NEW made, NEW others, Apart(made, others)
    PROVE  Apart(others, made)
BY DEF Apart, Clash

(* At the start no statement has run.                                      *)
LEMMA InitSerial == Init => SerialInv
<1> SUFFICES ASSUME Init
             PROVE  SerialInv
  OBVIOUS
<1>1. IsDatabase(db) /\ Integrity(db)
  BY InitialIsWhole DEF Init, AbstractInit
<1>2. /\ \A s \in Session : pc[s] = "new" /\ step[s] = 0 /\ delta[s] = Clean /\ locks[s] = {}
      /\ \A s \in Session : outcome[s] = "none"
      /\ DOMAIN outcome = Session
      /\ program \in [Session -> Programs]
  BY WorkloadsArePrograms DEF Init, AbstractInit
<1>3. Clean.made = {}
  BY DEF Clean
<1>4. ASSUME NEW s \in Session
      PROVE  TracedRequest(s)
  <2>1. View(s) = db
    BY <1>1, <1>2, NothingChanged, ViewIsViewOf
  <2>2. Trace(db, program[s], 0, [i \in {0} |-> db], db, {}, {})
    BY <1>1, EmptyTrace
  <2> QED BY <1>2, <1>3, <2>1, <2>2 DEF TracedRequest
<1>5. \A s \in Session : step[s] <= Len(program[s])
  BY <1>2, ProgramShape
<1>6. \A s \in Session : \A o \in Session \ {s} : Apart(delta[s].made, delta[o].made)
  BY <1>2, <1>3, NothingMade
<1> QED BY <1>2, <1>3, <1>4, <1>5, <1>6 DEF SerialInv

(* A request that moves on without a statement.                            *)
LEMMA MovingOnKeepsSerial ==
    ASSUME IInv, SerialInv, NEW s \in Session, NEW place \in Places \ {"done"}, Goto(s, place),
           pc[s] # "done", place = "committing" => step[s] = Len(program[s]),
           UNCHANGED <<db, program, outcome, step, delta, locks>>
    PROVE  SerialInv'
<1>1. /\ pc'[s] = place /\ \A o \in Session \ {s} : pc'[o] = pc[o]
  BY DEF IInv, Goto
<1>2. ASSUME NEW o \in Session
      PROVE  TracedRequest(o)' <=> TracedRequest(o)
  BY DEF TracedRequest, View
<1>3. \A o \in Session : pc'[o] # "done" => TracedRequest(o)'
  BY <1>1, <1>2 DEF SerialInv
<1> QED BY <1>1, <1>3 DEF SerialInv

(* A statement runs.                                                       *)
LEMMA ExecuteKeepsSerial ==
    ASSUME IInv, SerialInv, NEW s \in Session, Execute(s)
    PROVE  SerialInv'
<1> DEFINE p  == program[s]
           k  == step[s]
           v  == View(s)
           st == p[k + 1]
           n  == Result(v, st)
           ls == locks[s] \cup LocksOf(v, st)
           more == delta[s].made \cup Beyond(n, db)
           now == [added   |-> Beyond(n, db),
                   removed |-> Beyond(db, n),
                   made    |-> more]
<1>1. /\ pc[s] = "running" /\ Succeeds(v, st) /\ Blockers(s) = {} /\ Statement(s) = st
      /\ delta' = [delta EXCEPT ![s] = now]
      /\ locks' = [locks EXCEPT ![s] = @ \cup LocksOf(v, st)]
      /\ step' = [step EXCEPT ![s] = @ + 1]
      /\ pc' = [pc EXCEPT ![s] = "open"]
      /\ db' = db /\ program' = program /\ outcome' = outcome
  BY DEF Execute, Statement, Goto
<1>2. /\ p \in Programs /\ k \in Nat /\ k < Len(p)
      /\ DOMAIN delta = Session /\ DOMAIN locks = Session
      /\ step \in [Session -> Nat] /\ pc \in [Session -> Places]
      /\ IsDatabase(db) /\ Integrity(db)
  BY <1>1 DEF IInv, Coherent
<1>3. IsStatement(st) /\ Len(p) \in Nat
  BY <1>2, NextIsStatement, ProgramShape
<1>4. PICK states : Trace(db, p, k, states, v, locks[s], delta[s].made)
  BY <1>1 DEF SerialInv, TracedRequest
<1>5. \A t \in Tables : RowsIn(more, t) = RowsIn(delta[s].made, t) \cup (n[t] \ db[t])
  <2>1. ASSUME NEW t \in Tables
        PROVE  RowsIn(more, t) = RowsIn(delta[s].made, t) \cup RowsIn(Beyond(n, db), t)
    BY DEF RowsIn
  <2> HIDE DEF n, more
  <2>2. \A t \in Tables : RowsIn(Beyond(n, db), t) = n[t] \ db[t]
    BY RowsBeyond
  <2> QED BY <2>1, <2>2
<1>6. \E longer : Trace(db, p, k + 1, longer, n, ls, more)
  <2> DEFINE d == db
             made == delta[s].made
             held == locks[s]
  <2>1. /\ n = Result(v, p[k + 1]) /\ ls = held \cup LocksOf(v, p[k + 1])
        /\ IsStatement(p[k + 1]) /\ Succeeds(v, p[k + 1])
        /\ IsDatabase(d) /\ Integrity(d) /\ Trace(d, p, k, states, v, held, made)
        /\ \A t \in Tables : RowsIn(more, t) = RowsIn(made, t) \cup (n[t] \ d[t])
        /\ k \in Nat
    BY <1>1, <1>2, <1>3, <1>4, <1>5
  <2> HIDE DEF more, p, k, v, n, ls, d, made, held
  <2>2. \E longer : Trace(d, p, k + 1, longer, n, ls, more)
    BY <2>1, TraceGrows
  <2> QED BY <2>2 DEF d
<1>7. k \in 0..k
  BY <1>2
<1>8. /\ Tracked(db, v, locks[s])
      /\ \A t \in Tables : v[t] \ db[t] \subseteq RowsIn(delta[s].made, t)
  BY <1>4, <1>7 DEF Trace
<1>9. IsDatabase(n)
  BY <1>3, <1>8, ResultTyped DEF Tracked
<1>10. ViewOf(db, now) = n
  <2>1. now.added = Beyond(n, db) /\ now.removed = Beyond(db, n)
    OBVIOUS
  <2> HIDE DEF n, now
  <2> QED BY <1>9, <2>1, ViewOfBeyond
<1>11. ASSUME NEW o \in Session \ {s}
       PROVE  Apart(more, delta[o].made)
  <2>1. ~LockedOut(s, o) /\ ~Contested(s, o)
    BY <1>1 DEF Blockers
  <2>2. CASE pc[o] = "done"
    BY <2>2, NothingMade DEF SerialInv
  <2>3. CASE pc[o] # "done"
    <3>1. PICK theirs : Trace(db, program[o], step[o], theirs, View(o), locks[o], delta[o].made)
      BY <2>3 DEF SerialInv, TracedRequest
    <3>2. NoConflict(ls, locks[o])
      <4>1. NoConflict(LocksOf(v, st), locks[o])
        BY <1>1, <2>1 DEF LockedOut, NoConflict
      <4>2. NoConflict(locks[s], locks[o])
        BY DEF IInv, Coherent
      <4> QED BY <4>1, <4>2 DEF NoConflict
    <3>3. ASSUME NEW c \in Written(v, st), NEW u \in UniqueOn(st.table),
                 NEW y \in RowsIn(delta[o].made, st.table)
          PROVE  ~((c[1] # NULL => Identity(st.table, y) # Identity(st.table, c[1]))
                   /\ Clash(u, c[2], y))
      <4>1. y \in RowsIn(delta[o].made \cup delta[o].removed, st.table)
        BY DEF RowsIn
      <4> QED BY <1>1, <2>1, <4>1 DEF Contested
    <3>4. Apart(delta[s].made, delta[o].made) /\ step[o] \in Nat
      BY <1>2 DEF SerialInv
    <3> HIDE DEF more, v, st, n
    <3>5. n = Result(v, st)
      BY DEF n
    <3> QED BY <1>2, <1>3, <1>5, <1>8, <3>1, <3>2, <3>3, <3>4, <3>5, StatementKeepsApart
  <2> QED BY <2>2, <2>3
<1> HIDE DEF now, more, n, ls, v, st
<1>12. /\ delta'[s] = now /\ now.made = more /\ locks'[s] = ls /\ step'[s] = k + 1
       /\ pc'[s] = "open"
       /\ \A o \in Session \ {s} : /\ delta'[o] = delta[o] /\ locks'[o] = locks[o]
                                   /\ step'[o] = step[o] /\ pc'[o] = pc[o]
  BY <1>1, <1>2 DEF ls, now
<1>13. View(s)' = n
  BY <1>1, <1>10, <1>12 DEF View, ViewOf
<1>14. \A o \in Session \ {s} : TracedRequest(o)' <=> TracedRequest(o)
  BY <1>1, <1>12 DEF TracedRequest, View
<1>15. TracedRequest(s)'
  BY <1>1, <1>6, <1>12, <1>13 DEF TracedRequest
<1>16. \A o \in Session : pc'[o] # "done" => TracedRequest(o)'
  BY <1>12, <1>14, <1>15 DEF SerialInv
<1>17. \A o \in Session : \A q \in Session \ {o} : Apart(delta'[o].made, delta'[q].made)
  BY <1>11, <1>12, ApartIsMutual DEF SerialInv
<1>18. \A o \in Session : step'[o] <= Len(program'[o])
  BY <1>1, <1>2, <1>3, <1>12 DEF SerialInv
<1>19. /\ \A o \in Session : pc'[o] = "done" => delta'[o].made = {}
       /\ \A o \in Session : pc'[o] = "committing" => step'[o] = Len(program'[o])
       /\ DOMAIN outcome' = Session
       /\ \A o \in Session : outcome'[o] = "none" <=> pc'[o] # "done"
  BY <1>1, <1>12 DEF SerialInv
<1> QED BY <1>16, <1>17, <1>18, <1>19 DEF SerialInv

(* What another transaction sees after a commit is its view with the       *)
(* committed changes merged in.                                            *)
LEMMA ViewAfterCommit ==
    ASSUME NEW d, NEW changes, NEW held, Coherent(d, changes, held),
           NEW s \in Session, NEW o \in Session \ {s}
    PROVE  ViewOf(ViewOf(d, changes[s]), changes[o])
             = Merged(d, ViewOf(d, changes[o]), ViewOf(d, changes[s]))
<1> DEFINE v == ViewOf(d, changes[o])
           w == ViewOf(d, changes[s])
           m == ViewOf(w, changes[o])
           g == Merged(d, v, w)
<1>1. Exact(d, changes[o])
  BY DEF Coherent
<1>2. \A t \in Tables : /\ v[t] \ d[t] = RowsIn(changes[o].added, t)
                        /\ d[t] \ v[t] = RowsIn(changes[o].removed, t)
  BY <1>1, ChangesOfView
<1> HIDE DEF v, w
<1>3. \A t \in Tables : m[t] = (w[t] \ RowsIn(changes[o].removed, t)) \cup RowsIn(changes[o].added, t)
  BY DEF ViewOf
<1>4. \A t \in Tables : g[t] = (w[t] \ (d[t] \ v[t])) \cup (v[t] \ d[t])
  BY DEF Merged
<1>5. m = [t \in Tables |-> m[t]]
  BY DEF ViewOf
<1>6. g = [t \in Tables |-> g[t]]
  BY DEF Merged
<1> HIDE DEF m, g
<1>7. \A t \in Tables : m[t] = g[t]
  BY <1>2, <1>3, <1>4
<1>8. m = g
  BY <1>5, <1>6, <1>7
<1> QED BY <1>8 DEF m, g, v, w

(* The end of a request, with or without its changes.                      *)
LEMMA EndKeepsSerial ==
    ASSUME ProgramsNameRows, IInv, SerialInv, NEW s \in Session, pc[s] # "done",
           NEW told \in {"committed", "failed"}, End(s, told),
           UNCHANGED <<program, step>>,
           db' = db \/ db' = View(s)
    PROVE  SerialInv'
<1>1. /\ pc' = [pc EXCEPT ![s] = "done"]
      /\ outcome' = [outcome EXCEPT ![s] = told]
      /\ delta' = [delta EXCEPT ![s] = Clean]
      /\ locks' = [locks EXCEPT ![s] = {}]
      /\ program' = program /\ step' = step
  BY DEF End, Goto
<1>2. /\ pc \in [Session -> Places] /\ Coherent(db, delta, locks)
      /\ step \in [Session -> Nat] /\ program \in [Session -> Programs]
      /\ IsDatabase(db) /\ Integrity(db)
      /\ DOMAIN delta = Session /\ DOMAIN locks = Session /\ DOMAIN outcome = Session
  BY DEF IInv, Coherent, SerialInv
<1>3. /\ pc'[s] = "done" /\ delta'[s] = Clean /\ outcome'[s] = told
      /\ \A o \in Session \ {s} : /\ pc'[o] = pc[o] /\ delta'[o] = delta[o]
                                  /\ locks'[o] = locks[o] /\ outcome'[o] = outcome[o]
  BY <1>1, <1>2
<1>4. Clean.made = {}
  BY DEF Clean
<1>5. ASSUME NEW o \in Session \ {s}, pc[o] # "done"
      PROVE  TracedRequest(o)'
  <2>1. CASE db' = db
    <3>1. View(o)' = View(o)
      BY <2>1, <1>3 DEF View
    <3>2. TracedRequest(o)
      BY <1>5 DEF SerialInv
    <3> QED BY <2>1, <3>1, <3>2, <1>1, <1>3 DEF TracedRequest
  <2>2. CASE db' = View(s)
    <3>1. PICK mine : Trace(db, program[s], step[s], mine, View(s), locks[s], delta[s].made)
      BY DEF SerialInv, TracedRequest
    <3>2. PICK theirs : Trace(db, program[o], step[o], theirs, View(o), locks[o], delta[o].made)
      BY <1>5 DEF SerialInv, TracedRequest
    <3>3. /\ Tracked(db, View(s), locks[s])
          /\ \A t \in Tables : View(s)[t] \ db[t] \subseteq RowsIn(delta[s].made, t)
      <4>1. step[s] \in 0..step[s]
        BY <1>2
      <4> QED BY <3>1, <4>1 DEF Trace
    <3>4. NoConflict(locks[o], locks[s]) /\ Apart(delta[o].made, delta[s].made)
      BY <1>2 DEF Coherent, SerialInv
    <3>5. /\ step[o] \in Nat
          /\ \A i \in 1..step[o] : IsStatement(program[o][i]) /\ NamesRow(program[o][i])
      <4>1. program[o] \in Programs /\ step[o] \in Nat /\ step[o] <= Len(program[o])
        BY <1>2 DEF SerialInv
      <4>2. /\ Len(program[o]) \in Nat
            /\ \A i \in 1..Len(program[o]) : IsStatement(program[o][i]) /\ NamesRow(program[o][i])
        BY <4>1, ProgramShape
      <4> QED BY <4>1, <4>2
    <3>6. View(o)' = Merged(db, View(o), View(s))
      <4>1. View(o)' = ViewOf(db', delta[o])
        BY <1>3 DEF View, ViewOf
      <4>2. View(s) = ViewOf(db, delta[s]) /\ View(o) = ViewOf(db, delta[o])
        BY ViewIsViewOf
      <4> QED BY <2>2, <4>1, <4>2, <1>2, ViewAfterCommit
    <3> DEFINE d == db
               w == View(s)
               v == View(o)
               p == program[o]
               k == step[o]
               ls == locks[o]
               ms == locks[s]
               made == delta[o].made
               others == delta[s].made
    <3>7. /\ IsDatabase(d) /\ Integrity(d) /\ k \in Nat
          /\ Trace(d, p, k, theirs, v, ls, made)
          /\ \A i \in 1..k : IsStatement(p[i]) /\ NamesRow(p[i])
          /\ Tracked(d, w, ms) /\ NoConflict(ls, ms)
          /\ \A t \in Tables : w[t] \ d[t] \subseteq RowsIn(others, t)
          /\ Apart(made, others)
      BY <1>2, <3>2, <3>3, <3>4, <3>5
    <3> HIDE DEF d, w, v, p, k, ls, ms, made, others
    <3>8. \E after : Trace(w, p, k, after, Merged(d, v, w), ls, made)
      BY <3>7, TraceMerges
    <3>9. \E after : Trace(db', program[o], step[o], after, View(o)', locks[o], delta[o].made)
      BY <2>2, <3>6, <3>8 DEF d, w, v, p, k, ls, made
    <3>10. /\ program'[o] = program[o] /\ step'[o] = step[o]
           /\ locks'[o] = locks[o] /\ delta'[o] = delta[o]
      BY <1>1, <1>3
    <3> QED BY <3>9, <3>10 DEF TracedRequest
  <2> QED BY <2>1, <2>2
<1>6. \A o \in Session : pc'[o] # "done" => TracedRequest(o)'
  BY <1>3, <1>5
<1>7. \A o \in Session : \A q \in Session \ {o} : Apart(delta'[o].made, delta'[q].made)
  <2> SUFFICES ASSUME NEW o \in Session, NEW q \in Session \ {o}
               PROVE  Apart(delta'[o].made, delta'[q].made)
    OBVIOUS
  <2>1. CASE o = s
    BY <2>1, <1>3, <1>4, NothingMade
  <2>2. CASE q = s
    BY <2>2, <1>3, <1>4, NothingMade
  <2>3. CASE o # s /\ q # s
    BY <2>3, <1>3 DEF SerialInv
  <2> QED BY <2>1, <2>2, <2>3
<1>8. \A o \in Session : step'[o] <= Len(program'[o])
  BY <1>1 DEF SerialInv
<1>9. /\ \A o \in Session : pc'[o] = "done" => delta'[o].made = {}
      /\ \A o \in Session : pc'[o] = "committing" => step'[o] = Len(program'[o])
      /\ DOMAIN outcome' = Session
      /\ \A o \in Session : outcome'[o] = "none" <=> pc'[o] # "done"
  BY <1>1, <1>2, <1>3, <1>4 DEF SerialInv
<1> QED BY <1>6, <1>7, <1>8, <1>9 DEF SerialInv

(* Every step keeps it.                                                    *)
LEMMA NextKeepsSerial ==
    ASSUME ProgramsNameRows, IInv, SerialInv, [Next]_vars
    PROVE  SerialInv'
<1>1. CASE UNCHANGED vars
  <2>1. UNCHANGED <<db, program, outcome, pc, step, delta, locks>>
    BY <1>1 DEF vars
  <2>2. \A s \in Session : TracedRequest(s)' <=> TracedRequest(s)
    BY <2>1 DEF TracedRequest, View
  <2> QED BY <2>1, <2>2 DEF SerialInv
<1>2. ASSUME NEW s \in Session, Checkout(s) \/ Refuse(s) \/ DeadlockAbort(s) \/ Issue(s)
                \/ Raise(s) \/ Return(s) \/ Cancel(s)
      PROVE  SerialInv'
  <2>1. UNCHANGED <<db, program, outcome, step, delta, locks>> /\ pc[s] # "done"
    BY <1>2 DEF Checkout, Refuse, DeadlockAbort, Issue, Raise, Return, Cancel
  <2>2. \E place \in Places \ {"done"} :
           Goto(s, place) /\ (place = "committing" => step[s] = Len(program[s]))
    BY <1>2 DEF Checkout, Refuse, DeadlockAbort, Issue, Raise, Return, Cancel, Places
  <2> QED BY <2>1, <2>2, MovingOnKeepsSerial
<1>3. ASSUME NEW s \in Session, Execute(s)
      PROVE  SerialInv'
  BY <1>3, ExecuteKeepsSerial
<1>4. ASSUME NEW s \in Session, CheckoutTimeout(s) \/ Commit(s) \/ CommitLost(s) \/ Close(s)
      PROVE  SerialInv'
  <2>1. /\ UNCHANGED <<program, step>> /\ pc[s] # "done"
        /\ db' = db \/ db' = View(s)
        /\ \E told \in {"committed", "failed"} : End(s, told)
    BY <1>4 DEF CheckoutTimeout, Commit, CommitLost, Close
  <2> QED BY <2>1, EndKeepsSerial
<1> QED BY <1>1, <1>2, <1>3, <1>4 DEF Next, Proceed, Driver, Handler, Dependency, AllDone

(* The moment of COMMIT is the moment the whole request takes effect.      *)
LEMMA CommitApplies ==
    ASSUME IInv, SerialInv, NEW s \in Session, pc[s] = "committing", db' = View(s),
           NEW told \in {"committed", "failed"}, End(s, told), UNCHANGED program
    PROVE  Apply(s)
<1>1. /\ program[s] \in Programs /\ step[s] = Len(program[s])
      /\ outcome[s] = "none" /\ outcome' = [outcome EXCEPT ![s] = told]
  BY DEF IInv, SerialInv, End
<1>2. PICK states : Trace(db, program[s], step[s], states, View(s), locks[s], delta[s].made)
  BY DEF SerialInv, TracedRequest
<1> DEFINE p == program[s]
           v == View(s)
           ls == locks[s]
           made == delta[s].made
<1>3. p \in Seq({p[i] : i \in DOMAIN p}) /\ Trace(db, p, Len(p), states, v, ls, made)
  BY <1>1, <1>2, ProgramShape
<1> HIDE DEF p, v, ls, made
<1>4. Replays(p, db) /\ Replay(p, db) = v
  BY <1>3, TraceReplays
<1> QED BY <1>1, <1>4 DEF Apply, p, v

(* Each step of get_session and PostgreSQL is one of SerialTransactions:   *)
(* a commit applies a request, any other end refuses it, and the rest      *)
(* nobody sees.                                                            *)
LEMMA StepImplementsSerial ==
    ASSUME IInv, SerialInv, [Next]_vars
    PROVE  [\E s \in Session : Apply(s) \/ Refused(s)]_<<db, program, outcome>>
<1>1. CASE UNCHANGED vars
  BY <1>1 DEF vars
<1>2. ASSUME NEW s \in Session, Checkout(s) \/ Refuse(s) \/ DeadlockAbort(s) \/ Issue(s)
                \/ Raise(s) \/ Return(s) \/ Cancel(s) \/ Execute(s)
      PROVE  UNCHANGED <<db, program, outcome>>
  BY <1>2 DEF Checkout, Refuse, DeadlockAbort, Issue, Raise, Return, Cancel, Execute
<1>3. ASSUME NEW s \in Session, pc[s] # "done", db' = db, End(s, "failed"), UNCHANGED program
      PROVE  Refused(s)
  BY <1>3 DEF Refused, End, SerialInv
<1>4. ASSUME NEW s \in Session, CheckoutTimeout(s) \/ Commit(s) \/ CommitLost(s) \/ Close(s)
      PROVE  Apply(s) \/ Refused(s)
  <2>1. CASE CheckoutTimeout(s) \/ Close(s)
    BY <2>1, <1>3 DEF CheckoutTimeout, Close
  <2>2. CASE Commit(s)
    BY <2>2, CommitApplies DEF Commit
  <2>3. CASE CommitLost(s)
    <3>1. pc[s] = "committing" /\ End(s, "failed") /\ UNCHANGED program /\ (db' = db \/ db' = View(s))
      BY <2>3 DEF CommitLost
    <3>2. CASE db' = db
      BY <3>1, <3>2, <1>3
    <3>3. CASE db' = View(s)
      BY <3>1, <3>3, CommitApplies
    <3> QED BY <3>1, <3>2, <3>3
  <2> QED BY <1>4, <2>1, <2>2, <2>3
<1> QED BY <1>1, <1>2, <1>4 DEF Next, Proceed, Driver, Handler, Dependency, AllDone

(* Overlapping requests are as good as consecutive ones, each whole or     *)
(* absent, for any programs whose updates and deletions name their row by  *)
(* its primary key, any number of requests and any pool: get_session with  *)
(* PostgreSQL's locks at READ COMMITTED implements SerialTransactions.     *)
THEOREM CommitsImplementSerial ==
    ASSUME ProgramsNameRows
    PROVE  Spec => CommitsAreSerial
<1>1. Init => AbstractInit
  BY DEF Init
<1>2. Init => SerialInv
  BY InitSerial
<1>3. IInv /\ SerialInv /\ [Next]_vars => SerialInv'
  BY NextKeepsSerial
<1>4. IInv /\ SerialInv /\ [Next]_vars
        => [\E s \in Session : Apply(s) \/ Refused(s)]_<<db, program, outcome>>
  BY StepImplementsSerial
<1> QED BY <1>1, <1>2, <1>3, <1>4, Invariance, PTL DEF Spec, CommitsAreSerial, AbstractSpec
=============================================================================
