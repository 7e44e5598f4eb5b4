----------------------------- MODULE StoreProofs ----------------------------
(***************************************************************************)
(* Every constraint of the schema holds in every reachable database, for   *)
(* any set of statements: the typing of rows and the conjunction of NOT    *)
(* NULL, CHECK, UNIQUE and FOREIGN KEY is inductive as it stands.          *)
(***************************************************************************)
EXTENDS Store, DatabaseProofs

(* The inductive invariant: the two invariants of the store together.      *)
IInv == TypeOK /\ StoreIntegrity

(* The migration's bulk inserts satisfy the constraints of their tables.   *)
LEMMA SeedTablesShape ==
    /\ Columns("scopes") = {"key", "audience"}
    /\ NotNull("scopes") = {"key", "audience"}
    /\ DOMAIN Checks("scopes") = {}
    /\ UniqueOn("scopes") = {Over({"key"})}
    /\ Columns("role_templates") = {"key"}
    /\ NotNull("role_templates") = {"key"}
    /\ DOMAIN Checks("role_templates") = {}
    /\ UniqueOn("role_templates") = {Over({"key"})}
BY DEF Columns, NotNull, Checks, UniqueOn, Schema, scopes, role_templates

(* The seeded rows pass the row constraints of their tables.               *)
LEMMA SeedsAllowed ==
    /\ \A r \in SeededScopes : RowAllowed("scopes", r)
    /\ \A r \in SeededTemplates : RowAllowed("role_templates", r)
<1>1. ASSUME NEW r \in SeededScopes
      PROVE  RowAllowed("scopes", r)
  <2>1. r \in RowsOf("scopes")
    BY SeedsAreValues
  <2>2. DOMAIN r = {"key", "audience"}
    BY <2>1, SeedTablesShape DEF RowsOf
  <2> QED BY <2>2, SeedsAreNotNull, SeedTablesShape DEF RowAllowed
<1>2. ASSUME NEW r \in SeededTemplates
      PROVE  RowAllowed("role_templates", r)
  <2>1. r \in RowsOf("role_templates")
    BY SeedsAreValues
  <2>2. DOMAIN r = {"key"}
    BY <2>1, SeedTablesShape DEF RowsOf
  <2> QED BY <2>2, SeedsAreNotNull, SeedTablesShape DEF RowAllowed
<1> QED BY <1>1, <1>2

(* The seeded keys are distinct: no scope is catalogued for two audiences. *)
LEMMA SeedKeys ==
    /\ \A r, o \in SeededScopes : r["key"] = o["key"] => r = o
    /\ \A r, o \in SeededTemplates : r["key"] = o["key"] => r = o
<1>1. (TeacherScopes \cup {"courses:write"}) \cap AdminScopes = {}
  BY DEF AdminScopes, TeacherScopes, TutorScopes
<1>2. ASSUME NEW r \in SeededScopes, NEW o \in SeededScopes, r["key"] = o["key"]
      PROVE  r = o
  <2>1. r["audience"] = o["audience"]
    BY <1>1, <1>2 DEF SeededScopes
  <2>2. r \in RowsOf("scopes") /\ o \in RowsOf("scopes")
    BY SeedsAreValues
  <2> QED BY <1>2, <2>1, <2>2, SeedTablesShape DEF RowsOf
<1>3. ASSUME NEW r \in SeededTemplates, NEW o \in SeededTemplates, r["key"] = o["key"]
      PROVE  r = o
  <2>1. r \in RowsOf("role_templates") /\ o \in RowsOf("role_templates")
    BY SeedsAreValues
  <2> QED BY <1>3, <2>1, SeedTablesShape DEF RowsOf
<1> QED BY <1>2, <1>3

(* The migrated database satisfies the schema.                             *)
LEMMA InitIInv == Init => IInv
<1> SUFFICES ASSUME Init PROVE IsDatabase(db) /\ Integrity(db)
  BY DEF IInv, TypeOK, StoreIntegrity
<1>1. /\ db["scopes"] = SeededScopes
      /\ db["role_templates"] = SeededTemplates
      /\ \A t \in Tables \ {"scopes", "role_templates"} : db[t] = {}
      /\ db = [t \in Tables |-> db[t]]
  BY TableNames DEF Init, Migrated, Empty
<1>2. IsDatabase(db)
  BY <1>1, SeedsAreValues DEF IsDatabase
<1>3. RowsAllowed(db)
  BY <1>1, SeedsAllowed DEF RowsAllowed
<1>4. UniqueHolds(db)
  <2> SUFFICES ASSUME NEW t \in Tables, NEW u \in UniqueOn(t),
                      NEW r \in db[t], NEW o \in db[t], Clash(u, r, o)
               PROVE  r = o
    BY DEF UniqueHolds
  <2>1. t \in {"scopes", "role_templates"}
    BY <1>1
  <2>2. u.cols = {"key"}
    BY <2>1, SeedTablesShape, OverFields
  <2>3. r["key"] = o["key"]
    BY <2>2 DEF Clash
  <2> QED BY <1>1, <2>1, <2>3, SeedKeys
<1>5. ForeignHolds(db)
  <2>1. Foreign("scopes") = {} /\ Foreign("role_templates") = {}
    BY Foreigns
  <2> QED BY <1>1, <2>1 DEF ForeignHolds
<1> QED BY <1>2, <1>3, <1>4, <1>5 DEF Integrity

(* So does the database after any accepted statement.                      *)
LEMMA StepIInv ==
    ASSUME IInv, [Next]_db
    PROVE  IInv'
<1>1. CASE UNCHANGED db
  BY <1>1 DEF IInv, TypeOK, StoreIntegrity
<1>2. ASSUME NEW st \in Statements, Accepts(db, st), db' = Result(db, st)
      PROVE  IInv'
  <2>1. IsDatabase(db) /\ Integrity(db)
    BY DEF IInv, TypeOK, StoreIntegrity
  <2>2. IsStatement(st)
    BY StatementsAreWellFormed
  <2>3. CASE st.op = "insert"
    <3>1. /\ InsertOK(db, st.table, st.row)
          /\ db' = AfterInsert(db, st.table, st.row)
      BY <1>2, <2>3 DEF Accepts, Result
    <3>2. st.table \in Tables /\ st.row \in RowsOf(st.table)
      BY <2>2, <2>3 DEF IsStatement
    <3>3. IsDatabase(db') /\ Integrity(db')
      BY <2>1, <3>1, <3>2, InsertTyped, InsertKeepsIntegrity
    <3> QED BY <3>3 DEF IInv, TypeOK, StoreIntegrity
  <2>4. CASE st.op = "update"
    <3>1. /\ UpdateOK(db, st.table, st.where, st.set)
          /\ db' = AfterUpdate(db, st.table, st.where, st.set)
      BY <1>2, <2>4 DEF Accepts, Result
    <3>2. /\ st.table \in Tables
          /\ DOMAIN st.set \subseteq Columns(st.table)
          /\ \A c \in DOMAIN st.set : st.set[c] \in Value
      BY <2>2, <2>4 DEF IsStatement
    <3>3. IsDatabase(db') /\ Integrity(db')
      BY <2>1, <3>1, <3>2, UpdateTyped, UpdateKeepsIntegrity
    <3> QED BY <3>3 DEF IInv, TypeOK, StoreIntegrity
  <2>5. CASE st.op = "delete"
    <3>1. /\ DeleteOK(db, st.table, st.where)
          /\ db' = AfterDelete(db, st.table, st.where)
      BY <1>2, <2>5 DEF Accepts, Result
    <3>2. st.table \in Tables
      BY <2>2 DEF IsStatement
    <3>3. IsDatabase(db') /\ Integrity(db')
      BY <2>1, <3>1, <3>2, DeleteTyped, DeleteKeepsIntegrity
    <3> QED BY <3>3 DEF IInv, TypeOK, StoreIntegrity
  <2> QED BY <2>2, <2>3, <2>4, <2>5 DEF IsStatement
<1> QED BY <1>1, <1>2 DEF Next, Insert, Update, Delete, Issue, Execute

(* Every reachable database holds rows over the columns of their tables.   *)
THEOREM StoreIsTyped == Spec => []TypeOK
<1>1. IInv => TypeOK
  BY DEF IInv
<1> QED BY <1>1, InitIInv, StepIInv, PTL DEF Spec

(* No sequence of statements the schema accepts leads to a row that        *)
(* violates NOT NULL or CHECK, to two rows under one unique key or to a    *)
(* reference to nothing, in any of the fifteen tables.                     *)
THEOREM StoreKeepsIntegrity == Spec => []StoreIntegrity
<1>1. IInv => StoreIntegrity
  BY DEF IInv
<1> QED BY <1>1, InitIInv, StepIInv, PTL DEF Spec
=============================================================================
