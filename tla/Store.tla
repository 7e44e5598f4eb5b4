------------------------------- MODULE Store --------------------------------
(***************************************************************************)
(* The authentication database with statements executed one at a time, as  *)
(* in autocommit: the reference every concurrent execution is compared     *)
(* with (see Sessions).  A refused statement changes nothing.              *)
(***************************************************************************)
EXTENDS Database

CONSTANT Statements     \* the statements clients of the database may issue

ASSUME StatementsAreWellFormed == \A st \in Statements : IsStatement(st)

ASSUME SeedsAreValues ==
    SeededScopes \subseteq RowsOf("scopes")
      /\ SeededTemplates \subseteq RowsOf("role_templates")

ASSUME SeedsAreNotNull ==
    \A r \in SeededScopes \cup SeededTemplates : \A c \in DOMAIN r : r[c] # NULL

VARIABLE db

(* The database "alembic upgrade head" leaves: the reference data only.    *)
Migrated ==
    [Empty EXCEPT !["scopes"] = SeededScopes, !["role_templates"] = SeededTemplates]

Init == db = Migrated

Execute(st) == Accepts(db, st) /\ db' = Result(db, st)

Issue(op) == \E st \in Statements : st.op = op /\ Execute(st)

Insert == Issue("insert")
Update == Issue("update")
Delete == Issue("delete")

Next == Insert \/ Update \/ Delete

Spec == Init /\ [][Next]_db

(* Every table holds rows over its own columns, with values of the column  *)
(* types.                                                                  *)
TypeOK == IsDatabase(db)

(* The constraints of the schema hold of the stored rows after any         *)
(* sequence of accepted statements, not only of the row each one wrote:    *)
(* no cascade, SET NULL or key change leaves a NULL in a NOT NULL column,  *)
(* two rows under one unique key, or a reference to nothing.               *)
StoreIntegrity == Integrity(db)
=============================================================================
