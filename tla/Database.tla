------------------------------ MODULE Database ------------------------------
(***************************************************************************)
(* What PostgreSQL does with the schema of AuthSchema: which statements it *)
(* accepts and what they leave behind.  A database is a function from      *)
(* tables to sets of rows, a row a function from columns to values.  All   *)
(* operators are pure, so the modules that execute statements one by one   *)
(* (Tenancy) and concurrently (Sessions) share them.                       *)
(*                                                                         *)
(* A statement is a record                                                 *)
(*   [op |-> "insert", table, row]                                         *)
(*   [op |-> "update", table, where, set]                                  *)
(*   [op |-> "delete", table, where]                                       *)
(* whose "where" and "set" are partial rows: the columns compared, the     *)
(* columns assigned.                                                       *)
(***************************************************************************)
EXTENDS AuthSchema

CONSTANT Value      \* every value a column can hold, NULL included

ASSUME NullIsValue == NULL \in Value

RowsOf(t) == [Columns(t) -> Value]

IsDatabase(d) ==
    /\ d = [t \in Tables |-> d[t]]
    /\ \A t \in Tables : d[t] \subseteq RowsOf(t)

-----------------------------------------------------------------------------
(* Constraints on one row and between two.                                 *)

RowAllowed(t, r) ==
    /\ \A c \in NotNull(t) : r[c] # NULL
    /\ \A c \in DOMAIN Checks(t) : r[c] = NULL \/ r[c] \in Checks(t)[c]

(* Two rows clash on a unique index when both are indexed (they satisfy    *)
(* its WHERE clause) and agree on its columns; NULLs are distinct.         *)
Indexed(u, r) == \A w \in u.where : r[w[1]] = w[2]

Clash(u, r, o) ==
    /\ Indexed(u, r)
    /\ Indexed(u, o)
    /\ \A c \in u.cols : r[c] # NULL /\ r[c] = o[c]

(* MATCH SIMPLE: a row with a NULL referencing column refers to nothing.   *)
Refers(f, r, p) == \A e \in f.on : r[e[1]] # NULL /\ r[e[1]] = p[e[2]]

HasParent(d, f, r) ==
    \/ \E e \in f.on : r[e[1]] = NULL
    \/ \E p \in d[f.parent] : Refers(f, r, p)

(* The rows of table x whose foreign key, with ON DELETE rule "rule",      *)
(* refers to one of the rows in "gone" (a function on tables).             *)
Orphans(d, rule, gone, x) ==
    {r \in d[x] : \E f \in Foreign(x) :
        f.onDelete = rule /\ \E p \in gone[f.parent] : Refers(f, r, p)}

-----------------------------------------------------------------------------
(* INSERT *)

AfterInsert(d, t, r) == [d EXCEPT ![t] = @ \cup {r}]

InsertOK(d, t, r) ==
    /\ RowAllowed(t, r)
    /\ \A u \in UniqueOn(t) : \A o \in d[t] : ~Clash(u, r, o)
    /\ \A f \in Foreign(t) : HasParent(AfterInsert(d, t, r), f, r)

-----------------------------------------------------------------------------
(* UPDATE.  Every foreign key is NO ACTION on update: a row that was       *)
(* referred to must leave its referrers a parent.                          *)

Matching(d, t, where) == {r \in d[t] : \A c \in DOMAIN where : r[c] = where[c]}

Patched(r, set) == [c \in DOMAIN r |-> IF c \in DOMAIN set THEN set[c] ELSE r[c]]

UpdatedRow(d, t, where, set, r) ==
    IF r \in Matching(d, t, where) THEN Patched(r, set) ELSE r

AfterUpdate(d, t, where, set) ==
    [d EXCEPT ![t] = {UpdatedRow(d, t, where, set, r) : r \in @}]

UpdateOK(d, t, where, set) ==
    LET hit   == Matching(d, t, where)
        after == AfterUpdate(d, t, where, set)
    IN  /\ \A r \in hit : RowAllowed(t, Patched(r, set))
        /\ \A u \in UniqueOn(t) : \A r \in hit : \A o \in d[t] \ {r} :
              ~Clash(u, Patched(r, set), UpdatedRow(d, t, where, set, o))
        /\ \A f \in Foreign(t) : \A r \in hit : HasParent(after, f, Patched(r, set))
        /\ \A x \in Tables : \A f \in Foreign(x) : \A r \in after[x] :
              (f.parent = t /\ \E p \in hit : Refers(f, r, p))
                 => HasParent(after, f, r)

-----------------------------------------------------------------------------
(* DELETE.  ON DELETE CASCADE takes the referring rows along, and theirs   *)
(* (CascadeDepth in DatabaseProofs: no chain in this schema is longer);    *)
(* RESTRICT refuses; SET NULL clears the referring columns, and is refused *)
(* when one of them is NOT NULL (never in this schema: NulledNullable).    *)

OnlyIn(t, rows) == [x \in Tables |-> IF x = t THEN rows ELSE {}]

Kids(d, gone) == [x \in Tables |-> Orphans(d, "CASCADE", gone, x)]

Doomed(d, t, rows) ==
    LET kids   == Kids(d, OnlyIn(t, rows))
        nested == Kids(d, kids)
    IN  [x \in Tables |-> OnlyIn(t, rows)[x] \cup kids[x] \cup nested[x]]

Nulled(x, gone, r) ==
    {c \in Columns(x) : \E f \in Foreign(x) :
        /\ f.onDelete = "SET_NULL"
        /\ \E e \in f.on : e[1] = c
        /\ \E p \in gone[f.parent] : Refers(f, r, p)}

Detached_Dropped(x, gone, r) == [c \in DOMAIN r \ Nulled(x, gone, r) |-> r[c]]
Detached(x, gone, r) ==
    [c \in DOMAIN r |-> IF c \in Nulled(x, gone, r) THEN NULL ELSE r[c]]

DeleteOK(d, t, where) ==
    LET gone == Doomed(d, t, Matching(d, t, where))
    IN  \A x \in Tables :
          /\ Orphans(d, "RESTRICT", gone, x) = {}
          /\ \A r \in d[x] \ gone[x] : Nulled(x, gone, r) \cap NotNull(x) = {}

AfterDelete(d, t, where) ==
    LET gone == Doomed(d, t, Matching(d, t, where))
    IN  [x \in Tables |-> {Detached(x, gone, r) : r \in d[x] \ gone[x]}]

-----------------------------------------------------------------------------
(* Statements: whether one is accepted, and the database it leaves.        *)

IsStatement(st) ==
    /\ st.op \in {"insert", "update", "delete"}
    /\ st.table \in Tables
    /\ st.op = "insert" => st.row \in RowsOf(st.table)
    /\ st.op # "insert" => DOMAIN st.where \subseteq Columns(st.table)
    /\ st.op = "update" => /\ DOMAIN st.set \subseteq Columns(st.table)
                           /\ \A c \in DOMAIN st.set : st.set[c] \in Value

Accepts(d, st) ==
    CASE st.op = "insert" -> InsertOK(d, st.table, st.row)
      [] st.op = "update" -> UpdateOK(d, st.table, st.where, st.set)
      [] st.op = "delete" -> DeleteOK(d, st.table, st.where)

Result(d, st) ==
    CASE st.op = "insert" -> AfterInsert(d, st.table, st.row)
      [] st.op = "update" -> AfterUpdate(d, st.table, st.where, st.set)
      [] st.op = "delete" -> AfterDelete(d, st.table, st.where)

-----------------------------------------------------------------------------
(* What the constraints together guarantee of a whole database.            *)

RowsAllowed(d)  == \A t \in Tables : \A r \in d[t] : RowAllowed(t, r)

UniqueHolds(d)  == \A t \in Tables : \A u \in UniqueOn(t) : \A r, o \in d[t] :
                       Clash(u, r, o) => r = o

ForeignHolds(d) == \A t \in Tables : \A f \in Foreign(t) : \A r \in d[t] :
                       HasParent(d, f, r)

Integrity(d) == RowsAllowed(d) /\ UniqueHolds(d) /\ ForeignHolds(d)

Empty == [t \in Tables |-> {}]
=============================================================================
