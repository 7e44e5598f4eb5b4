------------------------------ MODULE Sessions ------------------------------
(***************************************************************************)
(* Requests that use the database at the same time, each through one       *)
(* AsyncSession of app/core/db.py.                                         *)
(*                                                                         *)
(* get_session opens a session, hands it to the request handler, commits   *)
(* when the handler returns and rolls back when it raises.  A connection   *)
(* is taken from the pool at the first statement and given back when the   *)
(* session closes.  PostgreSQL runs the statements at READ COMMITTED: a    *)
(* transaction sees the committed rows and its own changes, locks the rows *)
(* it writes and the rows its foreign keys depend on until it ends, waits  *)
(* for a transaction that holds a conflicting lock or an uncommitted row   *)
(* under the same unique key, and is aborted when that wait is circular.   *)
(*                                                                         *)
(* A statement takes its locks and runs in one step, or waits holding only *)
(* the locks of the statements before it.                                  *)
(***************************************************************************)
EXTENDS SerialTransactions, FiniteSets

CONSTANT PoolLimit      \* db_pool_size + db_max_overflow

ASSUME PoolIsPositive == PoolLimit \in Nat \ {0}

VARIABLES
    pc,         \* where each request is
    step,       \* how many of its statements have run
    delta,      \* what its open transaction added, removed and made: <<table, row>>
    locks       \* row locks it holds: <<mode, table, primary key>>

vars == <<db, program, outcome, pc, step, delta, locks>>

(* "made" also has the new rows it has replaced or deleted again.          *)
Clean == [added |-> {}, removed |-> {}, made |-> {}]

Connected == {s \in Session : pc[s] \in {"open", "running", "committing", "closing"}}

-----------------------------------------------------------------------------
(* What a transaction sees, and which locks its statements need.           *)

RowsIn(changes, t) == {x[2] : x \in {y \in changes : y[1] = t}}

View(s) ==
    [t \in Tables |-> (db[t] \ RowsIn(delta[s].removed, t)) \cup RowsIn(delta[s].added, t)]

(* What is in database n and not in d.                                     *)
Beyond(n, d) == UNION {{t} \X (n[t] \ d[t]) : t \in Tables}

Statement(s) == program[s][step[s] + 1]

Identity(t, r) == [c \in Key(t) |-> r[c]]

Lock(mode, t, rows) == {<<mode, t, Identity(t, r)>> : r \in rows}

(* The columns a foreign key may refer to: those of the unique indexes     *)
(* that are not partial.  Changing one takes the strongest row lock.       *)
KeyColumns(t) == UNION {u.cols : u \in {x \in UniqueOn(t) : x.where = {}}}

Rewritten(t, rows, set) == {r \in rows : \E c \in DOMAIN set \cap KeyColumns(t) : r[c] # set[c]}

(* Rows a new or changed row refers to stay put until the writer ends.     *)
(* "cols" are the columns written; a key without one of them is not        *)
(* checked again.                                                          *)
ParentLocks(v, t, rows, cols) ==
    UNION {Lock("key_share", f.parent, {p \in v[f.parent] : \E r \in rows : Refers(f, r, p)}) :
              f \in {g \in Foreign(t) : \E e \in g.on : e[1] \in cols}}

(* The rows that referred to a key that changes are looked up and locked.  *)
ReferrerLocks(v, t, rows, cols) ==
    UNION {Lock("key_share", x,
                {r \in v[x] : \E f \in Foreign(x) : /\ f.parent = t
                                                    /\ \E e \in f.on : e[2] \in cols
                                                    /\ \E p \in rows : Refers(f, r, p)}) :
              x \in {y \in Tables : \E f \in Foreign(y) : f.parent = t}}

InsertLocks(v, t, r) == ParentLocks(v, t, {r}, Columns(t))

UpdateLocks(v, t, where, set) ==
    LET hit == Matching(v, t, where)
        key == Rewritten(t, hit, set)
    IN  Lock("update", t, key)
          \cup Lock("no_key_update", t, hit \ key)
          \cup ParentLocks(v, t, {Patched(r, set) : r \in hit}, DOMAIN set)
          \cup ReferrerLocks(v, t, key, DOMAIN set)

(* Cascades delete, SET NULL updates, RESTRICT looks.                      *)
DeleteLocks(v, t, where) ==
    LET gone == Doomed(v, t, Matching(v, t, where))
    IN  UNION {Lock("update", x, gone[x])
                 \cup Lock("no_key_update", x, Orphans(v, "SET_NULL", gone, x))
                 \cup Lock("key_share", x, Orphans(v, "RESTRICT", gone, x)) : x \in Tables}

LocksOf(v, st) ==
    CASE st.op = "insert" -> InsertLocks(v, st.table, st.row)
      [] st.op = "update" -> UpdateLocks(v, st.table, st.where, st.set)
      [] st.op = "delete" -> DeleteLocks(v, st.table, st.where)

Conflict(m, n) ==
    \/ m = "update" \/ n = "update"
    \/ m = "no_key_update" /\ n = "no_key_update"

LockedOut(s, o) ==
    \E need \in LocksOf(View(s), Statement(s)) : \E held \in locks[o] :
        need[2] = held[2] /\ need[3] = held[3] /\ Conflict(need[1], held[1])

(* The rows a statement writes: <<before, after>>; NULL before an insert.  *)
Written(v, st) ==
    CASE st.op = "insert" -> {<<NULL, st.row>>}
      [] st.op = "update" -> {<<r, Patched(r, st.set)>> : r \in Matching(v, st.table, st.where)}
      [] st.op = "delete" -> {}

(* A unique key that another open transaction has taken, be it for a       *)
(* moment, or is giving up can be neither used nor refused before that     *)
(* transaction ends.  (For versions of the row being written itself there  *)
(* is the row lock.)                                                       *)
Contested(s, o) ==
    LET t == Statement(s).table
    IN  \E w \in Written(View(s), Statement(s)) : \E u \in UniqueOn(t) :
           \E x \in RowsIn(delta[o].made \cup delta[o].removed, t) :
              /\ w[1] # NULL => Identity(t, x) # Identity(t, w[1])
              /\ Clash(u, w[2], x)

Blockers(s) ==
    IF pc[s] # "running" THEN {}
    ELSE {o \in Session \ {s} : LockedOut(s, o) \/ Contested(s, o)}

(* Transactions that wait for each other.                                  *)
Deadlocked(s) ==
    \E C \in SUBSET Session :
        /\ s \in C
        /\ \A x \in C : Blockers(x) \cap C # {} /\ \E y \in C : x \in Blockers(y)

-----------------------------------------------------------------------------
Init ==
    /\ AbstractInit
    /\ pc = [s \in Session |-> "new"]
    /\ step = [s \in Session |-> 0]
    /\ delta = [s \in Session |-> Clean]
    /\ locks = [s \in Session |-> {}]

Goto(s, place) == pc' = [pc EXCEPT ![s] = place]

End_KeepsLocks(s, told) ==
    /\ Goto(s, "done")
    /\ outcome' = [outcome EXCEPT ![s] = told]
    /\ delta' = [delta EXCEPT ![s] = Clean]
    /\ UNCHANGED locks
End(s, told) ==
    /\ Goto(s, "done")
    /\ outcome' = [outcome EXCEPT ![s] = told]
    /\ delta' = [delta EXCEPT ![s] = Clean]
    /\ locks' = [locks EXCEPT ![s] = {}]

(* The handler asks for its first statement: the session needs a           *)
(* connection, and gets one when the pool has a free slot.                 *)
Checkout(s) ==
    /\ pc[s] = "new"
    /\ Cardinality(Connected) < PoolLimit
    /\ Goto(s, "open")
    /\ UNCHANGED <<db, program, outcome, step, delta, locks>>

(* pool_timeout: QueuePool raises, the dependency rolls back nothing.      *)
CheckoutTimeout(s) ==
    /\ pc[s] = "new"
    /\ Cardinality(Connected) >= PoolLimit
    /\ End(s, "failed")
    /\ UNCHANGED <<db, program, step>>

Issue(s) ==
    /\ pc[s] = "open"
    /\ step[s] < Len(program[s])
    /\ Goto(s, "running")
    /\ UNCHANGED <<db, program, outcome, step, delta, locks>>

Execute(s) ==
    /\ pc[s] = "running"
    /\ Blockers(s) = {}
    /\ Succeeds(View(s), Statement(s))
    /\ LET n == Result(View(s), Statement(s))
       IN  delta' = [delta EXCEPT ![s] = [added   |-> Beyond(n, db),
                                          removed |-> Beyond(db, n),
                                          made    |-> @.made \cup Beyond(n, db)]]
    /\ locks' = [locks EXCEPT ![s] = @ \cup LocksOf(View(s), Statement(s))]
    /\ step' = [step EXCEPT ![s] = @ + 1]
    /\ Goto(s, "open")
    /\ UNCHANGED <<db, program, outcome>>

(* IntegrityError, or NotFound raised by the handler: "except Exception".  *)
Refuse(s) ==
    /\ pc[s] = "running"
    /\ Blockers(s) = {}
    /\ ~Succeeds(View(s), Statement(s))
    /\ Goto(s, "closing")
    /\ UNCHANGED <<db, program, outcome, step, delta, locks>>

(* PostgreSQL aborts one of the transactions that wait for each other.     *)
DeadlockAbort(s) ==
    /\ pc[s] = "running"
    /\ Deadlocked(s)
    /\ Goto(s, "closing")
    /\ UNCHANGED <<db, program, outcome, step, delta, locks>>

(* The handler raises between two statements.                              *)
Raise_CommitAnyway(s) ==
    /\ pc[s] = "open"
    /\ Goto(s, "committing")
    /\ UNCHANGED <<db, program, outcome, step, delta, locks>>
Raise(s) ==
    /\ pc[s] = "open"
    /\ Goto(s, "closing")
    /\ UNCHANGED <<db, program, outcome, step, delta, locks>>

(* Client gone or server stopping: CancelledError is no Exception, so the  *)
(* except clause is skipped and leaving "async with" closes the session.   *)
Cancel(s) ==
    /\ pc[s] \in {"open", "running"}
    /\ Goto(s, "closing")
    /\ UNCHANGED <<db, program, outcome, step, delta, locks>>

(* The handler returns; get_session goes on after its yield.               *)
Return(s) ==
    /\ pc[s] = "open"
    /\ step[s] = Len(program[s])
    /\ Goto(s, "committing")
    /\ UNCHANGED <<db, program, outcome, step, delta, locks>>

Commit(s) ==
    /\ pc[s] = "committing"
    /\ db' = View(s)
    /\ End(s, "committed")
    /\ UNCHANGED <<program, step>>

(* The connection breaks during COMMIT: the server did it or did not.      *)
CommitLost(s) ==
    /\ pc[s] = "committing"
    /\ db' \in {db, View(s)}
    /\ End(s, "failed")
    /\ UNCHANGED <<program, step>>

(* session.rollback(), or the rollback that close() implies.               *)
Close(s) ==
    /\ pc[s] = "closing"
    /\ End(s, "failed")
    /\ UNCHANGED <<db, program, step>>

(* Nothing is left to do.                                                  *)
AllDone ==
    /\ \A s \in Session : pc[s] = "done"
    /\ UNCHANGED vars

Driver(s) == Checkout(s) \/ CheckoutTimeout(s) \/ Execute(s) \/ Refuse(s) \/ DeadlockAbort(s)
Handler(s) == Issue(s) \/ Raise(s) \/ Return(s)
Dependency(s) == Commit(s) \/ CommitLost(s) \/ Close(s)

Proceed(s) == Driver(s) \/ Handler(s) \/ Dependency(s)

Next ==
    \/ \E s \in Session : Proceed(s) \/ Cancel(s)
    \/ AllDone

(* The event loop runs every handler and dependency that is ready, the     *)
(* pool hands out a slot or times out, and the server grants a lock nobody *)
(* holds any more or breaks a deadlock.  Nobody has to cancel or raise.    *)
Fairness == \A s \in Session : WF_vars(Proceed(s))

Spec == Init /\ [][Next]_vars /\ Fairness

-----------------------------------------------------------------------------
(* The committed database satisfies every constraint at every moment,      *)
(* though each statement was checked against a view other transactions     *)
(* were changing.                                                          *)
CommittedIntegrity == Integrity(db)

(* Overlapping requests are as good as consecutive ones, each whole or     *)
(* absent: get_session with PostgreSQL's locks implements                  *)
(* SerialTransactions.                                                     *)
CommitsAreSerial == AbstractSpec

(* Every request gets an answer: no lost wakeup in the pool, no wait for a *)
(* lock that lasts for ever, no deadlock that stays.                       *)
EveryRequestEnds == \A s \in Session : <>(outcome[s] # "none")

(* At every committed moment exactly one signing key is active, however    *)
(* rotations overlap (signing_key.py, the migration: "a repeated or        *)
(* concurrent rotation then fails as a constraint violation").             *)
ExactlyOneActiveKey ==
    \E key \in db["signing_keys"] : {k \in db["signing_keys"] : k.status = "active"} = {key}

-----------------------------------------------------------------------------
(* What the mapped classes make of a change: SQLAlchemy writes a row by    *)
(* its primary key (conditions on other columns may be added).             *)
NamesRow(st) == st.op # "insert" => Key(st.table) \subseteq DOMAIN st.where

ProgramsNameRows == \A p \in Programs : \A i \in DOMAIN p : NamesRow(p[i])

-----------------------------------------------------------------------------
(* What signing_key.py prescribes to the handlers of keys.                 *)

(* "pending" -> "active", for the key named.                               *)
Activates(st) ==
    /\ st.table = "signing_keys"
    /\ st.op = "update"
    /\ "kid" \in DOMAIN st.where /\ "kid" \notin DOMAIN st.set
    /\ "status" \in DOMAIN st.set /\ st.set["status"] = "active"

(* No update or deletion of that key.                                      *)
SparesKey(st, kid) ==
    st.table = "signing_keys" =>
        st.op = "insert" \/ ("kid" \in DOMAIN st.where /\ st.where["kid"] # kid)

(* Statement j promotes a key, and the later ones spare it.                *)
Promotes(p, j) ==
    Activates(p[j]) /\ \A i \in DOMAIN p : i > j => SparesKey(p[i], p[j].where["kid"])

NoKeyTouched(p) == \A i \in DOMAIN p : p[i].table # "signing_keys"

(* There is a key to begin with, and whoever changes the keys promotes one *)
(* and leaves that one alone afterwards.                                   *)
RotationsPromote ==
    /\ \E k \in Initial["signing_keys"] : k["status"] = "active"
    /\ \A p \in Programs : NoKeyTouched(p) \/ \E j \in DOMAIN p : Promotes(p, j)
=============================================================================
