------------------------- MODULE SerialTransactions -------------------------
(***************************************************************************)
(* What get_session promises a request handler: the statements of one      *)
(* request take effect all together and alone, at one moment, or not at    *)
(* all.  Requests that overlap behave as if they had run one after the     *)
(* other.                                                                  *)
(***************************************************************************)
EXTENDS Database, Naturals, Sequences

CONSTANTS
    Session,    \* the requests
    Programs,   \* the statement sequences a handler may run
    Workloads,  \* which of them may meet: functions from requests to programs
    Initial     \* the database before any of them

(* Handlers run statements on mapped tables, with values for mapped        *)
(* columns, and start from a database that PostgreSQL has been checking.   *)
ASSUME ProgramsAreStatements ==
    \A p \in Programs : /\ p \in Seq({p[i] : i \in DOMAIN p})
                        /\ \A i \in DOMAIN p : IsStatement(p[i])

ASSUME WorkloadsArePrograms == Workloads \subseteq [Session -> Programs]

ASSUME InitialIsWhole == IsDatabase(Initial) /\ Integrity(Initial)

VARIABLES
    db,         \* the committed database
    program,    \* program[s]: the statements request s is to run
    outcome     \* outcome[s]: what the request was told

(* A handler's statement must find the row it is about (it raises NotFound *)
(* otherwise) and be accepted.                                             *)
Hits(d, st) == st.op # "insert" => Matching(d, st.table, st.where) # {}

Succeeds(d, st) == Hits(d, st) /\ Accepts(d, st)

(* The databases that statements run one after the other lead through.     *)
States(sts, d) ==
    LET state[i \in 0..Len(sts)] == IF i = 0 THEN d ELSE Result(state[i - 1], sts[i])
    IN  state

Replay(sts, d) == States(sts, d)[Len(sts)]

Replays(sts, d) == \A i \in DOMAIN sts : Succeeds(States(sts, d)[i - 1], sts[i])

AbstractInit ==
    /\ db = Initial
    /\ program \in Workloads
    /\ outcome = [s \in Session |-> "none"]

(* The whole request at once; "failed" when the connection was lost and    *)
(* the answer to COMMIT with it.                                           *)
Apply(s) ==
    /\ outcome[s] = "none"
    /\ Replays(program[s], db)
    /\ db' = Replay(program[s], db)
    /\ \E told \in {"committed", "failed"} : outcome' = [outcome EXCEPT ![s] = told]
    /\ UNCHANGED program

Refused(s) ==
    /\ outcome[s] = "none"
    /\ outcome' = [outcome EXCEPT ![s] = "failed"]
    /\ UNCHANGED <<db, program>>

AbstractSpec ==
    AbstractInit /\ [][\E s \in Session : Apply(s) \/ Refused(s)]_<<db, program, outcome>>
=============================================================================
