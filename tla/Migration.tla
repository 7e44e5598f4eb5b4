----------------------------- MODULE Migration ------------------------------
(***************************************************************************)
(* alembic/env.py running the chain of one migration, 0001_initial, by     *)
(* several runners at once (a deploy's migration task, CI, a developer),   *)
(* any of which may be killed and started again.                           *)
(*                                                                         *)
(* A schema is a set of facts: a table exists, a table holds its reference *)
(* rows, alembic_version holds the revision.  Alembic reads the version;   *)
(* that begins the transaction in which the migration then runs, the       *)
(* making of its own table, if there was no version, included.             *)
(* PostgreSQL's DDL is transactional: what a runner did is seen by nobody  *)
(* else until it commits.  A CREATE TABLE waits for one of the same name   *)
(* in progress, a DROP TABLE for another drop of its table; either looks   *)
(* again then.                                                             *)
(***************************************************************************)
EXTENDS AuthSchema, Sequences, Naturals

CONSTANTS
    Runner,
    Restarts    \* how often runners are started again at most

ASSUME RestartsIsNat == Restarts \in Nat
ASSUME NullIsNoOutcome == NULL \notin {"ok", "failed", "crashed"}

Table(t) == <<"table", t>>
Rows(t)  == <<"rows", t>>
Version  == <<"version", "0001_initial">>
Log      == Table("alembic_version")

-----------------------------------------------------------------------------
(* The chain.  Steps need some facts, must not meet others, and add or     *)
(* remove facts.                                                           *)

CreateOrder ==
    <<"tenants", "role_templates", "scopes", "users", "roles", "role_scopes",
      "user_roles", "refresh_tokens", "oauth_clients", "oauth_client_secrets",
      "signing_keys", "revocation_events", "verification_tokens",
      "throttle_buckets", "auth_audit_events">>

DropOrder_UsersFirst ==
    <<"users", "auth_audit_events", "throttle_buckets", "verification_tokens",
      "revocation_events", "signing_keys", "oauth_client_secrets", "oauth_clients",
      "refresh_tokens", "user_roles", "role_scopes", "roles", "scopes",
      "role_templates", "tenants">>
DropOrder ==
    <<"auth_audit_events", "throttle_buckets", "verification_tokens",
      "revocation_events", "signing_keys", "oauth_client_secrets", "oauth_clients",
      "refresh_tokens", "user_roles", "role_scopes", "roles", "users", "scopes",
      "role_templates", "tenants">>

Parents(t) == {f.parent : f \in Foreign(t)} \ {t}

Create(t) == [needs  |-> {Table(p) : p \in Parents(t)}, absent |-> {Table(t)},
              adds   |-> {Table(t)}, removes |-> {}]
Seed(t)   == [needs  |-> {Table(t)}, absent |-> {Rows(t)},
              adds   |-> {Rows(t)}, removes |-> {}]
CreateLog == [needs  |-> {}, absent |-> {Log}, adds |-> {Log}, removes |-> {}]
Stamp     == [needs  |-> {Log}, absent |-> {Version},
              adds   |-> {Version}, removes |-> {}]
Drop(t)   == [needs  |-> {Table(t)}, absent |-> {Table(x) : x \in {y \in Tables : t \in Parents(y)}},
              adds   |-> {}, removes |-> {Table(t), Rows(t)}]
Unstamp   == [needs  |-> {Version}, absent |-> {},
              adds   |-> {}, removes |-> {Version}]

UpgradeSteps ==
    [i \in 1..15 |-> Create(CreateOrder[i])]
      \o <<Seed("scopes"), Seed("role_templates"), Stamp>>

DowngradeSteps == [i \in 1..15 |-> Drop(DropOrder[i])] \o <<Unstamp>>

(* The schema after all of it.                                             *)
HeadSchema == {Table(t) : t \in Tables} \cup {Rows("scopes"), Rows("role_templates"), Version}

-----------------------------------------------------------------------------
VARIABLES
    db,         \* the committed facts
    command,    \* command[r] is "upgrade" or "downgrade"
    pc,         \* where runner r is
    seen,       \* what alembic read of alembic_version when it started
    step,       \* how many steps of the migration have run
    outcome,    \* how its last run ended
    restarts    \* how often one was started again

vars == <<db, command, pc, seen, step, outcome, restarts>>

(* What is to run, by what was read.  A downgrade of nothing still makes   *)
(* alembic's table first.                                                  *)
NothingToDo(r) == Version \in seen[r] <=> command[r] = "upgrade"

Plan(r) ==
    (IF seen[r] = {} THEN <<CreateLog>> ELSE <<>>)
      \o (IF NothingToDo(r) THEN <<>>
          ELSE IF command[r] = "upgrade" THEN UpgradeSteps ELSE DowngradeSteps)

(* What its open transaction has added and removed so far.                 *)
Added(r)   == UNION {Plan(r)[i].adds : i \in 1..step[r]}
Removed(r) == UNION {Plan(r)[i].removes : i \in 1..step[r]}

View(r) == (db \ Removed(r)) \cup Added(r)

Current == db \cap {Log, Version}

Waits(r, o) ==
    \/ (Plan(r)[step[r] + 1].adds \cap Added(o)) \ db # {}
    \/ Plan(r)[step[r] + 1].needs \cap Removed(o) # {}

Ready(r) ==
    /\ pc[r] = "running"
    /\ step[r] < Len(Plan(r))
    /\ \A o \in Runner \ {r} : pc[o] = "running" => ~Waits(r, o)

Possible(r) ==
    /\ Plan(r)[step[r] + 1].needs \subseteq View(r)
    /\ Plan(r)[step[r] + 1].absent \cap View(r) = {}

(* Alembic looks for its table before it creates it (checkfirst): one that *)
(* came in between is in its way or makes the step unnecessary, as it was  *)
(* committed after or before the look.                                     *)
MakesLog(r) == seen[r] = {} /\ step[r] = 0

-----------------------------------------------------------------------------
Init ==
    /\ db = {}
    /\ command \in [Runner -> {"upgrade", "downgrade"}]
    /\ pc = [r \in Runner |-> "new"]
    /\ seen = [r \in Runner |-> {}]
    /\ step = [r \in Runner |-> 0]
    /\ outcome = [r \in Runner |-> NULL]
    /\ restarts = 0

Goto(r, place) == pc' = [pc EXCEPT ![r] = place]

(* The transaction is over, one way or the other.                          *)
End(r, told) ==
    /\ Goto(r, "done")
    /\ outcome' = [outcome EXCEPT ![r] = told]
    /\ step' = [step EXCEPT ![r] = 0]
    /\ seen' = [seen EXCEPT ![r] = {}]
    /\ UNCHANGED <<command, restarts>>

(* Alembic connects and reads the version; with nothing to do it is done.  *)
Start(r) ==
    /\ pc[r] = "new"
    /\ IF Log \in db /\ (Version \in db <=> command[r] = "upgrade")
       THEN End(r, "ok")
       ELSE /\ Goto(r, "running")
            /\ seen' = [seen EXCEPT ![r] = Current]
            /\ UNCHANGED <<command, step, outcome, restarts>>
    /\ UNCHANGED db

Step(r) ==
    /\ Ready(r)
    /\ Possible(r) \/ MakesLog(r)
    /\ step' = [step EXCEPT ![r] = @ + 1]
    /\ UNCHANGED <<db, command, pc, seen, outcome, restarts>>

Refuse_Retries(r) ==
    /\ Ready(r)
    /\ ~Possible(r)
    /\ UNCHANGED vars
Refuse(r) ==
    /\ Ready(r)
    /\ ~Possible(r)
    /\ End(r, "failed")
    /\ UNCHANGED db

(* A migration commits when it is through; without one nothing does.  The  *)
(* answer may be lost.                                                     *)
Commit(r) ==
    /\ pc[r] = "running"
    /\ step[r] = Len(Plan(r))
    /\ db' = IF NothingToDo(r) THEN db ELSE View(r)
    /\ \E told \in {"ok", "crashed"} : End(r, told)

(* Killed, or the connection lost: the server rolls back.                  *)
Crash_KeepsSteps(r) ==
    /\ pc[r] = "running"
    /\ End(r, "crashed")
    /\ db' = View(r)
Crash(r) ==
    /\ pc[r] = "running"
    /\ End(r, "crashed")
    /\ UNCHANGED db

Rerun(r) ==
    /\ pc[r] = "done"
    /\ outcome[r] # "ok"
    /\ restarts < Restarts
    /\ Goto(r, "new")
    /\ outcome' = [outcome EXCEPT ![r] = NULL]
    /\ restarts' = restarts + 1
    /\ UNCHANGED <<db, command, seen, step>>

AllDone ==
    /\ \A r \in Runner : pc[r] = "done"
    /\ UNCHANGED vars

Proceed(r) ==
    \/ Start(r) \/ Step(r) \/ Refuse(r) \/ Commit(r)

Next ==
    \/ \E r \in Runner : Proceed(r) \/ Crash(r) \/ Rerun(r)
    \/ AllDone

(* A runner that can go on does, until it is killed; nobody has to start   *)
(* it again.                                                               *)
Spec == Init /\ [][Next]_vars /\ \A r \in Runner : WF_vars(Proceed(r))

-----------------------------------------------------------------------------
(* The revision that r read, while it runs.                                *)
Read(r) == IF pc[r] # "running" THEN NULL
           ELSE IF Version \in seen[r] THEN HeadSchema ELSE {}

Revision ==
    INSTANCE Revisions WITH
        Latest <- HeadSchema,
        Untold <- NULL,
        schema <- db \ {Log},
        read   <- [r \in Runner |-> Read(r)]

(* Runs that overlap, die, lose the answer to COMMIT or are started again  *)
(* move the schema between nothing and 0001_initial as one step each, and  *)
(* report what they did (env.py: "instead of leaving the chain             *)
(* half-applied").                                                         *)
MigrationsAreWhole == Revision!Spec

(* A migration is refused only if somebody else migrated since it read the *)
(* version: run alone, both directions meet their foreign keys in the      *)
(* right order and go through (0001_initial: "Reverse dependency order").  *)
RefusedOnlyIfOvertaken ==
    [][\A r \in Runner :
          (outcome[r] # "failed" /\ outcome'[r] = "failed") => seen[r] # Current]_vars

(* Every run ends: runners that collide do not wait for each other for     *)
(* ever.                                                                   *)
EveryRunEnds == \A r \in Runner : pc[r] # "done" ~> pc[r] = "done"
=============================================================================
