# A TLA+ development of the authentication backend

This directory specifies the behaviour of `auth-backend` (the repository beside
it) in TLA+, checks it with TLC on small instances and proves the most important
part with TLAPS. It describes the code as it is at this commit: the schema, the
session handling and the HTTP shell are implemented, the services, the
cryptography and most endpoints are empty packages. Where a model needs what a
service would do, it takes what the schema's docstrings and the repository's
README prescribe ("refresh redemption is a single atomic UPDATE", "pending ->
active -> retiring -> revoked") and says so.

## The system

| component | code | state | operations |
|---|---|---|---|
| relational schema | `app/models/*`, `alembic/versions/20260101_0900_initial_schema.py` | fifteen tables | INSERT, UPDATE, DELETE with their constraints and referential actions |
| database sessions | `app/core/db.py` | connection pool, open transactions | `get_session`: open, commit on return, roll back on an exception, close |
| request middleware | `app/core/middleware.py` | context variables per task | `dispatch`: set ids, call on, clear, add headers, access log |
| errors | `app/core/errors.py` | none | one handler per class of exception |
| logging, redaction | `app/core/logging.py`, `app/core/redaction.py` | context variables, the event on its way | inject ids, scrub, render the traceback, render the line |
| health | `app/api/v1/health.py` | none | `healthz`, `readyz` (takes a connection from the same pool) |
| settings | `app/core/config.py` | the settings of a process | validators, refuse an unsafe production configuration |
| process | `app/main.py` | the engine and its pool | start, serve, drain, `engine.dispose()` |
| migrations | `alembic/env.py`, the initial migration | schema, `alembic_version` | upgrade, downgrade, render offline |
| drift check | `scripts/check_migration_drift.py` | none | compare the names of both schemas |
| command line | `app/cli.py` | none | print, ping |

A request enters the middleware, which runs the rest of the application in a
child task with a copy of its context variables. An endpoint takes a session by
dependency; the session takes a connection from the pool at its first statement
and gives it back when it closes. The rules that matter most (tenant isolation,
one live login per address, no authority without a source, one active key) are
not in Python at all: they are constraints of the schema, and PostgreSQL enforces
them statement by statement while transactions overlap.

Before any of this, a deploy runs `alembic upgrade head`, maybe several of them at
once, and each process makes its settings when `app.core.config` is imported; one
that cannot does not start. Whatever logs, in any of these parts, goes through one
row of processors.

What is hard here, and what each component owes:

* **Schema.** Long sequences of legal statements. Grants are tied to tenants by
  two composite foreign keys that share a column; deletions cascade, are
  refused or clear a column; addresses are unique among live rows only. Each row
  is checked when written, but the promises are about all rows at all times.
* **Sessions.** Interleaving, deadlock, cancellation between statements, a COMMIT
  whose answer is lost, a pool at its limit. Requests must be all or nothing and
  as good as consecutive.
* **Requests.** Overlapping tasks, tasks that are used again, exceptions that
  leave the stack at different heights. Ids must not mix, failures must look alike
  from outside, and what is answered must be traceable.
* **The process.** One pool for requests and the readiness probe; connections that
  went stale unseen, that cannot be opened, or that die in use; tasks cancelled at
  any await; an outage between any two steps; a termination while clients wait. No
  slot may be lost, idle loss must not show, and readiness must come back.
* **Settings.** A process that starts on values meant for another environment.
* **Migrations.** Runners that overlap, die between two statements or in COMMIT,
  and are started again; orders of DDL that meet a foreign key.
* **Log lines.** The order of processors, and of substitutions that work on each
  other's results; a value cut in the middle of a credential; nesting at the depth
  cap; values that are no text; ids passed by a caller.

`PROJECT.json` lists the hazards one by one, with the properties that cover them
and, for those no property covers yet, the reason.

## The modules

| module | what it is |
|---|---|
| `AuthSchema` | the schema as data: one record per table, the seeded reference data |
| `Database` | what PostgreSQL does with that data: pure operators for constraints and statements |
| `Store` | the database executing one statement at a time; `TypeOK`, `StoreIntegrity` |
| `Tenancy` | the promises about institutions, logins, grants and scopes |
| `Lifecycles` | the promises about tokens, clients and secrets |
| `AuditLog` | the claim that the audit table is append-only |
| `SerialTransactions` | the abstract specification of a request's transaction: whole, alone, or not at all |
| `Sessions` | `get_session` with the pool and PostgreSQL's locks, implementing `SerialTransactions` |
| `Requests` | the HTTP shell: middleware, context variables, exception handlers |
| `Revisions` | the abstract specification of alembic: from one revision to the other at once, or not at all |
| `Migration` | alembic's runners step by step, implementing `Revisions` |
| `Settings` | the fields and validators of `Settings`, as predicates of an environment |
| `PoolSlots` | the abstract specification of a connection pool: a bounded number of holders |
| `Service` | a process from loading its settings to its end, with the pool of its requests and its probe, implementing `PoolSlots` |
| `LogPipeline` | one log call through the processors and the redaction |
| `DatabaseProofs`, `StoreProofs`, `PromisesProofs` (of `Tenancy` and `Lifecycles`), `SessionsProofs`, `RequestsProofs`, `MigrationProofs`, `ServiceProofs`, `LogPipelineProofs` | theorems and their proofs |
| `MC*` | values for the constants of the TLC runs |

`AuthSchema` extends nothing; `Database` extends it; `Store`, `SerialTransactions`
extend `Database`; `Tenancy`, `Lifecycles`, `AuditLog` extend `Store`; `Sessions`
extends `SerialTransactions`. `Migration` extends `AuthSchema`, whose foreign keys
are what its DDL meets, and instantiates `Revisions`; `Service`
extends `Settings`, because the pool is as large as the settings say, and
instantiates `PoolSlots`. `Requests` stands alone: it meets the database only
through what an endpoint returns or raises. `LogPipeline` takes from `Requests`
that a task has its own ids, and shows what becomes of them on the line.

### Correspondence with the code

*Schema.* A table's record lists the columns some constraint or property reads,
its key, its NOT NULL columns, its unique indexes (a partial one with its WHERE
clause), its foreign keys with their ON DELETE rule, its CHECKs. The models and
the migration agree on all of these. The initial state of `Store` is what
`alembic upgrade head` leaves: the seeded scopes and role templates. A statement
is accepted when PostgreSQL would accept it: MATCH SIMPLE foreign keys, NULLs
distinct in unique indexes, NO ACTION for every key update, CASCADE, RESTRICT
and SET NULL for deletions. `Doomed` follows CASCADE two levels, which is the
depth of this schema (`CascadeDepth` in `DatabaseProofs` proves that no chain of
three exists). A DELETE is also refused if SET NULL would clear a NOT NULL column;
in this schema it never does (`NulledNullable`): it only ever meets
`roles.template_key` and `refresh_tokens.parent_id`.

*Sessions.* One action per step of `get_session` as a request lives it:
`Checkout` and `CheckoutTimeout` (the pool of `engine`), `Issue` and `Execute`
(the handler's next statement), `Refuse` (a constraint violation, or `NotFound`
raised by the handler), `DeadlockAbort`, `Raise` (any other exception of the
handler), `Cancel` (`CancelledError` is not an `Exception`, so the `except` clause
is skipped and `async with` closes the session), `Return`, `Commit`,
`CommitLost`, `Close`. Variable `delta` holds what a transaction has added and
removed and every row it has made on the way (`made`: a version it has replaced or
deleted again still makes others with the same unique key wait), `locks` its row
locks. PostgreSQL's part is external to the
repository and modelled from how the code uses it: READ COMMITTED visibility,
the lock modes of updates, deletions and foreign key checks, and the wait for a
row in progress under the same unique key. `Programs` are the statements a request
may run, `Workloads` says which requests run together.

*Requests.* `Receive` is `dispatch` up to `call_next`; `Endpoint` chooses what the
endpoint, or the router before it, ends with; one action per exception handler
(`NotServed` is FastAPI's own for `HTTPException`, a 404 or 405); `Respond` is `dispatch`
after `call_next`; `DispatchFails` its `except` and `finally`; `Unhandled` the
handler for `Exception`, which Starlette runs outside every other middleware;
`Disconnect` a cancellation. `VerifyToken` is what `logging.py` expects of a later
token dependency.

*Migrations.* A runner reads `alembic_version` (and whether that table is there, in
the same step), which begins its transaction (`Start`). `Plan` is what it then runs:
`CREATE TABLE alembic_version` if it was missing, the statements of `upgrade()` or
`downgrade()` in their order, and the version row. Each is an action `Step` that
needs some facts, must not meet others, and waits for a transaction that is making
or dropping the same thing; `Refuse` is the database's error; `Commit` may lose its
answer; `Crash` is a killed runner. Alembic looks for its own table before it makes
it (`checkfirst`); if another runner commits that table between the look and the
CREATE the step fails, and if it does so before the look the step is empty: `MakesLog`
allows both. `Revisions` promises what a runner can know: it moves the schema from
the revision it read, and "ok" without a move means that the schema is, or was when
the run looked, what was asked for. (A downgrade that read nothing reports "ok" and
may find, later, that another runner has upgraded meanwhile.) PostgreSQL's
transactional DDL is external.

*Settings.* A record per environment, with the variables that some validator or
another module reads, `EMPTY` for one that is set to nothing; `Defaults` are those of
the fields, `problems` is the list of that name, `Starts` whether `Settings()`
returns. The types and validators of single fields are `WellFormed`. `Example` is the
database URL of `.env.example`.

*The process.* `Load` is the import of the settings and the start of `lifespan`,
`SigTerm` and `Dispose` its end. `Ask` is a session's first statement: `CheckOut`
from the queue, `Open` while the counter is below its limit, or `Wait`. With
`pool_pre_ping` a connection from the queue that turns out to be dead is replaced
(`Connected`, `ConnectFails`). `LeaveSession` is the end of `get_session`, whose
session closes on every path, `LeaveProbe` that of the probe in `readyz`, and
`verdict` its answer. `Reap` stands for everything that closes an idle connection
(the proxy, the server, `pool_recycle`). The queue and its counter are
SQLAlchemy's `QueuePool`, external and modelled as the code configures it:
`pool_size` 0 and `max_overflow` -1 mean no limit, a connection that could not be
opened takes its place in the counter back without waking anybody, one that could
not be renewed goes back to the queue as a record without a connection (or is
dropped if the queue is full: `CheckIn`), and a waiter whose `pool_timeout` is over
looks once more. Nothing bounds the two settings, so the pools include a negative
size (the queue is unbounded) and a `max_overflow` below -1, with which nobody waits
for a full pool: `_do_get` calls itself until Python stops it (`Recurse`). `Cancel`
is a `CancelledError` at any await of a session: in the queue, on opening or renewing
a connection (`Abandon`), or in a statement, whose connection is then thrown away
while its record goes back, to connect anew.

*Log lines.* One step per processor of `configure_logging`, in its order. An event
is a tree; it is written as a function from the path of each leaf to that leaf, and
the recursion of `scrub` as what it does to a path: it goes down until a key is
sensitive or the value too deep (`StopsAt`), replaces all that is below, and else
reaches the leaf (`Scrubbed`). Empty dicts and lists are left out. A text is a
sequence of words, white space and dots, so that a cut can fall inside a credential.
The four expressions are `_BEARER`, `_BASIC`, `_JWT` and `_REFRESH`: the positions each
would match in a text. They differ where the code's character classes do: a bearer
token has dots and underscores, a basic one ends at either. `scrub_text` applies them
one after the other, each to what the one before it left, and then cuts. `sub` puts a
mark for each word it replaces, so that lengths after a substitution are not the
code's: no property is about them. An object that is no text, dict or list passes
unchanged and shows the words of its repr, as in the code. An id that is set but
empty is not injected (`Given`).

Definitions named `X_Variant` are plausible mistakes in `X`, kept next to it to
show that a property would notice; nothing uses them.

## The runs

| run | asks | instance | distinct states |
|---|---|---|---|
| `tenancy` | do people, roles and scopes stay in their institution under any order of statements? | 2 tenants, 2 users, 2 roles, 1 address, 1 scope | 2 222 |
| `lifecycles` | do credentials keep owner and neighbours when rows are reaped, revoked, erased, and does nothing but people stand in the way of that? | a chain of 3 tokens, a one-time token, 2 clients, 2 secrets | 12 464 |
| `sessions` | are overlapping requests whole, serial, and answered; is one signing key active however rotations overlap? | 3 requests, 2 connections, 3 keys; 49 workloads out of 13 programs of requests and 4 of rotations | 52 404 |
| `requests` | do ids stay apart, do failures look alike, is everything logged and answered? | 2 tasks, 2 requests, 2 reasons | 107 425 |
| `audit_log` | is the audit table append-only? (**violated**) | 2 events | - |
| `unsealed_error` | is every response `no-store` and does it carry its request id? (**violated**) | 2 tasks, 2 requests | - |
| `migration` | are migrations whole however runners overlap, die and start again? | 3 runners, each told to upgrade or downgrade; 2 restarts | 34 325 |
| `service` | does the pool lose nothing, hide idle loss, recover and stop? | 2 requests and the probe; 8 pools (below); 1 outage; 16 environments | 126 571 |
| `env_example` | is `.env.example` refused where it says it is? (**violated**) | 4 environments | - |
| `log_pipeline` | do lines show no credential but where known, keep the rest, and carry their task's ids? | texts of 1 to 18 words out of 9 pieces, cut at 10; nesting to depth 7 | 216 576 |
| `traceback` | does no credential reach a line at all? (**violated**) | an event without credentials, 2 exceptions | - |
| `basic_credential` | is no part of a credential in what a caller logs? (**violated**) | the texts of `log_pipeline` | - |

What the passing runs show:

* `tenancy`: `NoCrossTenantGrant` (whatever order users are moved, roles re-homed
  and grants written in), `OneLoginPerAddress` (through soft delete, reuse and
  restore), `NoDanglingAuthority`, `NoQuietDeauthorisation` (dropping or renaming
  a scope changes nobody's scopes), `StepTouchesOneTenant`.
* `lifecycles`: `NoOrphanCredential`, `ReaperSparesDescendants` (an unexpired token
  survives the deletion of the expired ones it descends from), `OnlyPeopleStopErasure`
  (no chain, grant, token or secret makes PostgreSQL refuse a deletion that must
  happen), `TenantErasureIsContained`.
* `sessions`: `CommitsAreSerial` is the refinement: the concurrent specification,
  with its uncommitted rows, locks, aborts and lost answers, implements
  `SerialTransactions`, in which a request's statements happen at once or not at
  all. `EveryRequestEnds` is liveness, with one request more than connections.
  `ExactlyOneActiveKey` says what the partial unique index and the row locks buy for
  overlapping rotations.
* `requests`: `NothingForeign`, `FailedLoginsAreAlike`, `SentIsLogged`,
  `EveryRequestLeaves`.
* `migration`: `MigrationsAreWhole` is the refinement to `Revisions`: the many
  statements of several runners are one move of the schema or none, and what a
  runner reports is what happened. `RefusedOnlyIfOvertaken`: the orders of
  `upgrade` and `downgrade` meet no foreign key; only somebody else's migration
  makes one fail. `EveryRunEnds`: colliding runners do not deadlock.
* `service`: `PoolIsSlots` is the refinement to `PoolSlots`; `SlotsAreConserved`;
  `IdleLossIsInvisible` (a failure to reach the database is always one of a client
  that met an outage, never of a connection that had gone stale);
  `ReadinessRecovers` and `Stops` are liveness.
* `log_pipeline`: `OnlyKnownGapsShow` (nested, cut, under any key, several in one
  text) says that a part of a credential on a line is in the repr of an object or
  behind the first dot of a token that follows "basic", and nowhere else;
  `DiagnosticsSurvive` (what no pattern matches is left alone, up to the cut);
  `LinesCarryTheirIds`.

The violated ones are disagreements between a comment and the code, quoted in
`PROJECT.json` under `findings`: the audit trigger and grants the model's docstring
describes are in no migration; the handler for unhandled exceptions runs outside
`RequestContextMiddleware`, after the context was cleared, so a 500 has no
`Cache-Control: no-store`, no security header, no `x-request-id`, and `null` for
the request id in its body and no id on its log line; a process in `prod` starts
with the database URL or the CORS origin of `.env.example`, and one in `dev` with its
seed password, all of which that file says are refused; `format_exc_info` runs after
the redaction, so the message of an exception is rendered as it is; and a JWT after
the word "basic" loses only its first part to `_BASIC`, after which `_JWT` does not
know the rest. The two gaps of the redaction that `OnlyKnownGapsShow` names have a
third beside them that errs to the other side: "basic authentication" loses its
second word. `test_redaction.py` wants ordinary content to survive, but none of its
examples is of that kind, so it is listed as a hazard and not as a finding.

**Bounds.** Constraints relate at most two rows of a table and their parents, so
two of everything meets every clash; the rotation chain has three tokens so that a
token in the middle has both a parent and a child. The programs have up to two
statements, which is what lock cycles need; the workloads of `sessions` bring any two
of the thirteen programs of requests together, beside a third, and any three of the
rotations; the third finds the pool full. Two requests on two tasks both overlap and follow each other
on one task. Three runners are an upgrade and a downgrade that overlap with a third
run, and two restarts repeat runs whose answer was lost. A pool of two slots with
two requests and the probe is the smallest in which one waits, whichever two hold
(1+1 and 2+0; 3-2, -1+2 and -1+1 are those with negative sizes, one slot or none; 1+0
is production's); 0+1 and 1-1 show both encodings of no limit; one outage meets every
connection in every place, and connections go stale any number of times. The texts
have credentials before, across and after the cut, each after each other's opening
word, the nesting ends just below, at and just above the cap. The environments are a
correct production one, that one with each checked field taken back to its default,
and what each validator rejects; `env_example` has the correct one with one value of
`.env.example` in place.
The checks are exhaustive within these bounds; beyond them there are
the proofs. Deadlock is checked in every run: `Store` can always be handed a
statement, the other specifications end in an explicit step (`AllDone`,
`AllServed`, `Ended`, `Render`).

**Fairness.** `Sessions` assumes weak fairness of each request's `Proceed`: the
event loop runs what is ready, the pool hands out a free slot or times out after
`pool_timeout`, PostgreSQL grants a free lock and breaks deadlocks after
`deadlock_timeout`. No fairness is assumed of `Cancel`, and raising is only one of
the ways a handler may go on. `Requests` assumes it of `Serve`: handlers end.
That a handler ends (no unbounded await outside the database) is an assumption.
`Migration` assumes it of each runner's `Proceed`: a runner goes on until it is
killed, and PostgreSQL grants a lock that is free; nothing makes anybody start a
run again. `Service` assumes it of `Load`, of `Dispose`, of the probe's `Ask`
(the load balancer keeps calling) and of each client's `Serve`: waits for the pool
end by `pool_timeout`, attempts to connect by asyncpg's timeout, and that statements
end is assumed: the code sets neither `command_timeout` nor `statement_timeout`, so a
statement that PostgreSQL never finishes, or a peer that vanishes without a reset,
would keep a slot, and the three liveness properties, with it. It assumes nothing of
requests coming, of cancellations, of the database returning or of `SigTerm`;
`ReadinessRecovers` has what it needs of them in its premise. `Sessions` makes the
same assumption of statements.

**Assumptions worth knowing.** A statement takes its locks in one step or waits
holding those of earlier statements. Where-clauses in the concurrent runs name
rows by primary key (`ProgramsNameRows`), so no predicate can miss a row inserted
meanwhile. `CommitsAreSerial` is false without it: given an UPDATE by `family_id`
and an INSERT into the family, TLC finds the commit in which the new token stays
unrevoked though the revocation commits after it. No code of the repository does that
yet. Programs do not read a row into Python and write back what they computed
from it; READ COMMITTED would not make that serial, and `CommitsAreSerial` does
not claim it. `PoolLimit` of `Sessions` is positive; `Service` also has the values
that mean "no limit" to SQLAlchemy.

## The proofs

TLAPS proves, for every `Value`, every `SlugFormat` and every set `Statements` of
well-formed statements:

| theorem | property |
|---|---|
| `StoreIsTyped` | `Spec => []TypeOK` |
| `StoreKeepsIntegrity` | `Spec => []StoreIntegrity` (no run checks it: it is what PostgreSQL owes any schema, and the ground of the theorems below) |
| `GrantsStayInTenant` | `Spec => []NoCrossTenantGrant` |
| `LoginIsUnambiguous` | `Spec => []OneLoginPerAddress` |
| `AuthorityHasItsSource` | `Spec => []NoDanglingAuthority` |
| `CatalogueEditsAreHarmless` | `Spec => NoQuietDeauthorisation` |
| `OneTenantAtATime` | `AuthorityIsNamed` implies `Spec => StepTouchesOneTenant` |
| `CredentialsHaveOwners` | `Spec => []NoOrphanCredential` |
| `ErasureIsNotBlocked` | `Spec => []OnlyPeopleStopErasure` |
| `ReaperIsSelective` | `OnlyReaped` implies `Spec => ReaperSparesDescendants` |
| `TenantErasureTakesItsOwn` | `Spec => TenantErasureIsContained` |

for any programs of statements, any number of overlapping requests, any pool and
any initial database that satisfies its constraints:

| theorem | property |
|---|---|
| `CommitsKeepIntegrity` | `Spec => []CommittedIntegrity` (likewise) |
| `RotationsKeepOneKey` | `RotationsPromote` implies `Spec => []ExactlyOneActiveKey` |
| `CommitsImplementSerial` | `ProgramsNameRows` implies `Spec => CommitsAreSerial` |

for any number of tasks, requests and reasons to refuse a login:

| theorem | property |
|---|---|
| `IdsAreOnesOwn` | `Spec => []NothingForeign` |
| `EveryAnswerIsLogged` | `Spec => []SentIsLogged` |
| `FailedLoginsLookAlike` | `Spec => []FailedLoginsAreAlike` |

for any number of runners and restarts:

| theorem | property |
|---|---|
| `EveryMigrationIsWhole` | `Spec => MigrationsAreWhole` |
| `AloneNothingIsRefused` | `Spec => RefusedOnlyIfOvertaken` |

for every finite set of requests, every set of environments, with pool sizes of any
sign, and every number of outages:

| theorem | property |
|---|---|
| `NoSlotIsLost` | `Spec => []SlotsAreConserved` |
| `PoolImplementsSlots` | `Spec => PoolIsSlots` |
| `IdleLossNeverShows` | `Spec => []IdleLossIsInvisible` |

and, for events of any shape and depth, texts of any length, and any cut:

| theorem | property |
|---|---|
| `LinesHideCredentials` | `CredentialsAreKnown` implies `Spec => []OnlyKnownGapsShow` |
| `OrdinaryFieldsSurvive` | `Spec => []DiagnosticsSurvive` |
| `LinesCarryTheirOwnIds` | `Spec => []LinesCarryTheirIds` |

The assumptions are those the modules state: `NullIsValue`,
`StatementsAreWellFormed`, `SeedsAreValues`, `SeedsAreNotNull`,
`ProgramsAreStatements`, `WorkloadsArePrograms` and `InitialIsWhole` (a program is a
sequence of well-formed statements, a workload gives one to each request, the first
database has its constraints), `PoolIsPositive`, `ServiceAssumption` (the sizes of the
pool are integers: `Settings` does not bound them further), `NoneIsNothing` (an absent
id is no request's), `RestartsIsNat`, `NullIsNoOutcome`, and `LogCallsAreTrees` (paths
are sequences, leaves are texts or other objects, and what a pattern begins with stands
at the start of a text or after white space). TLC evaluates each of them.

Five theorems have one more hypothesis. For four of them that is because the schema
alone does not promise what they say: a client of the database could break it with a
legal statement. Each hypothesis is a definition beside the property, and the MC module of the run has
it as an ASSUME, so that TLC checks that the statements of the run satisfy it.

* `OnlyReaped` (`ReaperIsSelective`): refresh tokens are deleted by the reaper and
  by nobody else, one by one, and none changes its id, as the docstring of
  `refresh_token.py` has it.
* `AuthorityIsNamed` (`OneTenantAtATime`): roles are deleted by id or by tenant,
  entries of `role_scopes` are found by their role, grants by any part of themselves,
  and an UPDATE gives neither to another role or user. `DELETE FROM role_scopes WHERE
  scope_key = ...` is what it excludes: that touches every institution at once.
* `RotationsPromote` (`RotationsKeepOneKey`): a key is active at first, and a program
  that touches keys promotes one and spares it in the statements that follow.
* `ProgramsNameRows` (`CommitsImplementSerial`): updates and deletions have the whole
  primary key in their WHERE clause, possibly with more conditions, as SQLAlchemy's
  unit of work writes the changes of mapped objects.
* `CredentialsAreKnown` (`LinesHideCredentials`): each part of a credential in a text
  belongs to what one of the four patterns, applied to that text alone, would match,
  unless it is logged under a sensitive key or below the cap. A password in a message
  is what it excludes: no scrubber could tell it from a word. It does not say that
  the four in a row hide it; that is the theorem.

For the store the inductive invariant is `IInv == TypeOK /\ StoreIntegrity`. Tenant isolation is
not inductive alone: that an UPDATE of a user's tenant cannot strand a grant
needs the grant's composite foreign key to hold already, for all its columns to be
set, and the user's key to be unique. `StoreIntegrity` is all of that at once and
is inductive, so the work is one preservation lemma per statement
(`InsertKeepsIntegrity`, `UpdateKeepsIntegrity`, `DeleteKeepsIntegrity`), and the
promises of `Tenancy` are consequences of one state. The deletion lemma carries
the weight: the doomed rows are closed under CASCADE (`DoomedClosed`, from
`CascadeDepth`), survivors refer to nothing doomed because RESTRICT would have
refused, CASCADE taken and SET NULL detached them, and detaching disturbs no
unique index and no CHECK (`DetachedClash`, `DetachedAllowed`, from `SetNulls`
and the shapes of the two tables it can touch). `CatalogueEditsAreHarmless` is an
action property: if a scope goes, no `role_scopes` row named it (RESTRICT, or NO
ACTION for a renaming), so the sets of effective scopes are equal. So is
`OneTenantAtATime`: `ScopesChange` turns a difference in what a user may do into a
grant or an entry that came or went, and `GrantTenant` gives the user the tenant of
that grant. The interesting statement is DELETE, which takes grants along by three
ways: `RolesGo`, `ScopeEntriesGo` and `GrantsGo` follow the cascades back to what
was named, a user who went is not one whose scopes changed, and a tenant whose roles
would go keeps them because its people RESTRICT it (`PeopledTenantStays`).

The promises of `Lifecycles` need no more than that, but two of them are about
steps. `RootsGo`, `TokensGo`, `ClientsGo` and `SecretsGo` say which rows a deletion
takes from which table, by following the two levels of `Doomed` through the
foreign keys of this schema; `DetachedToken` says that SET NULL changes a token's
`parent_id` and nothing else. That an id has one row (`OneRowPerId`, from the
primary key in `StoreIntegrity`) turns statements about ids into statements about
rows.

`Sessions` is where no check is made at the time that counts. PostgreSQL checks each
statement against what one transaction sees, and nothing again at COMMIT, when
others may have committed. The invariant therefore keeps, for every open
transaction, what its changes rest on: `Tracked` says that every row it replaced or
deleted is locked (`WritesAreLocked`), that a key no version of such a row has any
more is locked against those who would refer to it (`KeysAreLocked`), and that every
committed row its new rows refer to is locked, unless they are new versions of rows
that referred to it already (`ParentsAreLocked`); and for every two transactions that their locks do
not conflict (`NoConflict`) and their new rows do not meet in a unique index
(`NoClash`, the wait for a row in progress). A statement keeps its own account
(`StatementKeepsTrack`) and stays apart from the others (`StatementStaysApart`); a
commit keeps the constraints (`MergeKeepsIntegrity`) and the accounts of those still
open, whose view it changes (`MergeKeepsTrack`). Foreign keys carry the weight:
the row a new row refers to is either untouched, or its key outlives the commit.

The theorem about rotations adds an invariant to it. `KeysInv` says that from the
promotion to the commit the promoted key is active in the transaction's view and
locked, so nobody retires it meanwhile; a partial unique index allows one active key
but does not ask for one, so that part is the programs'.

`CommitsImplementSerial` is the refinement. The account of a transaction gets one
part more, a `Trace`: the databases its statements lead through from the committed
one, in which every statement succeeds, is covered by the locks held
(`Covered`) and has the next database as its result. A statement makes it longer
(`TraceGrows`). When another transaction commits, `TraceMerges` rewrites the whole
trace, state by state, so that it starts from the new database (`Merged`): for each
statement `StatementMerges` shows that it finds the same row, is accepted for the
same reasons and changes the same things, though the other's rows are there now.
`InsertMerges`, `UpdateMerges` and `DeleteMerges` are its three cases; the last one
compares the cascades of two databases (`DoomedAlike`). They need that no row either
has made at any time clashes with one of the other (`Apart`), which is why the wait
for a row in progress must include versions that are gone again. With a wait for
the current ones only, TLC finds a request that cannot be replayed: it gives a user
a new address and takes it back, and another inserts a user with that address in
between. At COMMIT the trace is complete, and a complete trace is what
`Replay` computes (`TraceReplays`); any other end refuses the request and the rest
is a stutter (`StepImplementsSerial`). That there is only one way to replay a program
(`StatesAreUnique`) is an induction over its statements: the library's induction
rules cannot be used here, but `SetInduction`, for sets of numbers instead of
predicates, follows from the library's theorem that `<` on the natural numbers is
well-founded.

For `Requests` it is `Typed /\ Serving /\ OwnContext /\ OwnLines /\ OwnAnswers /\
LoggedInTime /\ FailedLogins`. `NothingForeign` speaks of lines and answers, which
are written from the context of a task, which is set and cleared by whatever ran
on that task before: so the invariant says, for each place a request can be in,
what its task's context may hold and what has been written of it. `LoggedInTime`
does the same for the log: an answer that is not sent yet owes its line or has it.
`TaskKeeps` is the one lemma about what a step on one task does to all the others.

For `Migration` it is `Typed /\ Told /\ Whole /\ Underway`. `Whole` says that only
three schemas are ever committed. It is inductive because of two facts about the
chain alone: all steps of an upgrade add exactly `HeadSchema` (`UpgradeMakesHead`),
and all steps of a downgrade remove it and leave alembic's table
(`DowngradeUnmakesHead`); so a runner that was overtaken still commits one of the
three. The order of the migration's statements is `OrdersAreRight`: a table is made
after every table it refers to and dropped before it. From it, `UpgradeGoesThrough`
and `DowngradeGoesThrough` say that each of the 18 and 16 steps finds what it needs
and nothing in its way, which is why only a runner that was overtaken can be refused.
For the refinement, what a runner has read is what `Revisions` has it read
(`StartTells`), and a commit that moves the schema finds it as it was read
(`CommitTells`).

For the process it is `Typed /\ SlotsAreConserved /\ WithinLimit /\ NoneYet`. The
conservation of slots does not bound the holders: connections in the queue are
counted too, so `WithinLimit` must say that the counter does not pass its limit,
and together they give `~Full` whenever a slot is taken. `NoneYet` says that the
outcome of a client under way is reset, without which giving a connection back
could change who was turned away. Each step then either leaves the abstract
variables alone (`ConnectedKeeps`, `OthersKeep`: an outage, a stale connection and
the dispose of an empty pool are invisible) or is one of `Take`, `Give`, `Wait` and
`TurnAway` and `GiveUp`; `GivesBack` does the arithmetic for every way of leaving at
once, `EmptyAtLimit` for pools with a negative size.
`IdleLossNeverShows` has an invariant of its own, `Blamed`: a connection is broken
only in the hands of a client that met the outage, and while the database is away
every client under way has met it.

For the log lines it is `LineInv`, and `HiddenInv` for credentials; both say, for
each processor that is next, what the event is by then. `LineInv` has the event a
tree as long as something must be scrubbed, what the caller gave in it (after the
redaction, only what is `Open` and not matched), and each id of the task alone under
its key from `_inject_context` on. `HiddenInv` says that before the redaction every
word that tells something is of a value the caller or the context gave, and after it
of one of the two known kinds, but for the field `exception`, which comes later.
The weight is in the operators: four substitutions, each on what the last one left
(`Stages`). A pattern's match is part of one token (`OneToken`), and if one
substitution touches a token (`TokenTouched`) then either it takes all of it
(`BearerTakesAll`) or it is `_BASIC` at the token's beginning (`BasicTakes`); so what
`_BASIC`, `_JWT` and `_REFRESH` would find in the text is found in its turn, gone
already, or behind "basic" and a dot (`BasicIsFound`, `JwtIsFound`, `RefreshIsFound`).
The cut comes after all of them and lays nothing bare (`ScrubTextHides`).
`RedactedLeaves` and `OpenLeavesStay` say what the recursion leaves under which
path, and `UpdatedLeaves` what a processor's keys displace. TLC checked both
invariants first.

Only model-checked:

* liveness (`EveryRequestEnds`, `EveryRequestLeaves`, `EveryRunEnds`,
  `ReadinessRecovers`, `Stops`), out of reach of the prover.

Every invariant and every action property of the passing runs is proved.

## Not modelled

* TLS arguments (`build_connect_args`) and the text of URLs: they decide how a
  connection is made, not when. That the migration engine is built without them is
  listed as a hazard.
* CORS answers, and the individual security headers (one flag in `Requests`).
* The settings no code reads yet (token lifetimes, rate limits, Argon2 costs).
* `_include_object` and alembic's autogenerate; alembic's offline rendering.
* The drift checker. It compares the sets of names two regular expressions find in
  two DDL texts, which SQLAlchemy renders from two files of one commit. There is no
  state and no interleaving, and a model of the two texts would be one transcription
  compared with another. What can go wrong is a hazard in `PROJECT.json`: an unnamed
  UNIQUE over several columns takes, by the convention's `column_0_name`, the name
  of one over its first column, and the check would not see that it is missing.
* Redemption of refresh tokens. The README's 10-second grace window for two tabs
  (`refresh_grace_seconds`) means that a second redemption is sometimes right, and no
  code reads it yet: the table alone neither forbids nor grants a second successor,
  so no property says which it should be. `sessions` has two such redemptions among
  its programs, as statements that must be serial like any others.
* The command line: it prints settings and pings the database.
* Services, schemas and cryptography: empty packages at this commit. Several
  questions wait for them: recording a failed login in a transaction that is rolled
  back (a hazard already, by the way `get_session` works), revoking a family while a
  token rotates, polling the revocation feed.

## Plan

Done, in this order: the schema and the database (everything rests on them), the
promises of tenancy and credentials with their proofs, concurrent sessions, the
HTTP shell; then migrations, the process with its settings and its pool, the log
pipeline, the proofs of the process and its pool, of the credentials, of the HTTP
shell, of the migrations, of the concurrent sessions (the refinement included) and of
the log lines; cancellation and the odd sizes of the pool, and the four substitutions
of the redaction one after the other.

1. When refresh tokens are redeemed: the grace window as a property of the service's
   statements, with time as the value `used_at` is compared with.
2. When a service exists that writes by predicate: predicate reads in `Sessions`,
   and the family revocation that overlaps a rotation.
3. When an endpoint logs: the exceptions it can raise as values of `Traceback`, and,
   if the order of processors is changed so that the traceback is redacted too,
   `LinesShowNoCredential` as a property that holds.
