------------------------------- MODULE Service ------------------------------
(***************************************************************************)
(* One process of the service, from loading its settings to its shutdown,  *)
(* and the connection pool its requests and its readiness probe share:     *)
(* app/main.py (lifespan), app/core/db.py (the engine, get_session) and    *)
(* app/api/v1/health.py (readyz).                                          *)
(*                                                                         *)
(* The pool is SQLAlchemy's AsyncAdaptedQueuePool as create_async_engine   *)
(* configures it: connections not in use are queued, "overflow" counts     *)
(* those that exist from -pool_size up, pool_pre_ping tries a connection   *)
(* before handing it out.  Neither size is checked: a pool_size below 1    *)
(* leaves the queue unbounded, a max_overflow of -1 the pool, and below -1 *)
(* the pool is bounded but nobody waits for it.  A connection is stale     *)
(* when the database or the proxy before it has closed it, pool_recycle is *)
(* over or a cancelled statement had it thrown away: the pool does not     *)
(* know, or care, until it is used.                                        *)
(***************************************************************************)
EXTENDS Settings, Integers, FiniteSets

CONSTANTS
    Request,        \* tasks that serve requests, each many in turn
    Probe,          \* the load balancer's call of readyz
    Environments,   \* what the process may find in its environment
    Outages         \* bound: how often the database goes away

Client == Request \cup {Probe}

ASSUME ServiceAssumption ==
    /\ IsFiniteSet(Client)
    /\ Probe \notin Request
    /\ Outages \in Nat
    /\ \A env \in Environments : /\ DOMAIN env = DOMAIN Defaults
                                 /\ env.db_pool_size \in Int
                                 /\ env.db_max_overflow \in Int
    /\ NULL \notin Int

VARIABLES
    settings,   \* the settings object; before "serving", the environment
    phase,      \* "loading", "refused", "serving", "draining", "stopped"
    up,         \* is the database reachable
    outages,    \* how often it went away
    fresh,      \* connections in the queue that work
    stale,      \* and that do not
    overflow,   \* the pool's counter
    pc,         \* pc[c]: where client c is
    broken,     \* clients whose connection died in their hands
    outcome,    \* outcome[c]: how its last use of the database ended
    disturbed   \* clients that saw an outage during that use

pool == <<fresh, stale, overflow>>
process == <<settings, phase>>
database == <<up, outages>>
vars == <<process, database, pool, pc, broken, outcome, disturbed>>

(* "opening": a new connection; "renewing": one from the queue that had    *)
(* turned out to be stale.                                                 *)
Holding == {"opening", "renewing", "working"}
Places == {"away", "waiting"} \cup Holding

size == settings.db_pool_size
max_overflow == IF size = 0 THEN -1 ELSE settings.db_max_overflow

AtLimit == max_overflow # -1 /\ overflow >= max_overflow

-----------------------------------------------------------------------------
Init ==
    /\ settings \in Environments
    /\ phase = "loading"
    /\ up = TRUE
    /\ outages = 0
    /\ fresh = 0 /\ stale = 0 /\ overflow = -size
    /\ pc = [c \in Client |-> "away"]
    /\ broken = {}
    /\ outcome = [c \in Client |-> "none"]
    /\ disturbed = {}

Goto(c, place) == pc' = [pc EXCEPT ![c] = place]

Fail(c, how) ==
    /\ Goto(c, "away")
    /\ outcome' = [outcome EXCEPT ![c] = how]

(* The import of app.core.config makes the settings, that of app.core.db   *)
(* the engine (which opens nothing), lifespan starts the serving.          *)
Load ==
    /\ phase = "loading"
    /\ IF Starts(settings)
       THEN phase' = "serving" /\ settings' = Loaded(settings)
       ELSE phase' = "refused" /\ UNCHANGED settings
    /\ UNCHANGED <<database, pool, pc, broken, outcome, disturbed>>

-----------------------------------------------------------------------------
(* A session takes its connection from the pool at its first statement.    *)

(* From the queue: with the pre-ping, a stale one is replaced.             *)
CheckOut_NoPrePing(c) ==
    \/ fresh > 0 /\ fresh' = fresh - 1 /\ Goto(c, "working") /\ UNCHANGED <<stale, overflow, broken>>
    \/ stale > 0 /\ stale' = stale - 1 /\ Goto(c, "working") /\ broken' = broken \cup {c}
                 /\ UNCHANGED <<fresh, overflow>>
CheckOut(c) ==
    \/ fresh > 0 /\ fresh' = fresh - 1 /\ Goto(c, "working") /\ UNCHANGED <<stale, overflow, broken>>
    \/ stale > 0 /\ stale' = stale - 1 /\ Goto(c, "renewing") /\ UNCHANGED <<fresh, overflow, broken>>

Open(c) ==
    /\ ~AtLimit
    /\ overflow' = overflow + 1
    /\ Goto(c, "opening")
    /\ UNCHANGED <<fresh, stale, broken>>

Wait(c) ==
    /\ AtLimit /\ max_overflow >= 0
    /\ Goto(c, "waiting")
    /\ UNCHANGED <<pool, broken>>

(* With a max_overflow below -1 _do_get neither waits nor raises           *)
(* TimeoutError at the limit: it calls itself, to a RecursionError.        *)
Recurse(c) ==
    /\ AtLimit /\ max_overflow < 0
    /\ Fail(c, "turned_away")
    /\ UNCHANGED <<pool, broken>>

Start(c) == outcome' = [outcome EXCEPT ![c] = "none"]

Ask(c) ==
    /\ phase = "serving"
    /\ pc[c] = "away"
    /\ \/ CheckOut(c) /\ Start(c)
       \/ fresh + stale = 0 /\ (Open(c) \/ Wait(c)) /\ Start(c)
       \/ fresh + stale = 0 /\ Recurse(c)
    /\ disturbed' = IF up THEN disturbed \ {c} ELSE disturbed \cup {c}
    /\ UNCHANGED <<process, database>>

(* Waiters are woken by a connection that comes back, not by one that      *)
(* could not be opened; when their time is over they look again.           *)
Woken(c) ==
    /\ pc[c] = "waiting"
    /\ CheckOut(c)
    /\ UNCHANGED <<process, database, outcome, disturbed>>

Expire_NoTimeout(c) ==
    /\ pc[c] = "waiting" /\ ~AtLimit
    /\ fresh + stale > 0
    /\ Open(c)
    /\ UNCHANGED <<process, database, outcome, disturbed>>
Expire(c) ==
    /\ pc[c] = "waiting"
    /\ \/ Open(c) /\ UNCHANGED outcome
       \/ AtLimit /\ Fail(c, "turned_away") /\ UNCHANGED <<pool, broken>>
    /\ UNCHANGED <<process, database, disturbed>>

Connected(c) ==
    /\ pc[c] \in {"opening", "renewing"}
    /\ up
    /\ Goto(c, "working")
    /\ UNCHANGED <<process, database, pool, broken, outcome, disturbed>>

(* The connection goes back to the queue; if that is full it is closed.    *)
CheckIn(usable) ==
    IF size > 0 /\ fresh + stale >= size
    THEN overflow' = overflow - 1 /\ UNCHANGED <<fresh, stale>>
    ELSE /\ UNCHANGED overflow
         /\ IF usable THEN fresh' = fresh + 1 /\ UNCHANGED stale
            ELSE stale' = stale + 1 /\ UNCHANGED fresh

(* Without a connection: one that was to be new is no longer counted, the  *)
(* record of one to be renewed goes back as a stale one would.             *)
Abandon(c) ==
    \/ pc[c] = "opening" /\ overflow' = overflow - 1 /\ UNCHANGED <<fresh, stale>>
    \/ pc[c] = "renewing" /\ CheckIn(FALSE)

ConnectFails(c) ==
    /\ pc[c] \in {"opening", "renewing"}
    /\ ~up
    /\ Fail(c, "unreachable")
    /\ Abandon(c)
    /\ UNCHANGED <<process, database, broken, disturbed>>

Finish(c) ==
    /\ pc[c] = "working"
    /\ Fail(c, IF c \in broken THEN "disconnected" ELSE "answered")
    /\ broken' = broken \ {c}
    /\ UNCHANGED <<process, database, disturbed>>

(* get_session: commit or rollback, and the session is closed either way.  *)
LeaveSession_OpenOnError(c) ==
    /\ c \in Request
    /\ Finish(c)
    /\ IF c \in broken THEN UNCHANGED pool ELSE CheckIn(TRUE)
LeaveSession(c) == c \in Request /\ Finish(c) /\ CheckIn(c \notin broken)

(* readyz: the session is closed before the verdict, and every exception   *)
(* of the steps before, too, becomes 503 "degraded".                       *)
LeaveProbe_NotClosed(c) == c = Probe /\ Finish(c) /\ UNCHANGED pool
LeaveProbe(c) == c = Probe /\ Finish(c) /\ CheckIn(c \notin broken)

(* A task may be cancelled wherever it awaits (its caller is gone, or the  *)
(* shutdown's patience is over).  get_session's handlers are for Exception *)
(* alone, but the session is closed; a connection whose statement was cut  *)
(* off is thrown away first, and only its record goes back.                *)
Cancel(c) ==
    /\ pc[c] # "away"
    /\ Fail(c, "cancelled")
    /\ \/ pc[c] = "waiting" /\ UNCHANGED pool
       \/ Abandon(c)
       \/ pc[c] = "working" /\ \E usable \in {FALSE, c \notin broken} : CheckIn(usable)
    /\ broken' = broken \ {c}
    /\ UNCHANGED <<process, database, disturbed>>

verdict == CASE outcome[Probe] \in {"none", "cancelled"} -> "none"
             [] outcome[Probe] = "answered"              -> "ok"
             [] OTHER                                    -> "degraded"

-----------------------------------------------------------------------------
(* The database and the proxy.                                             *)

(* An idle connection is reaped, or gets too old.                          *)
Reap ==
    /\ fresh > 0
    /\ fresh' = fresh - 1
    /\ stale' = stale + 1
    /\ UNCHANGED <<process, database, overflow, pc, broken, outcome, disturbed>>

GoDown ==
    /\ phase \in {"serving", "draining"}
    /\ up /\ outages < Outages
    /\ up' = FALSE
    /\ outages' = outages + 1
    /\ fresh' = 0
    /\ stale' = stale + fresh
    /\ broken' = broken \cup {c \in Client : pc[c] = "working"}
    /\ disturbed' = disturbed \cup {c \in Client : pc[c] # "away"}
    /\ UNCHANGED <<process, overflow, pc, outcome>>

ComeUp ==
    /\ ~up
    /\ up' = TRUE
    /\ UNCHANGED <<process, outages, pool, pc, broken, outcome, disturbed>>

(* uvicorn takes no more requests, lets those under way end, and then runs *)
(* the rest of lifespan: engine.dispose().                                 *)
SigTerm ==
    /\ phase = "serving"
    /\ phase' = "draining"
    /\ UNCHANGED <<settings, database, pool, pc, broken, outcome, disturbed>>

Dispose ==
    /\ phase = "draining"
    /\ \A c \in Client : pc[c] = "away"
    /\ phase' = "stopped"
    /\ fresh' = 0 /\ stale' = 0 /\ overflow' = -size
    /\ UNCHANGED <<settings, database, pc, broken, outcome, disturbed>>

Ended == phase \in {"refused", "stopped"} /\ UNCHANGED vars

Serve(c) ==
    \/ Woken(c) \/ Expire(c) \/ Connected(c) \/ ConnectFails(c)
    \/ LeaveSession(c) \/ LeaveProbe(c)

Next ==
    \/ Load \/ Reap \/ GoDown \/ ComeUp \/ SigTerm \/ Dispose \/ Ended
    \/ \E c \in Client : Ask(c) \/ Serve(c) \/ Cancel(c)

(* Statements end, attempts to connect and waits are bounded by timeouts,  *)
(* and the load balancer keeps probing.  Nothing says that requests come,  *)
(* or are cancelled, that the database returns or that the process is ever *)
(* told to stop.                                                           *)
Spec ==
    /\ Init /\ [][Next]_vars
    /\ WF_vars(Load) /\ WF_vars(Dispose)
    /\ WF_vars(Ask(Probe)) /\ \A c \in Client : WF_vars(Serve(c))

-----------------------------------------------------------------------------
holders == {c \in Client : pc[c] \in Holding}
Limit == IF max_overflow = -1 THEN NULL
         ELSE IF size + max_overflow > 0 THEN size + max_overflow ELSE 0

Slots == INSTANCE PoolSlots WITH
    Unlimited  <- NULL,
    limit      <- Limit,
    waiting    <- {c \in Client : pc[c] = "waiting"},
    turnedAway <- {c \in Client : outcome[c] = "turned_away"}

(* The pool hands out pool_size + max_overflow connections, no more, and a *)
(* request or a probe waits, or is turned away, only if it came while all  *)
(* of them were in use - whatever went stale, could not be opened, was     *)
(* closed or was cancelled before.                                         *)
PoolIsSlots == Slots!Spec

(* No connection is lost or counted twice: those counted are those queued  *)
(* and those in use (get_session and readyz close every session, however   *)
(* it ends).                                                               *)
SlotsAreConserved == overflow + size = fresh + stale + Cardinality(holders)

(* A connection that went stale while idle is nobody's error (db.py: "a    *)
(* stale one would otherwise surface as a 500 on the first request after a *)
(* lull"): what fails to reach the database ran while it was away.         *)
IdleLossIsInvisible ==
    \A c \in Client : outcome[c] \in {"unreachable", "disconnected"} => c \in disturbed

(* readyz is about now: once the database stays reachable and the requests *)
(* leave a connection free, the service is found ready from some point on, *)
(* whatever happened before - unless the probes are given up unanswered.   *)
Calm ==
    /\ phase = "serving" /\ up
    /\ outcome[Probe] # "cancelled"
    /\ max_overflow # -1 => Cardinality(holders \ {Probe}) < Limit
ReadinessRecovers == <>[]Calm => <>[](pc[Probe] = "away" => verdict = "ok")

(* A process told to stop does: nobody waits for the pool for ever.        *)
Stops == phase = "draining" ~> phase = "stopped"

(* Prod refuses to boot on what .env.example offers ("Every value here is  *)
(* a LOCAL DEVELOPMENT default. Settings refuses to boot in prod with any  *)
(* of them still in place"), and everything but a local process on the     *)
(* seed password ("Settings REFUSES to boot with this set when APP_ENV is  *)
(* not "local"").                                                          *)
ExampleIsRefused ==
    phase = "serving" =>
        /\ settings.app_env = "prod" =>
              /\ settings.database_url # Example
              /\ \A f \in {"issuer", "signer_backend", "cookie_secure", "cors_origins"} :
                    settings[f] # Defaults[f]
        /\ Given(settings.dev_seed_password) => settings.app_env = "local"
=============================================================================
