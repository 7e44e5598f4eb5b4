------------------------------ MODULE Requests ------------------------------
(***************************************************************************)
(* One HTTP request after another through the application that create_app  *)
(* (app/main.py) assembles, several at a time, each in a server task:      *)
(*                                                                         *)
(*   Starlette's error middleware (answers with _unhandled of errors.py)   *)
(*     RequestContextMiddleware (app/core/middleware.py)                   *)
(*       CORS                                                              *)
(*         exception handlers (app/core/errors.py)                         *)
(*           endpoint                                                      *)
(*                                                                         *)
(* RequestContextMiddleware keeps the correlation ids in context variables *)
(* of its own task and runs everything inside it in a child task, which    *)
(* starts with a copy of them (Starlette's BaseHTTPMiddleware).  A log     *)
(* line takes its ids from the context of the task that writes it.         *)
(***************************************************************************)
EXTENDS FiniteSets

CONSTANTS
    NONE,       \* Python's None
    Task,       \* server tasks; one serves many requests in turn
    Request,
    Reason,     \* why a login failed
    Detail,     \* shapes of an AppError's detail: "plain", "names_code"
    TraceId     \* ids a proxy may have put in x-request-id

VARIABLES
    at,         \* at[t]: where in the stack task t is
    serving,    \* serving[t]: the request it is on, NONE between two
    raised,     \* raised[t]: the exception or result on its way out
    context,    \* context variables of each task: <<request_id, tenant_id>>
    child,      \* the child task's copy
    asked,      \* asked[r]: what request r asks for, NONE before it comes
    answer,     \* answer[r]: the response sent
    lines       \* what has been logged

vars == <<at, serving, raised, context, child, asked, answer, lines>>

NoContext == [request_id |-> NONE, tenant_id |-> NONE]

Paths == {"quiet", "auth", "other"}     \* QUIET_PATHS, /api/v1/{auth,oauth}, the rest

(* What comes in: a path, and the id a proxy put in the header, if any.    *)
Asks == [path : Paths, trace : TraceId \cup {NONE}]

ASSUME NoneIsNothing == NONE \notin Request /\ NONE \notin Asks

(* What the router, an endpoint or its dependencies may end with.          *)
Outcomes ==
    [kind : {"returned"}] \cup [kind : {"checked"}, status : {200, 503}]
      \cup [kind : {"InvalidCredentials"}, reason : Reason]
      \cup [kind : {"AppError"}, detail : Detail]
      \cup [kind : {"RateLimited", "RequestValidationError", "HTTPException", "Exception"}]

(* The id of a request: the proxy's, or one made up for it.                *)
IdOf(r) == IF asked[r].trace = NONE THEN r ELSE asked[r].trace

(* A context variable has one value per task.                              *)
Slot_ModuleGlobal(t) == CHOOSE one \in Task : TRUE
Slot(t) == t

Line(t, event, ids) ==
    [of |-> serving[t], event |-> event,
     request_id |-> ids.request_id, tenant_id |-> ids.tenant_id]

Response(status, code, body_id) ==
    [status |-> status, code |-> code, body_id |-> body_id, echo |-> FALSE,
     header_id |-> NONE, no_store |-> FALSE]

-----------------------------------------------------------------------------
Init ==
    /\ at = [t \in Task |-> "idle"]
    /\ serving = [t \in Task |-> NONE]
    /\ raised = [t \in Task |-> NONE]
    /\ context = [t \in Task |-> NoContext]
    /\ child = [t \in Task |-> NoContext]
    /\ asked = [r \in Request |-> NONE]
    /\ answer = [r \in Request |-> NONE]
    /\ lines = {}

Goto(t, place) == at' = [at EXCEPT ![t] = place]

(* dispatch, up to call_next, which starts the child task.                 *)
Receive(t, r) ==
    /\ at[t] = "idle"
    /\ asked[r] = NONE
    /\ \E ask \in Asks : asked' = [asked EXCEPT ![r] = ask]
    /\ context' = [context EXCEPT ![Slot(t)].request_id = IdOf(r)']
    /\ child' = [child EXCEPT ![Slot(t)] = context'[Slot(t)]]
    /\ serving' = [serving EXCEPT ![t] = r]
    /\ Goto(t, "endpoint")
    /\ UNCHANGED <<raised, answer, lines>>

(* A verified token names the tenant (and the actor, likewise).            *)
VerifyToken(t) ==
    /\ at[t] = "endpoint"
    /\ child[Slot(t)].tenant_id = NONE
    /\ child' = [child EXCEPT ![Slot(t)].tenant_id = <<"tenant of", serving[t]>>]
    /\ UNCHANGED <<at, serving, raised, context, asked, answer, lines>>

Leave(t, o) ==
    /\ raised' = [raised EXCEPT ![t] = o]
    /\ Goto(t, IF o.kind \in {"returned", "checked"} THEN "responding" ELSE "handling")
    /\ answer' = [answer EXCEPT ![serving[t]] =
           CASE o.kind = "returned" -> Response(200, "none", NONE)
             [] o.kind = "checked"  -> Response(o.status, "none", NONE)
             [] OTHER -> @]

(* healthz and readyz only return: readyz turns an unreachable database    *)
(* into 503 itself.  Other endpoints may raise, and a path or method that  *)
(* nothing serves ("/metrics" among the quiet ones) is an HTTPException.   *)
Endpoint(t) ==
    /\ at[t] = "endpoint"
    /\ \E o \in Outcomes :
          /\ o.kind # "HTTPException" =>
                 (asked[serving[t]].path = "quiet" <=> o.kind = "checked")
          /\ Leave(t, o)
          /\ lines' = lines \cup
                 {Line(t, "readiness_check_failed", child[Slot(t)]) :
                    x \in {y \in {o} : y.kind = "checked" /\ y.status = 503}}
    /\ UNCHANGED <<serving, context, child, asked>>

-----------------------------------------------------------------------------
(* The exception handlers, in the child task: the nearest class wins.      *)

Handle(t, kind, event, response) ==
    /\ at[t] = "handling"
    /\ raised[t].kind = kind
    /\ lines' = lines \cup {Line(t, e, child[Slot(t)]) : e \in event}
    /\ answer' = [answer EXCEPT ![serving[t]] = response]
    /\ Goto(t, "responding")
    /\ UNCHANGED <<serving, raised, context, child, asked>>

BodyId(t) == child[Slot(t)].request_id

(* The reason is logged, not sent.                                         *)
InvalidCredentials_TellsReason(t) ==
    Handle(t, "InvalidCredentials", {"login_failed"},
           Response(401, raised[t].reason, BodyId(t)))
InvalidCredentials(t) ==
    Handle(t, "InvalidCredentials", {"login_failed"},
           Response(401, "invalid_credentials", BodyId(t)))

RateLimited(t) ==
    Handle(t, "RateLimited", {}, Response(429, "rate_limited", BodyId(t)))

AppError(t) ==
    /\ at[t] = "handling" /\ raised[t].kind = "AppError" /\ raised[t].detail = "plain"
    /\ Handle(t, "AppError", {"app_error"}, Response(400, "app_error", BodyId(t)))

(* A detail with a key "code" or "message" meets the keyword of that name: *)
(* log.warning raises TypeError, and no response is made.                  *)
DetailClash(t) ==
    /\ at[t] = "handling" /\ raised[t].kind = "AppError" /\ raised[t].detail # "plain"
    /\ Goto(t, "failing")
    /\ UNCHANGED <<serving, raised, context, child, asked, answer, lines>>

(* On the login paths the input is not sent back; elsewhere FastAPI's own  *)
(* handler answers, with the input and without the request id.             *)
Validation(t) ==
    Handle(t, "RequestValidationError", {"request_validation_failed"},
           IF asked[serving[t]].path = "auth"
           THEN Response(422, "validation_failed", BodyId(t))
           ELSE [Response(422, "detail", NONE) EXCEPT !.echo = TRUE])

(* Not one of the application's handlers: FastAPI's own answers.           *)
NotServed(t) ==
    Handle(t, "HTTPException", {}, Response(404, "detail", NONE))

(* No handler inside the middleware: the exception leaves the child task.  *)
Escape(t) ==
    /\ at[t] = "handling"
    /\ raised[t].kind = "Exception"
    /\ Goto(t, "failing")
    /\ UNCHANGED <<serving, raised, context, child, asked, answer, lines>>

-----------------------------------------------------------------------------
(* clear_request_context, in the middleware's own task.                    *)
Cleared(t) == [context EXCEPT ![Slot(t)] = NoContext]

Finish(t) ==
    /\ Goto(t, "idle")
    /\ serving' = [serving EXCEPT ![t] = NONE]
    /\ raised' = [raised EXCEPT ![t] = NONE]
    /\ child' = [child EXCEPT ![Slot(t)] = NoContext]

(* dispatch after call_next: the id kept in a local goes into the header   *)
(* and the access line, whose other ids are gone with the context.         *)
Respond(t) ==
    /\ at[t] = "responding"
    /\ context' = Cleared(t)
    /\ LET r == serving[t]
       IN  /\ answer' = [answer EXCEPT ![r].header_id = IdOf(r), ![r].no_store = TRUE]
           /\ lines' = lines \cup
                 IF asked[r].path = "quiet" THEN {}
                 ELSE {Line(t, "request", [NoContext EXCEPT !.request_id = IdOf(r)])}
    /\ Finish(t)
    /\ UNCHANGED asked

(* "except Exception" logs with the context still set, "finally" clears.   *)
DispatchFails_ClearsFirst(t) ==
    /\ at[t] = "failing"
    /\ lines' = lines \cup {Line(t, "request_failed", NoContext)}
    /\ context' = Cleared(t)
    /\ Goto(t, "unhandled")
    /\ UNCHANGED <<serving, raised, child, asked, answer>>
DispatchFails_Retries(t) ==
    /\ at[t] = "failing"
    /\ lines' = lines \cup {Line(t, "request_failed", context[Slot(t)])}
    /\ Goto(t, "endpoint")
    /\ UNCHANGED <<serving, raised, context, child, asked, answer>>
DispatchFails(t) ==
    /\ at[t] = "failing"
    /\ lines' = lines \cup {Line(t, "request_failed", context[Slot(t)])}
    /\ context' = Cleared(t)
    /\ Goto(t, "unhandled")
    /\ UNCHANGED <<serving, raised, child, asked, answer>>

(* The error middleware is outside RequestContextMiddleware: _unhandled    *)
(* runs after the clearing, and its response gets none of the headers.     *)
Unhandled(t) ==
    /\ at[t] = "unhandled"
    /\ lines' = lines \cup {Line(t, "unhandled_exception", context[Slot(t)])}
    /\ answer' = [answer EXCEPT ![serving[t]] =
                     Response(500, "internal_error", context[Slot(t)].request_id)]
    /\ Finish(t)
    /\ UNCHANGED <<context, asked>>

(* The client goes away: CancelledError passes every "except Exception",   *)
(* "finally" still clears, nothing is sent.                                *)
Disconnect(t) ==
    /\ at[t] \in {"endpoint", "handling"}
    /\ context' = Cleared(t)
    /\ Finish(t)
    /\ UNCHANGED <<asked, answer, lines>>

AllServed ==
    /\ \A r \in Request : asked[r] # NONE
    /\ \A t \in Task : at[t] = "idle"
    /\ UNCHANGED vars

Handlers(t) ==
    InvalidCredentials(t) \/ RateLimited(t) \/ AppError(t) \/ DetailClash(t)
      \/ Validation(t) \/ NotServed(t) \/ Escape(t)

Serve(t) == Endpoint(t) \/ Handlers(t) \/ Respond(t) \/ DispatchFails(t) \/ Unhandled(t)

Next ==
    \/ \E t \in Task : \/ \E r \in Request : Receive(t, r)
                       \/ VerifyToken(t) \/ Serve(t) \/ Disconnect(t)
    \/ AllServed

(* The event loop runs every task that is ready, and endpoints end.        *)
Spec == Init /\ [][Next]_vars /\ \A t \in Task : WF_vars(Serve(t))

-----------------------------------------------------------------------------
Sent == {r \in Request : answer[r] # NONE /\ \A t \in Task : serving[t] # r}

OwnIds(r) == {NONE, IdOf(r)}

(* No log line and no response names another request or another request's  *)
(* tenant, however requests overlap and whatever ended the one before it   *)
(* on the same task (middleware.py: "a stale tenant_id would otherwise     *)
(* attach itself to the next request's log lines").                        *)
NothingForeign ==
    /\ \A l \in lines : /\ l.request_id \in OwnIds(l.of)
                        /\ l.tenant_id \in {NONE, <<"tenant of", l.of>>}
    /\ \A r \in Sent : {answer[r].header_id, answer[r].body_id} \subseteq OwnIds(r)

(* Two failed logins look the same from outside whatever failed            *)
(* (errors.py: "the response body is identical every time"), except for    *)
(* the ids, while the log tells the reasons apart by request.              *)
FailedLoginsAreAlike ==
    \A r, o \in Sent :
        (\A x \in {r, o} : \E l \in lines : l.of = x /\ l.event = "login_failed")
          => [answer[r] EXCEPT !.body_id = NONE, !.header_id = NONE]
               = [answer[o] EXCEPT !.body_id = NONE, !.header_id = NONE]

(* Every response outside the quiet paths can be found in the log under    *)
(* the id of its request: an access line, or the line of the exception     *)
(* that got past the handlers (the client of that 500 is not told the id). *)
SentIsLogged ==
    \A r \in Sent :
        \/ asked[r].path = "quiet"
        \/ \E l \in lines : l.of = r /\ l.event \in {"request", "request_failed"}
                            /\ l.request_id = IdOf(r)

(* A task gets done with the request it serves, whatever is raised on the  *)
(* way out, a handler's own exception included.                            *)
EveryRequestLeaves ==
    \A t \in Task : serving[t] # NONE ~> serving[t] = NONE

(* Every response is marked not to be cached, and a 500 carries the id its *)
(* log lines have (errors.py: "Every auth response is Cache-Control:       *)
(* no-store, applied in middleware", "The request_id ties this to the      *)
(* stack trace").                                                          *)
EveryResponseIsSealed ==
    \A r \in Sent :
        /\ answer[r].no_store
        /\ answer[r].status = 500 => answer[r].body_id = IdOf(r)
=============================================================================
