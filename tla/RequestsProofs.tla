---------------------------- MODULE RequestsProofs ---------------------------
(***************************************************************************)
(* Correlation ids and failed logins for any number of tasks and requests: *)
(* what a task's context holds at each point of the stack, and therefore   *)
(* what its log lines and responses may name.                              *)
(***************************************************************************)
EXTENDS Requests, TLAPS

Id == Request \cup TraceId \cup {NONE}

Status == {200, 400, 401, 404, 422, 429, 500, 503}

Code == {"none", "invalid_credentials", "rate_limited", "app_error", "validation_failed",
         "detail", "internal_error"}

Reply == [status : Status, code : Code, body_id : Id, echo : BOOLEAN, header_id : Id,
          no_store : BOOLEAN]

(* The responses that name nothing but the request's own id.               *)
OwnReply(r) == {a \in Reply : {a.header_id, a.body_id} \subseteq OwnIds(r)}

Inside == {"endpoint", "handling", "responding", "failing"}

(* The fields of a task's context that nobody else could have set.         *)
ContextOf(r) == [request_id |-> IdOf(r), tenant_id |-> NONE]

ChildOf(r) == [request_id : {IdOf(r)}, tenant_id : {NONE, <<"tenant of", r>>}]

-----------------------------------------------------------------------------
(* The inductive invariant, part by part.                                  *)

Typed ==
    /\ at \in [Task -> Inside \cup {"idle", "unhandled"}]
    /\ serving \in [Task -> Request \cup {NONE}]
    /\ asked \in [Request -> Asks \cup {NONE}]
    /\ answer \in [Request -> Reply \cup {NONE}]
    /\ DOMAIN context = Task /\ context = [t \in Task |-> context[t]]
    /\ DOMAIN child = Task /\ child = [t \in Task |-> child[t]]
    /\ DOMAIN raised = Task /\ raised = [t \in Task |-> raised[t]]

(* One task per request, and an idle task serves none.                     *)
Serving ==
    /\ \A t \in Task : at[t] = "idle" <=> serving[t] = NONE
    /\ \A t \in Task : serving[t] # NONE => asked[serving[t]] # NONE
    /\ \A t, u \in Task : serving[t] = serving[u] /\ serving[t] # NONE => t = u

(* A task's context is its request's until "finally", and the child's is a *)
(* copy of it, with the tenant of the request's token at most.             *)
OwnContext ==
    \A t \in Task :
        IF at[t] \in Inside
        THEN context[t] = ContextOf(serving[t]) /\ child[t] \in ChildOf(serving[t])
        ELSE context[t] = NoContext

OwnLines ==
    \A l \in lines :
        /\ l.of \in Request /\ asked[l.of] # NONE
        /\ l.request_id \in OwnIds(l.of)
        /\ l.tenant_id \in {NONE, <<"tenant of", l.of>>}

(* A request has its response when its task is about to pass it on.        *)
OwnAnswers ==
    /\ \A r \in Request : asked[r] = NONE => answer[r] = NONE
    /\ \A r \in Request : answer[r] \in OwnReply(r) \cup {NONE}
    /\ \A t \in Task : at[t] \in Inside \cup {"unhandled"} =>
          IF at[t] = "responding" THEN answer[serving[t]] \in OwnReply(serving[t])
                                  ELSE answer[serving[t]] = NONE

Logged(r) == \E l \in lines : /\ l.of = r /\ l.event \in {"request", "request_failed"}
                              /\ l.request_id = IdOf(r)

(* A failure is logged before the answer that the error middleware makes.  *)
LoggedInTime ==
    /\ SentIsLogged
    /\ \A t \in Task : at[t] = "unhandled" => Logged(serving[t])

IsRefusal(a) == a.status = 401 /\ a.code = "invalid_credentials" /\ a.echo = FALSE

(* A login that was logged as failed has the one response for it.          *)
FailedLogins ==
    \A l \in lines : l.event = "login_failed" =>
        /\ IsRefusal(answer[l.of])
        /\ \/ answer[l.of].no_store = TRUE /\ \A t \in Task : serving[t] # l.of
           \/ \E t \in Task : serving[t] = l.of /\ at[t] = "responding"

IInv == Typed /\ Serving /\ OwnContext /\ OwnLines /\ OwnAnswers /\ LoggedInTime /\ FailedLogins

-----------------------------------------------------------------------------
(* A task that is not idle serves a request that came in, and is the only  *)
(* one to serve it.                                                        *)
LEMMA Busy ==
    ASSUME IInv, NEW t \in Task, at[t] # "idle"
    PROVE  /\ serving[t] \in Request
           /\ asked[serving[t]] \in Asks
           /\ \A u \in Task : u # t => serving[u] # serving[t]
BY DEF IInv, Typed, Serving

(* Ids of requests are ids.                                                *)
LEMMA IdsAreIds ==
    ASSUME NEW r \in Request, asked[r] \in Asks
    PROVE  IdOf(r) \in Id
BY DEF IdOf, Id, Asks

(* At the start nothing has come in.                                       *)
LEMMA InitIInv == Init => IInv
<1> SUFFICES ASSUME Init PROVE IInv
  OBVIOUS
<1> USE DEF Init
<1>1. Typed
  BY DEF Typed
<1>2. Serving
  BY DEF Serving
<1>3. OwnContext /\ OwnLines /\ OwnAnswers
  BY DEF OwnContext, OwnLines, OwnAnswers, Inside
<1>4. LoggedInTime /\ FailedLogins
  BY DEF LoggedInTime, SentIsLogged, Sent, FailedLogins
<1> QED BY <1>1, <1>2, <1>3, <1>4 DEF IInv

(* A new request gets a task whose last one left nothing behind.           *)
LEMMA ReceiveKeeps ==
    ASSUME IInv, NEW t \in Task, NEW r \in Request, Receive(t, r)
    PROVE  IInv'
<1> DEFINE id == IdOf(r)'
<1>1. PICK ask \in Asks : asked' = [asked EXCEPT ![r] = ask]
  BY DEF Receive
<1>2. /\ at[t] = "idle" /\ asked[r] = NONE
      /\ context' = [context EXCEPT ![t].request_id = id]
      /\ child' = [child EXCEPT ![t] = context'[t]]
      /\ serving' = [serving EXCEPT ![t] = r]
      /\ at' = [at EXCEPT ![t] = "endpoint"]
      /\ raised' = raised /\ answer' = answer /\ lines' = lines
  BY DEF Receive, Slot, Goto
<1>3. /\ Typed /\ Serving /\ OwnContext /\ OwnLines /\ OwnAnswers /\ LoggedInTime /\ FailedLogins
  BY DEF IInv
<1>4. \A u \in Task : serving[u] # r
  BY <1>2, <1>3, NoneIsNothing DEF Serving
<1>5. \A q \in Request : q # r => IdOf(q)' = IdOf(q) /\ OwnIds(q)' = OwnIds(q)
  BY <1>1, <1>3 DEF IdOf, OwnIds, Typed
<1>6. \A q \in Request : asked[q] # NONE => q # r /\ asked'[q] = asked[q]
  BY <1>1, <1>2, <1>3 DEF Typed
<1>7. Typed'
  BY <1>1, <1>2, <1>3 DEF Typed, Inside
<1>8. Serving'
  BY <1>1, <1>2, <1>3, <1>4, NoneIsNothing DEF Serving, Typed
<1>9. OwnContext'
  <2> SUFFICES ASSUME NEW u \in Task
               PROVE  IF at'[u] \in Inside
                      THEN context'[u] = ContextOf(serving[u])' /\ child'[u] \in ChildOf(serving[u])'
                      ELSE context'[u] = NoContext
    BY DEF OwnContext
  <2>1. CASE u = t
    <3>1. context[t] = NoContext
      BY <1>2, <1>3 DEF OwnContext, Inside
    <3>2. context'[t] = [request_id |-> id, tenant_id |-> NONE]
      BY <1>2, <1>3, <3>1 DEF Typed, NoContext
    <3> HIDE DEF id
    <3>3. child'[t] = context'[t] /\ at'[t] = "endpoint" /\ serving'[t] = r
      BY <1>2, <1>3 DEF Typed
    <3> QED BY <2>1, <3>2, <3>3 DEF ContextOf, ChildOf, Inside, id
  <2>2. CASE u # t
    <3>1. /\ context'[u] = context[u] /\ child'[u] = child[u] /\ at'[u] = at[u]
          /\ serving'[u] = serving[u]
      BY <1>2, <1>3, <2>2 DEF Typed
    <3>2. at[u] \in Inside => serving[u] \in Request /\ serving[u] # r
      BY <1>3, <1>4 DEF Typed, Serving, Inside
    <3>3. at[u] \in Inside => IdOf(serving[u])' = IdOf(serving[u])
      BY <1>5, <3>1, <3>2 DEF IdOf
    <3> QED BY <1>3, <3>1, <3>3 DEF OwnContext, ContextOf, ChildOf
  <2> QED BY <2>1, <2>2
<1>10. OwnLines'
  BY <1>2, <1>3, <1>5, <1>6 DEF OwnLines
<1>11. OwnAnswers'
  <2>1. \A q \in Request : answer[q] # NONE => q # r
    BY <1>2, <1>3 DEF OwnAnswers
  <2>2. \A q \in Request : asked'[q] = NONE => answer'[q] = NONE
    BY <1>2, <1>3, <1>6 DEF OwnAnswers
  <2>3. \A q \in Request : answer'[q] \in OwnReply(q)' \cup {NONE}
    BY <1>2, <1>3, <1>5, <2>1 DEF OwnAnswers, OwnReply
  <2>4. \A u \in Task : at'[u] \in Inside \cup {"unhandled"} =>
          IF at'[u] = "responding" THEN answer'[serving'[u]] \in OwnReply(serving[u])'
                                   ELSE answer'[serving'[u]] = NONE
    <3> SUFFICES ASSUME NEW u \in Task, at'[u] \in Inside \cup {"unhandled"}
                 PROVE  IF at'[u] = "responding" THEN answer'[serving'[u]] \in OwnReply(serving[u])'
                                                 ELSE answer'[serving'[u]] = NONE
      OBVIOUS
    <3>1. CASE u = t
      BY <1>2, <1>3, <2>1, <3>1 DEF Typed
    <3>2. CASE u # t
      <4>1. /\ serving'[u] = serving[u] /\ at'[u] = at[u] /\ answer' = answer
            /\ serving[u] \in Request /\ serving[u] # r
        BY <1>2, <1>3, <1>4, <3>2 DEF Typed, Serving, Inside
      <4>2. OwnReply(serving[u])' = OwnReply(serving[u])
        BY <1>1, <1>3, <4>1 DEF OwnReply, OwnIds, IdOf, Typed
      <4> QED BY <1>3, <4>1, <4>2 DEF OwnAnswers
    <3> QED BY <3>1, <3>2
  <2> QED BY <2>2, <2>3, <2>4 DEF OwnAnswers
<1>12. LoggedInTime'
  <2>1. \A q \in Request : q # r /\ Logged(q) => Logged(q)'
    BY <1>2, <1>5 DEF Logged
  <2>2. \A q \in Request : answer[q] # NONE => q # r
    BY <1>2, <1>3 DEF OwnAnswers
  <2>3. \A u \in Task : at'[u] = "unhandled" => Logged(serving[u])'
    <3> SUFFICES ASSUME NEW u \in Task, at'[u] = "unhandled" PROVE Logged(serving[u])'
      OBVIOUS
    <3>1. at[u] = "unhandled" /\ serving'[u] = serving[u] /\ serving[u] \in Request /\ serving[u] # r
      BY <1>2, <1>3, <1>4 DEF Typed, Serving
    <3>2. Logged(serving[u])
      BY <1>3, <3>1 DEF LoggedInTime
    <3> QED BY <1>2, <1>5, <3>1, <3>2 DEF Logged, IdOf
  <2>4. SentIsLogged'
    <3> SUFFICES ASSUME NEW q \in Request, answer'[q] # NONE, \A u \in Task : serving'[u] # q
                 PROVE  asked'[q].path = "quiet" \/ Logged(q)'
      BY DEF SentIsLogged, Sent, Logged
    <3>1. q # r /\ answer[q] # NONE /\ asked'[q] = asked[q]
      BY <1>2, <1>3, <1>6, <2>2 DEF OwnAnswers
    <3>2. q \in Sent
      <4>1. \A u \in Task : u # t => serving[u] # q
        BY <1>2, <1>3 DEF Typed
      <4>2. serving[t] # q
        BY <1>2, <1>3, NoneIsNothing DEF Serving
      <4> QED BY <3>1, <4>1, <4>2 DEF Sent
    <3>3. asked[q].path = "quiet" \/ Logged(q)
      BY <1>3, <3>2 DEF LoggedInTime, SentIsLogged, Logged
    <3> QED BY <2>1, <3>1, <3>3
  <2> QED BY <2>3, <2>4 DEF LoggedInTime
<1>13. FailedLogins'
  <2> SUFFICES ASSUME NEW l \in lines, l.event = "login_failed"
               PROVE  /\ IsRefusal(answer'[l.of])
                      /\ \/ answer'[l.of].no_store = TRUE /\ \A u \in Task : serving'[u] # l.of
                         \/ \E u \in Task : serving'[u] = l.of /\ at'[u] = "responding"
    BY <1>2 DEF FailedLogins
  <2>1. l.of \in Request /\ l.of # r
    BY <1>3, <1>6 DEF OwnLines
  <2>2. IsRefusal(answer'[l.of])
    BY <1>2, <1>3 DEF FailedLogins
  <2>3. CASE answer[l.of].no_store = TRUE /\ \A u \in Task : serving[u] # l.of
    BY <1>2, <1>3, <2>1, <2>2, <2>3 DEF Typed
  <2>4. CASE \E u \in Task : serving[u] = l.of /\ at[u] = "responding"
    <3>1. PICK u \in Task : serving[u] = l.of /\ at[u] = "responding"
      BY <2>4
    <3>2. u # t
      BY <1>2, <3>1
    <3>3. serving'[u] = l.of /\ at'[u] = "responding"
      BY <1>2, <1>3, <3>1, <3>2 DEF Typed
    <3> QED BY <2>2, <3>3
  <2> QED BY <1>3, <2>3, <2>4 DEF FailedLogins
<1> QED BY <1>7, <1>8, <1>9, <1>10, <1>11, <1>12, <1>13 DEF IInv

-----------------------------------------------------------------------------
(* A step of a busy task on request r changes its own state, r's answer    *)
(* and the log.                                                            *)
Turn(t, r, place, c, k, x, a) ==
    /\ asked' = asked
    /\ at' = [at EXCEPT ![t] = place]
    /\ serving' = [serving EXCEPT ![t] = IF place = "idle" THEN NONE ELSE r]
    /\ context' = [context EXCEPT ![t] = c]
    /\ child' = [child EXCEPT ![t] = k]
    /\ raised' = [raised EXCEPT ![t] = x]
    /\ answer' = [answer EXCEPT ![r] = a]

(* It leaves the context and the answer that belong to its place,          *)
InPlace(r, place, c, k, a) ==
    /\ place \in Inside => c = ContextOf(r) /\ k \in ChildOf(r)
    /\ place \notin Inside => c = NoContext
    /\ a \in OwnReply(r) \cup {NONE}
    /\ place = "responding" => a \in OwnReply(r)
    /\ place \in {"endpoint", "handling", "failing", "unhandled"} => a = NONE

(* and logs under its own ids, before it is too late, and a failed login   *)
(* with the answer for it.                                                 *)
InLog(r, place, a) ==
    /\ lines \subseteq lines'
    /\ \A l \in lines' \ lines : /\ l.of = r
                                 /\ l.request_id \in OwnIds(r)
                                 /\ l.tenant_id \in {NONE, <<"tenant of", r>>}
    /\ place = "unhandled" => Logged(r)'
    /\ place = "idle" /\ a # NONE => asked[r].path = "quiet" \/ Logged(r)'
    /\ \A l \in lines' : l.of = r /\ l.event = "login_failed" =>
          /\ IsRefusal(a)
          /\ place = "responding" \/ (place = "idle" /\ a.no_store = TRUE)

(* Such steps keep the invariant.                                          *)
LEMMA TaskKeeps ==
    ASSUME IInv, NEW t \in Task, at[t] # "idle", NEW r, r = serving[t],
           NEW place \in Inside \cup {"idle", "unhandled"}, NEW c, NEW k, NEW x,
           NEW a \in Reply \cup {NONE},
           Turn(t, r, place, c, k, x, a), InPlace(r, place, c, k, a), InLog(r, place, a)
    PROVE  IInv'
<1>1. /\ Typed /\ Serving /\ OwnContext /\ OwnLines /\ OwnAnswers /\ LoggedInTime /\ FailedLogins
  BY DEF IInv
<1>2. r \in Request /\ asked[r] \in Asks /\ asked[r] # NONE /\ r # NONE
      /\ \A u \in Task : u # t => serving[u] # r
  BY Busy, NoneIsNothing
<1>3. asked' = asked /\ \A q : IdOf(q)' = IdOf(q) /\ OwnIds(q)' = OwnIds(q)
  BY DEF Turn, IdOf, OwnIds
<1>4. /\ at'[t] = place /\ serving'[t] = (IF place = "idle" THEN NONE ELSE r)
      /\ context'[t] = c /\ child'[t] = k /\ answer'[r] = a
      /\ \A u \in Task : u # t => /\ at'[u] = at[u] /\ serving'[u] = serving[u]
                                  /\ context'[u] = context[u] /\ child'[u] = child[u]
      /\ \A q \in Request : q # r => answer'[q] = answer[q]
  BY <1>1, <1>2 DEF Typed, Turn
<1>5. Typed'
  BY <1>1, <1>2 DEF Typed, Turn
<1>6. Serving'
  BY <1>1, <1>2, <1>3, <1>4 DEF Serving
<1>7. OwnContext'
  <2> SUFFICES ASSUME NEW u \in Task
               PROVE  IF at'[u] \in Inside
                      THEN context'[u] = ContextOf(serving[u])' /\ child'[u] \in ChildOf(serving[u])'
                      ELSE context'[u] = NoContext
    BY DEF OwnContext
  <2>1. CASE u = t
    BY <1>3, <1>4, <2>1 DEF InPlace, Inside, ContextOf, ChildOf, IdOf
  <2>2. CASE u # t
    BY <1>1, <1>3, <1>4, <2>2 DEF OwnContext, ContextOf, ChildOf, IdOf
  <2> QED BY <2>1, <2>2
<1>8. OwnLines'
  BY <1>1, <1>2, <1>3 DEF OwnLines, InLog
<1>9. OwnAnswers'
  <2>0. \A q : OwnReply(q)' = OwnReply(q)
    BY <1>3 DEF OwnReply
  <2>1. /\ \A q \in Request : asked'[q] = NONE => answer'[q] = NONE
        /\ \A q \in Request : answer'[q] \in OwnReply(q)' \cup {NONE}
    BY <1>1, <1>2, <1>3, <1>4, <2>0 DEF OwnAnswers, InPlace
  <2>2. \A u \in Task : at'[u] \in Inside \cup {"unhandled"} =>
          IF at'[u] = "responding" THEN answer'[serving'[u]] \in OwnReply(serving[u])'
                                   ELSE answer'[serving'[u]] = NONE
    <3> SUFFICES ASSUME NEW u \in Task, at'[u] \in Inside \cup {"unhandled"}
                 PROVE  IF at'[u] = "responding" THEN answer'[serving'[u]] \in OwnReply(serving[u])'
                                                 ELSE answer'[serving'[u]] = NONE
      OBVIOUS
    <3>1. CASE u = t
      <4>1. serving'[t] = r /\ at'[t] = place /\ answer'[r] = a
        BY <1>4, <3>1 DEF Inside
      <4>2. OwnReply(serving[u])' = OwnReply(r)
        BY <1>3, <3>1, <4>1 DEF OwnReply, OwnIds, IdOf
      <4> QED BY <3>1, <4>1, <4>2 DEF Inside, InPlace
    <3>2. CASE u # t
      <4>1. serving'[u] = serving[u] /\ at'[u] = at[u]
        BY <1>4, <3>2
      <4>2. serving[u] \in Request /\ serving[u] # r
        BY <1>1, <1>2, <3>2, <4>1 DEF Typed, Serving, Inside
      <4>3. OwnReply(serving[u])' = OwnReply(serving[u])
        BY <1>3, <4>1 DEF OwnReply, OwnIds, IdOf
      <4> QED BY <1>1, <1>4, <4>1, <4>2, <4>3 DEF OwnAnswers
    <3> QED BY <3>1, <3>2
  <2> QED BY <2>1, <2>2 DEF OwnAnswers
<1>10. LoggedInTime'
  <2>1. \A q : Logged(q) => Logged(q)'
    BY <1>3 DEF Logged, InLog
  <2>2. \A u \in Task : at'[u] = "unhandled" => Logged(serving[u])'
    <3> SUFFICES ASSUME NEW u \in Task, at'[u] = "unhandled" PROVE Logged(serving[u])'
      OBVIOUS
    <3>1. CASE u = t
      <4>1. Logged(r)' /\ serving'[t] = r
        BY <1>4, <3>1 DEF InLog
      <4> QED BY <3>1, <4>1 DEF Logged, IdOf
    <3>2. CASE u # t
      <4>1. Logged(serving[u]) /\ serving'[u] = serving[u]
        BY <1>1, <1>4, <3>2 DEF LoggedInTime
      <4> QED BY <2>1, <4>1 DEF Logged, IdOf
    <3> QED BY <3>1, <3>2
  <2>3. SentIsLogged'
    <3> SUFFICES ASSUME NEW q \in Request, answer'[q] # NONE, \A u \in Task : serving'[u] # q
                 PROVE  asked[q].path = "quiet" \/ Logged(q)'
      BY <1>3 DEF SentIsLogged, Sent, Logged
    <3>1. CASE q = r
      <4>1. place = "idle" /\ a # NONE
        BY <1>4, <3>1
      <4> QED BY <3>1, <4>1 DEF InLog, Logged, IdOf
    <3>2. CASE q # r
      <4>1. q \in Sent
        BY <1>4, <3>2 DEF Sent
      <4>2. asked[q].path = "quiet" \/ Logged(q)
        BY <1>1, <4>1 DEF LoggedInTime, SentIsLogged, Logged
      <4> QED BY <2>1, <4>2
    <3> QED BY <3>1, <3>2
  <2> QED BY <2>2, <2>3 DEF LoggedInTime
<1>11. FailedLogins'
  <2> SUFFICES ASSUME NEW l \in lines', l.event = "login_failed"
               PROVE  /\ IsRefusal(answer'[l.of])
                      /\ \/ answer'[l.of].no_store = TRUE /\ \A u \in Task : serving'[u] # l.of
                         \/ \E u \in Task : serving'[u] = l.of /\ at'[u] = "responding"
    BY DEF FailedLogins
  <2>1. CASE l.of = r
    <3>1. /\ IsRefusal(a)
          /\ place = "responding" \/ (place = "idle" /\ a.no_store = TRUE)
      BY <2>1 DEF InLog
    <3>2. answer'[l.of] = a
      BY <1>4, <2>1
    <3>3. IsRefusal(answer'[l.of])
      BY <3>1, <3>2
    <3>4. CASE place = "responding"
      BY <1>4, <2>1, <3>3, <3>4
    <3>5. CASE place = "idle" /\ a.no_store = TRUE
      BY <1>2, <1>4, <2>1, <3>2, <3>3, <3>5
    <3> QED BY <3>1, <3>4, <3>5
  <2>2. CASE l.of # r
    <3>1. l \in lines /\ l.of \in Request /\ answer'[l.of] = answer[l.of]
      BY <1>1, <1>4, <2>2 DEF OwnLines, InLog
    <3>2. IsRefusal(answer'[l.of])
      BY <1>1, <3>1 DEF FailedLogins
    <3>3. CASE answer[l.of].no_store = TRUE /\ \A u \in Task : serving[u] # l.of
      <4>1. \A u \in Task : serving'[u] # l.of
        BY <1>4, <2>2, <3>1, <3>3, NoneIsNothing
      <4> QED BY <3>1, <3>2, <3>3, <4>1
    <3>4. CASE \E u \in Task : serving[u] = l.of /\ at[u] = "responding"
      BY <1>4, <2>2, <3>2, <3>4
    <3> QED BY <1>1, <3>1, <3>3, <3>4 DEF FailedLogins
  <2> QED BY <2>1, <2>2
<1> QED BY <1>5, <1>6, <1>7, <1>8, <1>9, <1>10, <1>11 DEF IInv

(* A task whose request has no answer yet has logged no failed login.      *)
LEMMA NoFailureYet ==
    ASSUME IInv, NEW t \in Task, at[t] \notin {"idle", "responding"},
           NEW l \in lines, l.of = serving[t]
    PROVE  l.event # "login_failed"
BY Busy DEF IInv, FailedLogins

(* What stays as it is is written back.                                    *)
LEMMA Unchanged ==
    ASSUME IInv, NEW t \in Task
    PROVE  /\ at = [at EXCEPT ![t] = at[t]]
           /\ serving = [serving EXCEPT ![t] = serving[t]]
           /\ context = [context EXCEPT ![t] = context[t]]
           /\ child = [child EXCEPT ![t] = child[t]]
           /\ raised = [raised EXCEPT ![t] = raised[t]]
           /\ answer = [answer EXCEPT ![serving[t]] = answer[serving[t]]]
BY DEF IInv, Typed

(* The state of a task inside the middleware.                              *)
LEMMA InsideState ==
    ASSUME IInv, NEW t \in Task, at[t] \in Inside
    PROVE  /\ context[t] = ContextOf(serving[t])
           /\ child[t] \in ChildOf(serving[t])
           /\ child[t].request_id = IdOf(serving[t])
           /\ child[t].tenant_id \in {NONE, <<"tenant of", serving[t]>>}
           /\ at[t] # "responding" => answer[serving[t]] = NONE
           /\ at[t] = "responding" => answer[serving[t]] \in OwnReply(serving[t])
<1>1. OwnContext /\ OwnAnswers
  BY DEF IInv
<1>2. context[t] = ContextOf(serving[t]) /\ child[t] \in ChildOf(serving[t])
  BY <1>1 DEF OwnContext
<1>3. at[t] # "idle" /\ serving[t] \in Request
  BY Busy DEF Inside
<1> QED BY <1>1, <1>2, <1>3 DEF OwnAnswers, ChildOf

(* Naming the tenant of the token.                                         *)
LEMMA VerifyTokenKeeps ==
    ASSUME IInv, NEW t \in Task, VerifyToken(t)
    PROVE  IInv'
<1>0. PICK r : r = serving[t]
  OBVIOUS
<1> USE <1>0
<1> DEFINE k == [child[t] EXCEPT !.tenant_id = <<"tenant of", r>>]
<1>1. /\ at[t] = "endpoint" /\ child' = [child EXCEPT ![t] = k]
      /\ UNCHANGED <<at, serving, raised, context, asked, answer, lines>>
  BY DEF VerifyToken, Slot, IInv, Typed
<1>2. at[t] \in Inside /\ answer[r] = NONE /\ context[t] = ContextOf(r) /\ child[t] \in ChildOf(r)
  BY <1>1, InsideState DEF Inside
<1>3. k \in ChildOf(r)
  BY <1>2 DEF ChildOf
<1> HIDE DEF k
<1>4. Turn(t, r, "endpoint", context[t], k, raised[t], NONE)
  BY <1>1, <1>2, Unchanged DEF Turn
<1>5. InPlace(r, "endpoint", context[t], k, NONE)
  BY <1>2, <1>3 DEF InPlace, Inside
<1>6. InLog(r, "endpoint", NONE)
  BY <1>1, NoFailureYet DEF InLog
<1> QED BY <1>1, <1>2, <1>4, <1>5, <1>6, TaskKeeps

(* The outcome of an endpoint: an answer, or an exception for the handlers.*)
LEMMA EndpointKeeps ==
    ASSUME IInv, NEW t \in Task, Endpoint(t)
    PROVE  IInv'
<1>0. PICK r : r = serving[t]
  OBVIOUS
<1> USE <1>0
<1>1. /\ at[t] = "endpoint" /\ UNCHANGED <<serving, context, child, asked>>
  BY DEF Endpoint
<1>2. PICK o \in Outcomes :
         /\ Leave(t, o)
         /\ lines' = lines \cup {Line(t, "readiness_check_failed", child[t]) :
                        x \in {y \in {o} : y.kind = "checked" /\ y.status = 503}}
  BY DEF Endpoint, Slot
<1>3. /\ at[t] \in Inside /\ answer[r] = NONE /\ context[t] = ContextOf(r) /\ child[t] \in ChildOf(r)
      /\ child[t].request_id = IdOf(r) /\ child[t].tenant_id \in {NONE, <<"tenant of", r>>}
  BY <1>1, InsideState DEF Inside
<1> DEFINE place == IF o.kind \in {"returned", "checked"} THEN "responding" ELSE "handling"
           a     == CASE o.kind = "returned" -> Response(200, "none", NONE)
                      [] o.kind = "checked"  -> Response(o.status, "none", NONE)
                      [] OTHER -> NONE
<1>4. o.kind = "checked" => o.status \in {200, 503}
  BY DEF Outcomes
<1>5. place \in {"responding", "handling"} /\ (place = "responding" <=> o.kind \in {"returned", "checked"})
  OBVIOUS
<1>6. \/ place = "responding" /\ a \in Reply /\ a.header_id = NONE /\ a.body_id = NONE
      \/ place = "handling" /\ a = NONE
  BY <1>4 DEF Response, Reply, Status, Code, Id
<1>7. Turn(t, r, place, context[t], child[t], o, a)
  <2>1. /\ raised' = [raised EXCEPT ![t] = o] /\ at' = [at EXCEPT ![t] = place]
        /\ answer' = [answer EXCEPT ![r] = a]
    BY <1>2, <1>3 DEF Leave, Goto
  <2> HIDE DEF place, a
  <2> QED BY <1>1, <1>5, <2>1, Unchanged DEF Turn
<1> HIDE DEF place, a
<1>8. InPlace(r, place, context[t], child[t], a)
  BY <1>3, <1>5, <1>6 DEF InPlace, Inside, OwnReply, OwnIds
<1>9. InLog(r, place, a)
  <2>1. \A l \in lines' \ lines : /\ l.of = r /\ l.event = "readiness_check_failed"
                                  /\ l.request_id = child[t].request_id
                                  /\ l.tenant_id = child[t].tenant_id
    BY <1>2 DEF Line
  <2>2. \A l \in lines' : l.of = r => l.event # "login_failed"
    BY <1>1, <2>1, NoFailureYet
  <2>3. lines \subseteq lines'
    BY <1>2
  <2> QED BY <1>3, <1>5, <2>1, <2>2, <2>3 DEF InLog, OwnIds
<1>10. a \in Reply \cup {NONE} /\ place \in Inside \cup {"idle", "unhandled"}
  BY <1>5, <1>6 DEF Inside
<1> QED BY <1>1, <1>7, <1>8, <1>9, <1>10, TaskKeeps

(* An exception handler answers and logs under the ids of the child task.  *)
LEMMA HandleKeeps ==
    ASSUME IInv, NEW t \in Task, NEW kind, NEW event, NEW response \in OwnReply(serving[t]),
           "login_failed" \in event => IsRefusal(response),
           Handle(t, kind, event, response)
    PROVE  IInv'
<1>0. PICK r : r = serving[t]
  OBVIOUS
<1> USE <1>0
<1>1. /\ at[t] = "handling"
      /\ lines' = lines \cup {Line(t, e, child[t]) : e \in event}
      /\ answer' = [answer EXCEPT ![r] = response]
      /\ at' = [at EXCEPT ![t] = "responding"]
      /\ UNCHANGED <<serving, raised, context, child, asked>>
  BY DEF Handle, Slot, Goto
<1>2. /\ context[t] = ContextOf(r) /\ child[t] \in ChildOf(r)
      /\ child[t].request_id = IdOf(r) /\ child[t].tenant_id \in {NONE, <<"tenant of", r>>}
  BY <1>1, InsideState DEF Inside
<1>3. Turn(t, r, "responding", context[t], child[t], raised[t], response)
  BY <1>1, Unchanged DEF Turn
<1>4. InPlace(r, "responding", context[t], child[t], response)
  BY <1>2 DEF InPlace, Inside
<1>5. InLog(r, "responding", response)
  <2>1. \A l \in lines' \ lines : /\ l.of = r /\ l.event \in event
                                  /\ l.request_id = child[t].request_id
                                  /\ l.tenant_id = child[t].tenant_id
    BY <1>1 DEF Line
  <2>2. \A l \in lines' : l.of = r /\ l.event = "login_failed" => "login_failed" \in event
    BY <1>1, <2>1, NoFailureYet
  <2>3. lines \subseteq lines'
    BY <1>1
  <2> QED BY <1>2, <2>1, <2>2, <2>3 DEF InLog, OwnIds
<1>6. response \in Reply
  BY DEF OwnReply
<1> QED BY <1>1, <1>3, <1>4, <1>5, <1>6, TaskKeeps DEF Inside

(* The handlers that answer.                                               *)
LEMMA HandlersKeep ==
    ASSUME IInv, NEW t \in Task,
           \/ InvalidCredentials(t) \/ RateLimited(t) \/ AppError(t)
           \/ Validation(t) \/ NotServed(t)
    PROVE  IInv'
<1>1. at[t] = "handling"
  BY DEF InvalidCredentials, RateLimited, AppError, Validation, NotServed, Handle
<1>2. /\ BodyId(t) \in OwnIds(serving[t]) /\ NONE \in OwnIds(serving[t])
      /\ OwnIds(serving[t]) \subseteq Id
  <2>1. IdOf(serving[t]) \in Id
    BY <1>1, Busy, IdsAreIds
  <2> QED BY <1>1, <2>1, InsideState DEF BodyId, Slot, OwnIds, Inside, Id
<1>3. CASE InvalidCredentials(t)
  <2> DEFINE response == Response(401, "invalid_credentials", BodyId(t))
  <2>1. IsRefusal(response) /\ response \in OwnReply(serving[t])
    BY <1>2 DEF Response, OwnReply, Reply, Status, Code, IsRefusal
  <2>2. Handle(t, "InvalidCredentials", {"login_failed"}, response)
    BY <1>3 DEF InvalidCredentials
  <2> HIDE DEF response
  <2> QED BY <2>1, <2>2, HandleKeeps
<1>4. CASE RateLimited(t)
  <2> DEFINE response == Response(429, "rate_limited", BodyId(t))
  <2>1. response \in OwnReply(serving[t])
    BY <1>2 DEF Response, OwnReply, Reply, Status, Code
  <2>2. Handle(t, "RateLimited", {}, response)
    BY <1>4 DEF RateLimited
  <2> HIDE DEF response
  <2> QED BY <2>1, <2>2, HandleKeeps
<1>5. CASE AppError(t)
  <2> DEFINE response == Response(400, "app_error", BodyId(t))
  <2>1. response \in OwnReply(serving[t])
    BY <1>2 DEF Response, OwnReply, Reply, Status, Code
  <2>2. Handle(t, "AppError", {"app_error"}, response)
    BY <1>5 DEF AppError
  <2> HIDE DEF response
  <2> QED BY <2>1, <2>2, HandleKeeps
<1>6. CASE Validation(t)
  <2> DEFINE private == Response(422, "validation_failed", BodyId(t))
             public  == [Response(422, "detail", NONE) EXCEPT !.echo = TRUE]
  <2>1. private \in OwnReply(serving[t]) /\ public \in OwnReply(serving[t])
    <3>1. private \in OwnReply(serving[t])
      BY <1>2 DEF Response, OwnReply, Reply, Status, Code
    <3>2. Response(422, "detail", NONE) \in OwnReply(serving[t])
      BY <1>2 DEF Response, OwnReply, Reply, Status, Code
    <3>3. \A a \in OwnReply(serving[t]) : [a EXCEPT !.echo = TRUE] \in OwnReply(serving[t])
      BY DEF OwnReply, Reply
    <3> QED BY <3>1, <3>2, <3>3
  <2>2. \/ Handle(t, "RequestValidationError", {"request_validation_failed"}, private)
        \/ Handle(t, "RequestValidationError", {"request_validation_failed"}, public)
    <3>1. CASE asked[serving[t]].path = "auth"
      BY <1>6, <3>1 DEF Validation
    <3>2. CASE asked[serving[t]].path # "auth"
      BY <1>6, <3>2 DEF Validation
    <3> QED BY <3>1, <3>2
  <2> HIDE DEF private, public
  <2> QED BY <2>1, <2>2, HandleKeeps
<1>7. CASE NotServed(t)
  <2> DEFINE response == Response(404, "detail", NONE)
  <2>1. response \in OwnReply(serving[t])
    BY <1>2 DEF Response, OwnReply, Reply, Status, Code
  <2>2. Handle(t, "HTTPException", {}, response)
    BY <1>7 DEF NotServed
  <2> HIDE DEF response
  <2> QED BY <2>1, <2>2, HandleKeeps
<1> QED BY <1>3, <1>4, <1>5, <1>6, <1>7

(* An exception no handler turns into a response.                          *)
LEMMA EscapeKeeps ==
    ASSUME IInv, NEW t \in Task, DetailClash(t) \/ Escape(t)
    PROVE  IInv'
<1>0. PICK r : r = serving[t]
  OBVIOUS
<1> USE <1>0
<1>1. /\ at[t] = "handling" /\ at' = [at EXCEPT ![t] = "failing"]
      /\ UNCHANGED <<serving, raised, context, child, asked, answer, lines>>
  BY DEF DetailClash, Escape, Goto
<1>2. answer[r] = NONE /\ context[t] = ContextOf(r) /\ child[t] \in ChildOf(r)
  BY <1>1, InsideState DEF Inside
<1>3. Turn(t, r, "failing", context[t], child[t], raised[t], NONE)
  BY <1>1, <1>2, Unchanged DEF Turn
<1>4. InPlace(r, "failing", context[t], child[t], NONE)
  BY <1>2 DEF InPlace, Inside
<1>5. InLog(r, "failing", NONE)
  BY <1>1, NoFailureYet DEF InLog
<1> QED BY <1>1, <1>3, <1>4, <1>5, TaskKeeps DEF Inside

(* The response leaves with its id, its line is written, the context goes. *)
LEMMA RespondKeeps ==
    ASSUME IInv, NEW t \in Task, Respond(t)
    PROVE  IInv'
<1>0. PICK r : r = serving[t]
  OBVIOUS
<1> USE <1>0
<1> DEFINE a == [answer[r] EXCEPT !.header_id = IdOf(r), !.no_store = TRUE]
           line == Line(t, "request", [NoContext EXCEPT !.request_id = IdOf(r)])
<1>1. /\ at[t] = "responding"
      /\ context' = [context EXCEPT ![t] = NoContext]
      /\ answer' = [answer EXCEPT ![r].header_id = IdOf(r), ![r].no_store = TRUE]
      /\ lines' = lines \cup IF asked[r].path = "quiet" THEN {} ELSE {line}
      /\ at' = [at EXCEPT ![t] = "idle"]
      /\ serving' = [serving EXCEPT ![t] = NONE]
      /\ raised' = [raised EXCEPT ![t] = NONE]
      /\ child' = [child EXCEPT ![t] = NoContext]
      /\ asked' = asked
  BY DEF Respond, Cleared, Finish, Slot, Goto
<1>2. r \in Request /\ asked[r] \in Asks /\ IdOf(r) \in Id
  BY <1>1, Busy, IdsAreIds
<1>3. answer[r] \in Reply /\ answer[r].body_id \in OwnIds(r)
  BY <1>1, InsideState DEF Inside, OwnReply
<1>4. /\ a \in Reply /\ a.header_id = IdOf(r) /\ a.no_store = TRUE
      /\ a.body_id = answer[r].body_id /\ a.status = answer[r].status
      /\ a.code = answer[r].code /\ a.echo = answer[r].echo
  BY <1>2, <1>3 DEF Reply
<1>5. line.of = r /\ line.event = "request" /\ line.request_id = IdOf(r) /\ line.tenant_id = NONE
  BY DEF Line, NoContext
<1>6. answer' = [answer EXCEPT ![r] = a]
  BY <1>1, <1>2 DEF IInv, Typed
<1> HIDE DEF a, line
<1>7. Turn(t, r, "idle", NoContext, NoContext, NONE, a)
  BY <1>1, <1>6 DEF Turn
<1>8. InPlace(r, "idle", NoContext, NoContext, a)
  <2>1. a \in OwnReply(r)
    BY <1>3, <1>4 DEF OwnReply, OwnIds
  <2> QED BY <2>1 DEF InPlace, Inside
<1>9. InLog(r, "idle", a)
  <2>1. asked[r].path # "quiet" => Logged(r)'
    <3> SUFFICES ASSUME asked[r].path # "quiet" PROVE Logged(r)'
      OBVIOUS
    <3>1. line \in lines' /\ IdOf(r)' = IdOf(r)
      BY <1>1 DEF IdOf
    <3> QED BY <1>5, <3>1 DEF Logged
  <2>2. ASSUME NEW l \in lines', l.of = r, l.event = "login_failed"
        PROVE  IsRefusal(a)
    <3>1. l \in lines
      BY <1>1, <1>5, <2>2
    <3>2. IsRefusal(answer[r])
      BY <2>2, <3>1 DEF IInv, FailedLogins
    <3> QED BY <1>4, <3>2 DEF IsRefusal
  <2> QED BY <1>1, <1>4, <1>5, <2>1, <2>2 DEF InLog, OwnIds
<1> QED BY <1>1, <1>4, <1>7, <1>8, <1>9, TaskKeeps

(* The failure is logged under the request's id before the context goes.   *)
LEMMA DispatchFailsKeeps ==
    ASSUME IInv, NEW t \in Task, DispatchFails(t)
    PROVE  IInv'
<1>0. PICK r : r = serving[t]
  OBVIOUS
<1> USE <1>0
<1> DEFINE line == Line(t, "request_failed", context[t])
<1>1. /\ at[t] = "failing" /\ lines' = lines \cup {line}
      /\ context' = [context EXCEPT ![t] = NoContext]
      /\ at' = [at EXCEPT ![t] = "unhandled"]
      /\ UNCHANGED <<serving, raised, child, asked, answer>>
  BY DEF DispatchFails, Cleared, Slot, Goto
<1>2. answer[r] = NONE /\ context[t] = ContextOf(r)
  BY <1>1, InsideState DEF Inside
<1>3. line.of = r /\ line.event = "request_failed" /\ line.request_id = IdOf(r) /\ line.tenant_id = NONE
  BY <1>2 DEF Line, ContextOf
<1> HIDE DEF line
<1>4. Turn(t, r, "unhandled", NoContext, child[t], raised[t], NONE)
  BY <1>1, <1>2, Unchanged DEF Turn
<1>5. InPlace(r, "unhandled", NoContext, child[t], NONE)
  BY DEF InPlace, Inside
<1>6. InLog(r, "unhandled", NONE)
  <2>1. Logged(r)'
    <3>1. line \in lines' /\ IdOf(r)' = IdOf(r)
      BY <1>1 DEF IdOf
    <3> QED BY <1>3, <3>1 DEF Logged
  <2>2. \A l \in lines' : l.of = r => l.event # "login_failed"
    BY <1>1, <1>3, NoFailureYet
  <2> QED BY <1>1, <1>3, <2>1, <2>2 DEF InLog, OwnIds
<1> QED BY <1>1, <1>4, <1>5, <1>6, TaskKeeps

(* The error middleware answers, without ids.                              *)
LEMMA UnhandledKeeps ==
    ASSUME IInv, NEW t \in Task, Unhandled(t)
    PROVE  IInv'
<1>0. PICK r : r = serving[t]
  OBVIOUS
<1> USE <1>0
<1> DEFINE line == Line(t, "unhandled_exception", context[t])
           a == Response(500, "internal_error", context[t].request_id)
<1>1. /\ at[t] = "unhandled" /\ lines' = lines \cup {line}
      /\ answer' = [answer EXCEPT ![r] = a]
      /\ at' = [at EXCEPT ![t] = "idle"]
      /\ serving' = [serving EXCEPT ![t] = NONE]
      /\ raised' = [raised EXCEPT ![t] = NONE]
      /\ child' = [child EXCEPT ![t] = NoContext]
      /\ context' = context /\ asked' = asked
  BY DEF Unhandled, Finish, Slot, Goto
<1>2. context[t] = NoContext
  BY <1>1 DEF IInv, OwnContext, Inside
<1>3. line.of = r /\ line.event = "unhandled_exception" /\ line.request_id = NONE /\ line.tenant_id = NONE
  BY <1>2 DEF Line, NoContext
<1>4. a \in Reply /\ a.header_id = NONE /\ a.body_id = NONE
  BY <1>2 DEF Response, Reply, Status, Code, Id, NoContext
<1> HIDE DEF line, a
<1>5. Turn(t, r, "idle", NoContext, NoContext, NONE, a)
  BY <1>1, <1>2, Unchanged DEF Turn
<1>6. InPlace(r, "idle", NoContext, NoContext, a)
  BY <1>4 DEF InPlace, Inside, OwnReply, OwnIds
<1>7. InLog(r, "idle", a)
  <2>1. Logged(r)
    BY <1>1 DEF IInv, LoggedInTime
  <2>2. Logged(r)'
    BY <1>1, <2>1 DEF Logged, IdOf
  <2>3. \A l \in lines' : l.of = r => l.event # "login_failed"
    BY <1>1, <1>3, NoFailureYet
  <2> QED BY <1>1, <1>3, <2>2, <2>3 DEF InLog, OwnIds
<1> QED BY <1>1, <1>4, <1>5, <1>6, <1>7, TaskKeeps

(* A client that goes away leaves no answer and no context.                *)
LEMMA DisconnectKeeps ==
    ASSUME IInv, NEW t \in Task, Disconnect(t)
    PROVE  IInv'
<1>0. PICK r : r = serving[t]
  OBVIOUS
<1> USE <1>0
<1>1. /\ at[t] \in {"endpoint", "handling"}
      /\ context' = [context EXCEPT ![t] = NoContext]
      /\ at' = [at EXCEPT ![t] = "idle"]
      /\ serving' = [serving EXCEPT ![t] = NONE]
      /\ raised' = [raised EXCEPT ![t] = NONE]
      /\ child' = [child EXCEPT ![t] = NoContext]
      /\ UNCHANGED <<asked, answer, lines>>
  BY DEF Disconnect, Cleared, Finish, Slot, Goto
<1>2. answer[r] = NONE
  BY <1>1, InsideState DEF Inside
<1>3. Turn(t, r, "idle", NoContext, NoContext, NONE, NONE)
  BY <1>1, <1>2, Unchanged DEF Turn
<1>4. InPlace(r, "idle", NoContext, NoContext, NONE)
  BY DEF InPlace, Inside
<1>5. InLog(r, "idle", NONE)
  BY <1>1, NoFailureYet DEF InLog
<1> QED BY <1>1, <1>3, <1>4, <1>5, TaskKeeps

-----------------------------------------------------------------------------
(* Every step keeps the invariant.                                         *)
LEMMA StepIInv == IInv /\ [Next]_vars => IInv'
<1> SUFFICES ASSUME IInv, [Next]_vars PROVE IInv'
  OBVIOUS
<1>1. CASE UNCHANGED vars
  <2>1. Typed' /\ Serving' /\ OwnLines'
    BY <1>1 DEF vars, IInv, Typed, Serving, OwnLines, OwnIds, IdOf
  <2>2. OwnContext'
    BY <1>1 DEF vars, IInv, OwnContext, ContextOf, ChildOf, IdOf
  <2>3. OwnAnswers'
    BY <1>1 DEF vars, IInv, OwnAnswers, OwnReply, OwnIds, IdOf
  <2>4. LoggedInTime'
    BY <1>1 DEF vars, IInv, LoggedInTime, Logged, SentIsLogged, Sent, IdOf
  <2>5. FailedLogins'
    BY <1>1 DEF vars, IInv, FailedLogins
  <2> QED BY <2>1, <2>2, <2>3, <2>4, <2>5 DEF IInv
<1>2. CASE \E t \in Task : \/ \E r \in Request : Receive(t, r)
                           \/ VerifyToken(t) \/ Serve(t) \/ Disconnect(t)
  <2>1. PICK t \in Task : \/ \E r \in Request : Receive(t, r)
                          \/ VerifyToken(t) \/ Serve(t) \/ Disconnect(t)
    BY <1>2
  <2>2. CASE \E r \in Request : Receive(t, r)
    BY <2>2, ReceiveKeeps
  <2>3. CASE VerifyToken(t)
    BY <2>3, VerifyTokenKeeps
  <2>4. CASE Endpoint(t)
    BY <2>4, EndpointKeeps
  <2>5. CASE Handlers(t)
    BY <2>5, HandlersKeep, EscapeKeeps DEF Handlers
  <2>6. CASE Respond(t)
    BY <2>6, RespondKeeps
  <2>7. CASE DispatchFails(t)
    BY <2>7, DispatchFailsKeeps
  <2>8. CASE Unhandled(t)
    BY <2>8, UnhandledKeeps
  <2>9. CASE Disconnect(t)
    BY <2>9, DisconnectKeeps
  <2> QED BY <2>1, <2>2, <2>3, <2>4, <2>5, <2>6, <2>7, <2>8, <2>9 DEF Serve
<1> QED BY <1>1, <1>2 DEF Next, AllServed

(* No line and no response names another request or its tenant, however    *)
(* many requests overlap and whatever ended the one before on the task.    *)
THEOREM IdsAreOnesOwn == Spec => []NothingForeign
<1>1. IInv => NothingForeign
  BY DEF IInv, NothingForeign, OwnLines, OwnAnswers, OwnReply, Sent
<1> QED BY <1>1, InitIInv, StepIInv, PTL DEF Spec

(* Whoever got a response can be found in the log under the id of the      *)
(* request, whichever way the request ended.                               *)
THEOREM EveryAnswerIsLogged == Spec => []SentIsLogged
<1>1. IInv => SentIsLogged
  BY DEF IInv, LoggedInTime
<1> QED BY <1>1, InitIInv, StepIInv, PTL DEF Spec

(* Failed logins differ in nothing a client can see but the ids, whatever  *)
(* the reasons and whatever else is going on.                              *)
THEOREM FailedLoginsLookAlike == Spec => []FailedLoginsAreAlike
<1>1. IInv => FailedLoginsAreAlike
  <2> SUFFICES ASSUME IInv, NEW r \in Sent, NEW o \in Sent,
                      \A x \in {r, o} : \E l \in lines : l.of = x /\ l.event = "login_failed"
               PROVE  [answer[r] EXCEPT !.body_id = NONE, !.header_id = NONE]
                        = [answer[o] EXCEPT !.body_id = NONE, !.header_id = NONE]
    BY DEF FailedLoginsAreAlike
  <2>1. \A x \in {r, o} : /\ answer[x].status = 401 /\ answer[x].code = "invalid_credentials"
                          /\ answer[x].echo = FALSE /\ answer[x].no_store = TRUE
    BY DEF IInv, FailedLogins, IsRefusal, Sent
  <2>2. answer[r] \in Reply /\ answer[o] \in Reply
    BY DEF IInv, Typed, Sent
  <2>3. \A a, b \in Reply : a.status = b.status /\ a.code = b.code /\ a.echo = b.echo
           /\ a.no_store = b.no_store
              => [a EXCEPT !.body_id = NONE, !.header_id = NONE]
                   = [b EXCEPT !.body_id = NONE, !.header_id = NONE]
    BY DEF Reply
  <2>4. answer[r].status = answer[o].status /\ answer[r].code = answer[o].code
    BY <2>1
  <2>5. answer[r].echo = answer[o].echo /\ answer[r].no_store = answer[o].no_store
    BY <2>1
  <2> QED BY <2>2, <2>3, <2>4, <2>5
<1> QED BY <1>1, InitIInv, StepIInv, PTL DEF Spec
=============================================================================
