---------------------------- MODULE LogPipeline -----------------------------
(***************************************************************************)
(* How one log call becomes a line: the processors configure_logging       *)
(* (app/core/logging.py) puts in a row, and the redaction among them       *)
(* (app/core/redaction.py).                                                *)
(*                                                                         *)
(* A text is a sequence of words (letters, digits and the like: one alone  *)
(* is too short for a scheme's token, two in a row are enough, dots        *)
(* aside), " " for white space and ".".  What a pattern begins with stands *)
(* at the start or after white space.                                      *)
(*                                                                         *)
(* An event is a tree of dicts and lists with texts and other objects as   *)
(* leaves.  It is written as a function from the path of each leaf (the    *)
(* event's own key, then the keys and indices below it) to that leaf.      *)
(***************************************************************************)
EXTENDS Integers, Sequences

CONSTANTS
    MAX_VALUE_CHARS,    \* in words
    Events,             \* what is logged
    Traceback,          \* texts of the exceptions that log.exception meets
    Ids                 \* values of the correlation ids

(* The credentials of test_redaction.py.                                   *)
Bearer   == <<"bearer", " ", "abcdef", "123456">>
Basic    == <<"basic", " ", "dXNlcj", "pwYXNz">>
Jwt      == <<"eyJhb", "GciOi", ".", "eyJzdW", ".", "c2lnbm">>
Refresh  == <<"rt1_", "abc123", "def456">>
Password == <<"hunter2">>

(* The words that give a credential away.                                  *)
Telling == {"123456", "pwYXNz", "eyJzdW", "c2lnbm", "def456", "hunter2"}

(* An object that is no text is rendered by its repr, of these words.      *)
Text(words) == [is |-> "str", of |-> words]
Object(words) == [is |-> "object", of |-> words]
None == Object(<<>>)

Openers == {"bearer", "basic", "eyJhb", "rt1_"}

IsSequence(s) == s \in Seq({s[i] : i \in DOMAIN s})
IsLeaf(v) ==
    /\ IsSequence(v.of)
    /\ v = Text(v.of) \/ v = Object(v.of)
    /\ \A w \in DOMAIN v.of : v.of[w] \in Openers => w = 1 \/ v.of[w - 1] = " "
IsTree(e) == \A p \in DOMAIN e : IsSequence(p) /\ p # <<>> /\ IsLeaf(e[p])

ASSUME LogCallsAreTrees ==
    /\ MAX_VALUE_CHARS \in Nat
    /\ \A e \in Events : IsTree(e)
    /\ \A v \in Traceback \cup Ids : IsLeaf(v) /\ v.is = "str"

Mark == "[REDACTED]"
REDACTED == Text(<<Mark>>)

SensitiveKeys == {"new_password", "X-CSRF-Token", "code"}
is_sensitive_key(key) == key \in SensitiveKeys

(* Words a to b are of a token: no white space, no mark, nothing else that *)
(* stops it.                                                               *)
Token(words, stops, a, b) ==
    a <= b /\ \A x \in a..b : x \in DOMAIN words /\ words[x] \notin stops \cup {" ", Mark}

(* The token that begins at a is eight characters long, or longer.         *)
LongToken(words, stops, a) ==
    \E b, c \in DOMAIN words :
        /\ a <= b /\ b < c /\ words[b] # "." /\ words[c] # "."
        /\ Token(words, stops, a, c)

(* What the patterns match, but for the group that is kept.  A bearer      *)
(* token may have dots and an underscore, a basic one neither.             *)
SchemeToken(scheme, stops, words) ==
    {w \in DOMAIN words : \E a \in DOMAIN words :
        /\ a > 2 /\ words[a - 2] = scheme /\ words[a - 1] = " "
        /\ LongToken(words, stops, a) /\ Token(words, stops, a, w)}

_BEARER(words) == SchemeToken("bearer", {}, words)
_BASIC(words)  == SchemeToken("basic", {".", "rt1_"}, words)

_JWT(words) ==
    {w \in DOMAIN words : \E a \in DOMAIN words :
        /\ \A n \in DOMAIN Jwt : a + n - 1 \in DOMAIN words /\ words[a + n - 1] = Jwt[n]
        /\ w \in a..(a + 5) \/ (w > a + 5 /\ Token(words, {"."}, a + 5, w))}

_REFRESH(words) ==
    {w \in DOMAIN words : \E a \in DOMAIN words :
        words[a] = "rt1_" /\ LongToken(words, {}, a + 1) /\ Token(words, {}, a, w)}

(* (The marks are as many as the words they stand for.)                    *)
sub(matched, words) == [w \in DOMAIN words |-> IF w \in matched THEN Mark ELSE words[w]]

Cut(words) == [w \in {x \in DOMAIN words : x <= MAX_VALUE_CHARS} |-> words[w]]

Patterns(words) ==
    LET bearer == sub(_BEARER(words), words)
        basic  == sub(_BASIC(bearer), bearer)
        jwt    == sub(_JWT(basic), basic)
    IN  sub(_REFRESH(jwt), jwt)

scrub_text_CutsFirst(words) == Patterns(Cut(words))
scrub_text(words) == Cut(Patterns(words))

(* scrub goes no further down the path than its n-th key when that is      *)
(* sensitive or the value there too deep ("first" is the depth it begins   *)
(* with), and replaces all that is below.                                  *)
StopsAt(path, n, first) == is_sensitive_key(path[n]) \/ first + n - 1 > 6

Reaches(path, first) == \A n \in 1..(Len(path) - 1) : ~StopsAt(path, n, first)

scrub(v) == IF v.is = "str" THEN Text(scrub_text(v.of)) ELSE v

Scrubbed(e, first) ==
    LET heads == UNION {{SubSeq(p, 1, n) : n \in 1..Len(p)} : p \in DOMAIN e}
    IN  [p \in {q \in heads : Reaches(q, first) /\ (StopsAt(q, Len(q), first) \/ q \in DOMAIN e)} |->
           IF StopsAt(p, Len(p), first) THEN REDACTED ELSE scrub(e[p])]

redact_processor_Counts(e) == Scrubbed(e, 1)
redact_processor(e) == Scrubbed(e, 0)

-----------------------------------------------------------------------------
VARIABLES
    at,         \* the processor that is next
    event,      \* event_dict
    context,    \* the correlation ids of the task that logs, None if not set
    logged,     \* what the caller gave
    exc         \* the exception being handled, if any

vars == <<at, event, context, logged, exc>>

IdKeys == {"request_id", "tenant_id", "actor_id"}

(* Nothing binds structlog's own context variables, so merge_contextvars   *)
(* adds nothing; StackInfoRenderer is for a stack_info nobody passes.      *)
Processors ==
    <<"add_log_level", "TimeStamper", "_inject_context", "redact_processor", "format_exc_info">>

(* event_dict.update: the values under these keys are new.                 *)
Updated(e, items) ==
    [p \in {q \in DOMAIN e : q[1] \notin DOMAIN items} \cup {<<k>> : k \in DOMAIN items} |->
       IF p[1] \in DOMAIN items THEN items[p[1]] ELSE e[p]]

(* log.exception sets exc_info.                                            *)
Init ==
    /\ at = 1
    /\ logged \in Events
    /\ exc \in Traceback \cup {None}
    /\ event = IF exc = None THEN logged ELSE Updated(logged, [exc_info |-> None])
    /\ context \in [IdKeys -> Ids \cup {None}]

With(items) == event' = Updated(event, items)

(* An id that is empty is as good as none.                                 *)
Given == {k \in IdKeys : context[k].of # <<>>}

_inject_context_KeepsCallers ==
    With([k \in {i \in Given : \A p \in DOMAIN event : p[1] # i} |-> context[k]])
_inject_context == With([k \in Given |-> context[k]])

(* The traceback with the exception's message becomes a field of its own.  *)
format_exc_info ==
    IF <<"exc_info">> \in DOMAIN event
    THEN event' = [p \in {q \in DOMAIN event : q[1] # "exc_info" /\ q[1] # "exception"} \cup {<<"exception">>} |->
                     IF p = <<"exception">> THEN exc ELSE event[p]]
    ELSE UNCHANGED event

Run(name) ==
    /\ at <= Len(Processors) /\ Processors[at] = name
    /\ at' = at + 1
    /\ UNCHANGED <<context, logged, exc>>

Rendered == at > Len(Processors)

Render == Rendered /\ UNCHANGED vars

Next ==
    \/ Run("add_log_level")    /\ With([level |-> Text(<<"info">>)])
    \/ Run("TimeStamper")      /\ With([timestamp |-> Text(<<"now">>)])
    \/ Run("_inject_context")  /\ _inject_context
    \/ Run("redact_processor") /\ event' = redact_processor(event)
    \/ Run("format_exc_info")  /\ format_exc_info
    \/ Render

Spec == Init /\ [][Next]_vars

-----------------------------------------------------------------------------
Words(v) == {v.of[w] : w \in DOMAIN v.of}

(* A value the caller or the context gave for this field of the line.      *)
Sources(p) ==
    {logged[q] : q \in {p} \cap DOMAIN logged} \cup {context[k] : k \in {p[1]} \cap IdKeys}

(* _BASIC takes a token only as far as its first dot, and what it leaves   *)
(* no longer has the shape of a JWT.                                       *)
BehindBasic(words, w) ==
    \E a, d \in DOMAIN words :
        /\ 2 < a /\ a < d /\ d < w
        /\ words[a - 2] = "basic" /\ words[a - 1] = " " /\ words[d] = "."
        /\ \A x \in a..w : words[x] # " "

(* Two gaps are known: a value that is no text is passed on as it is, and  *)
(* a dotted token after "basic" loses only its first part.  Whatever else  *)
(* a caller logs, no part of a credential is on the line, however deep it  *)
(* is nested, wherever the value is cut, and with several in one text.     *)
OnlyKnownGapsShow ==
    Rendered => \A p \in DOMAIN event : p[1] # "exception" =>
        \A w \in DOMAIN event[p].of : event[p].of[w] \in Telling =>
            \E v \in Sources(p) : v.is = "object" \/ BehindBasic(v.of, w)

(* What a caller logs shows no part of a credential (logging.py: "a        *)
(* credential cannot reach a log line by someone forgetting to strip it"). *)
FieldsShowNoCredential ==
    Rendered => \A p \in DOMAIN event : p[1] # "exception" => Words(event[p]) \cap Telling = {}

(* The keys that processors set.                                           *)
OwnKeys == IdKeys \cup {"level", "timestamp", "exc_info", "exception"}

(* Not redacted as a whole, and nothing in it a pattern matches.           *)
Open(path) == \A n \in 1..Len(path) : ~StopsAt(path, n, 0)
Ordinary(words) == _BEARER(words) \cup _BASIC(words) \cup _JWT(words) \cup _REFRESH(words) = {}

(* "Ordinary diagnostic content must survive" (test_redaction.py): under   *)
(* ordinary keys, at every depth up to the cap, a text no pattern matches  *)
(* comes out as it went in as far as the cut, and any other value whole.   *)
(* (Not every harmless text is one: "basic authentication" is matched.)    *)
DiagnosticsSurvive ==
    Rendered => \A p \in DOMAIN logged :
        p[1] \notin OwnKeys /\ Open(p) => LET v == logged[p] IN
            /\ v.is = "object" => p \in DOMAIN event /\ event[p] = v
            /\ v.is = "str" /\ Ordinary(v.of) => p \in DOMAIN event /\ event[p] = Text(Cut(v.of))

(* A line is found by the ids of the task that wrote it, not by what a     *)
(* caller passed under the same name (logging.py: "Every line carries      *)
(* request_id").                                                           *)
LinesCarryTheirIds ==
    Rendered => \A k \in Given :
        /\ {p \in DOMAIN event : p[1] = k} = {<<k>>}
        /\ event[<<k>>] = scrub(context[k])

(* No credential reaches a line at all, the text of an exception included  *)
(* (logging.py: "Redaction goes LAST before rendering, so it also covers   *)
(* fields added by the processors above").                                 *)
LinesShowNoCredential ==
    Rendered => \A p \in DOMAIN event : Words(event[p]) \cap Telling = {}

-----------------------------------------------------------------------------
(* What the scrubber can know: each part of a credential is in what one of *)
(* the patterns, alone, would match.                                       *)
Shaped(words) ==
    \A w \in DOMAIN words : words[w] \in Telling =>
        w \in _BEARER(words) \cup _BASIC(words) \cup _JWT(words) \cup _REFRESH(words)

(* The others are logged under a sensitive key, or too deep.               *)
CredentialsAreKnown ==
    /\ \A e \in Events : \A p \in DOMAIN e : Open(p) /\ e[p].is = "str" => Shaped(e[p].of)
    /\ \A v \in Ids : Shaped(v.of)
=============================================================================
