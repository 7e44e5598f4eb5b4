--------------------------- MODULE MCLogPipeline ----------------------------
(***************************************************************************)
(* Texts of up to three pieces, some longer than the cut, alone and nested *)
(* in dicts and lists just above and below the depth cap.                  *)
(***************************************************************************)
EXTENDS LogPipeline, TLC

Pieces ==
    {Bearer, Basic, Jwt, Refresh, <<"login">>, <<"bearer">>, <<"basic">>,
     <<"authen", "tication">>, <<"failed", ".">>}

Spaced(a, b) == a \o <<" ">> \o b

Texts ==
    Pieces \cup {Spaced(a, b) : a, b \in Pieces}
           \cup {Spaced(Spaced(a, b), Jwt) : a \in Pieces, b \in {Bearer, <<"login">>, <<"basic">>}}

(* A dict in a list in a dict, and so on.                                  *)
Ladder(n) == [i \in 1..n |-> IF i % 2 = 0 THEN "0" ELSE "user"]

Plain == Text(<<"login">>)

(* What is logged under a key: a text, or one below others, or an account. *)
Values(key) ==
    {(<<key>> \o Ladder(n)) :> v : n \in {0, 1, 2, 5, 6, 7},
                                   v \in {Plain, Text(Refresh), Text(Spaced(<<"login">>, Jwt))}}
    \cup {((<<key>> \o Ladder(n) \o <<"new_password">>) :> Text(Password))
            @@ ((<<key>> \o Ladder(n) \o <<"email">>) :> Plain) : n \in {0, 1, 2, 5, 6, 7}}

TextEvents ==
    {(<<"event">> :> Plain) @@ v :
        v \in UNION {Values(key) : key \in {"error", "new_password", "request_id"}}
                \cup {<<"error">> :> Text(t) : t \in Texts}
                \cup {<<"X-CSRF-Token">> :> Text(Password)}}

MCEvents == TextEvents \cup {(<<"event">> :> Plain) @@ (<<"user">> :> Object(Password))}

PlainEvents == {<<"event">> :> Plain}

MCTraceback == {Plain, Text(Spaced(<<"login">>, Refresh))}
MCIds == {Text(<<>>), Text(<<"id">>), Text(Jwt)}

(* They are of the kind LinesHideCredentials is about.                           *)
ASSUME CredentialsHaveAShape == CredentialsAreKnown
=============================================================================
