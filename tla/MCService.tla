----------------------------- MODULE MCService ------------------------------
(***************************************************************************)
(* Processes with small pools of every kind, and environments that a       *)
(* validator accepts only in part.                                         *)
(***************************************************************************)
EXTENDS Service

Dev(pool_size, overflow_max) ==
    [Defaults EXCEPT !.app_env = "dev", !.db_pool_size = pool_size, !.db_max_overflow = overflow_max]

Prod ==
    [Defaults EXCEPT !.app_env = "prod", !.db_pool_size = 1, !.db_max_overflow = 0,
        !.database_url = Deployed, !.cors_origins = "https://app",
        !.issuer = [scheme |-> "https", host |-> "public", slashes |-> 1],
        !.signer_backend = "kms", !.kms_key_id = "key", !.cookie_secure = TRUE]

(* A queue of one or two and one beyond or none; an unbounded queue, pool  *)
(* or both; limits nobody waits for, and one that lets nobody in.          *)
MCEnvironments ==
    {Dev(1, 1), Dev(2, 0), Dev(0, 1), Dev(1, -1), Dev(3, -2), Dev(-1, 2), Dev(-1, 1), Prod,
     [Dev(1, 0) EXCEPT !.signer_backend = "kms", !.kms_key_id = EMPTY],
     [Dev(1, 0) EXCEPT !.test_database_url = EMPTY]}
    \cup {[Prod EXCEPT ![f] = Defaults[f]] :
            f \in {"issuer", "signer_backend", "kms_key_id", "cookie_secure"}}
    \cup {[Prod EXCEPT !.issuer.host = "local"], [Prod EXCEPT !.dev_seed_password = "well_known"]}

(* A deployment that left one value of .env.example in place.              *)
ExampleEnvironments ==
    {[Prod EXCEPT !.database_url = Example],
     [Prod EXCEPT !.cors_origins = Defaults.cors_origins],
     [Prod EXCEPT !.dev_seed_password = "well_known"],
     [Dev(1, 0) EXCEPT !.dev_seed_password = "well_known"]}
=============================================================================
