-------------------------- MODULE MigrationProofs ---------------------------
(***************************************************************************)
(* The migrations of Migration are whole, and none is refused but one that *)
(* was overtaken: for any number of runners and restarts.                  *)
(***************************************************************************)
EXTENDS Migration, SequenceTheorems, TLAPS

(* The types of the variables; a run that is not in its transaction has no *)
(* steps behind it and has read nothing.                                   *)
Typed ==
    /\ pc \in [Runner -> {"new", "running", "done"}]
    /\ command \in [Runner -> {"upgrade", "downgrade"}]
    /\ step \in [Runner -> Nat]
    /\ seen \in [Runner -> SUBSET {Log, Version}]
    /\ outcome \in [Runner -> {NULL, "ok", "failed", "crashed"}]

Told ==
    \A r \in Runner :
        /\ pc[r] = "done" <=> outcome[r] # NULL
        /\ pc[r] # "running" => step[r] = 0 /\ seen[r] = {}

(* The committed schema is one of a revision, and alembic's table, once    *)
(* made, stays.                                                            *)
Whole == db \in {{}, {Log}, HeadSchema \cup {Log}}

(* What a running migration read when it started, and how far it can be.   *)
Midway(r) ==
    /\ step[r] <= Len(Plan(r))
    /\ Version \in seen[r] => Log \in seen[r]
    /\ Log \in seen[r] => Log \in db /\ ~NothingToDo(r)

Underway == \A r \in Runner : pc[r] = "running" => Midway(r)

IInv == Typed /\ Told /\ Whole /\ Underway

-----------------------------------------------------------------------------
(* The fifteen tables, and where in the two orders each has its place.     *)
LEMMA TableNames ==
    Tables = {"tenants", "users", "role_templates", "roles", "scopes", "role_scopes",
              "user_roles", "refresh_tokens", "verification_tokens", "oauth_clients",
              "oauth_client_secrets", "signing_keys", "revocation_events",
              "throttle_buckets", "auth_audit_events"}
BY DEF Tables, Schema

Made(t) ==
    CASE t = "tenants" -> 1 [] t = "role_templates" -> 2 [] t = "scopes" -> 3
      [] t = "users" -> 4 [] t = "roles" -> 5 [] t = "role_scopes" -> 6
      [] t = "user_roles" -> 7 [] t = "refresh_tokens" -> 8 [] t = "oauth_clients" -> 9
      [] t = "oauth_client_secrets" -> 10 [] t = "signing_keys" -> 11
      [] t = "revocation_events" -> 12 [] t = "verification_tokens" -> 13
      [] t = "throttle_buckets" -> 14 [] OTHER -> 15

Dropped(t) ==
    CASE t = "auth_audit_events" -> 1 [] t = "throttle_buckets" -> 2
      [] t = "verification_tokens" -> 3 [] t = "revocation_events" -> 4
      [] t = "signing_keys" -> 5 [] t = "oauth_client_secrets" -> 6
      [] t = "oauth_clients" -> 7 [] t = "refresh_tokens" -> 8 [] t = "user_roles" -> 9
      [] t = "role_scopes" -> 10 [] t = "roles" -> 11 [] t = "users" -> 12
      [] t = "scopes" -> 13 [] t = "role_templates" -> 14 [] OTHER -> 15

(* Numbers up to fifteen, one by one.                                      *)
LEMMA UpToFifteen ==
    ASSUME NEW i \in 1..15
    PROVE  \/ i = 1 \/ i = 2 \/ i = 3 \/ i = 4 \/ i = 5 \/ i = 6 \/ i = 7 \/ i = 8
           \/ i = 9 \/ i = 10 \/ i = 11 \/ i = 12 \/ i = 13 \/ i = 14 \/ i = 15
OBVIOUS

(* Every place of the first order holds a table, whose place it is.        *)
LEMMA CreatedAt ==
    ASSUME NEW i \in 1..15
    PROVE  CreateOrder[i] \in Tables /\ Made(CreateOrder[i]) = i
BY UpToFifteen, TableNames DEF CreateOrder, Made

(* Every table has its place in the first order.                           *)
LEMMA EveryTableIsMade ==
    ASSUME NEW t \in Tables
    PROVE  Made(t) \in 1..15 /\ CreateOrder[Made(t)] = t
BY TableNames DEF CreateOrder, Made

(* Every place of the second order holds a table, whose place it is.       *)
LEMMA DroppedAt ==
    ASSUME NEW i \in 1..15
    PROVE  DropOrder[i] \in Tables /\ Dropped(DropOrder[i]) = i
BY UpToFifteen, TableNames DEF DropOrder, Dropped

(* Every table has its place in the second order.                          *)
LEMMA EveryTableIsDropped ==
    ASSUME NEW t \in Tables
    PROVE  Dropped(t) \in 1..15 /\ DropOrder[Dropped(t)] = t
BY TableNames DEF DropOrder, Dropped

(* Which tables refer to which.                                            *)
LEMMA ParentsOf ==
    ASSUME NEW t \in Tables, NEW p \in Parents(t)
    PROVE  \/ t \in {"users", "roles", "oauth_clients"} /\ p = "tenants"
           \/ t = "roles" /\ p = "role_templates"
           \/ t = "role_scopes" /\ p \in {"roles", "scopes"}
           \/ t = "user_roles" /\ p \in {"users", "roles"}
           \/ t \in {"refresh_tokens", "verification_tokens"} /\ p = "users"
           \/ t = "oauth_client_secrets" /\ p = "oauth_clients"
<1>1. \A on, parent, onDelete : FK(on, parent, onDelete).parent = parent
  BY DEF FK
<1>2. PICK f \in Foreign(t) : p = f.parent /\ p # t
  BY DEF Parents
<1>3. CASE t \in {"tenants", "role_templates", "scopes", "signing_keys",
                 "revocation_events", "throttle_buckets", "auth_audit_events"}
  BY <1>2, <1>3 DEF Foreign, Schema, tenants, role_templates, scopes, signing_keys,
     revocation_events, throttle_buckets, auth_audit_events
<1>4. CASE t = "users"
  BY <1>1, <1>2, <1>4 DEF Foreign, Schema, users
<1>5. CASE t = "roles"
  BY <1>1, <1>2, <1>5 DEF Foreign, Schema, roles
<1>6. CASE t = "role_scopes"
  BY <1>1, <1>2, <1>6 DEF Foreign, Schema, role_scopes, RoleScopeForeign
<1>7. CASE t = "user_roles"
  BY <1>1, <1>2, <1>7 DEF Foreign, Schema, user_roles, GrantForeign
<1>8. CASE t = "refresh_tokens"
  BY <1>1, <1>2, <1>8 DEF Foreign, Schema, refresh_tokens, RefreshTokenForeign
<1>9. CASE t = "verification_tokens"
  BY <1>1, <1>2, <1>9 DEF Foreign, Schema, verification_tokens
<1>10. CASE t = "oauth_clients"
  BY <1>1, <1>2, <1>10 DEF Foreign, Schema, oauth_clients, ClientForeign
<1>11. CASE t = "oauth_client_secrets"
  BY <1>1, <1>2, <1>11 DEF Foreign, Schema, oauth_client_secrets
<1> QED
  BY TableNames, <1>3, <1>4, <1>5, <1>6, <1>7, <1>8, <1>9, <1>10, <1>11

(* What a table refers to is made before it and dropped after it: the      *)
(* fact about the two orders of 0001_initial that everything here is for.  *)
LEMMA OrdersAreRight ==
    ASSUME NEW t \in Tables, NEW p \in Parents(t)
    PROVE  p \in Tables /\ Made(p) < Made(t) /\ Dropped(t) < Dropped(p)
BY ParentsOf, TableNames DEF Made, Dropped

-----------------------------------------------------------------------------
(* The facts, and the steps a migration can consist of.                    *)
Fact == {Table(t) : t \in Tables \cup {"alembic_version"}} \cup {Rows(t) : t \in Tables}
          \cup {Version}

Act == [needs : SUBSET Fact, absent : SUBSET Fact, adds : SUBSET Fact, removes : SUBSET Fact]

(* Facts of different kinds, or about different tables, are different.     *)
LEMMA FactsDiffer ==
    ASSUME NEW t, NEW u
    PROVE  /\ Table(t) = Table(u) <=> t = u
           /\ Table(t) # Rows(u) /\ Table(t) # Version /\ Rows(t) # Version
           /\ Table(t) = Log <=> t = "alembic_version"
           /\ Rows(t) # Log
BY DEF Table, Rows, Version, Log

(* alembic_version is none of the tables of the models.                    *)
LEMMA LogIsApart == "alembic_version" \notin Tables
BY TableNames

(* What each kind of step consists of.                                     *)
LEMMA StepsAreActs ==
    /\ CreateLog \in Act /\ Stamp \in Act /\ Unstamp \in Act
    /\ \A t \in Tables : Create(t) \in Act /\ Seed(t) \in Act /\ Drop(t) \in Act
<1>1. /\ Log \in Fact /\ Version \in Fact
      /\ \A t \in Tables : Table(t) \in Fact /\ Rows(t) \in Fact
  BY DEF Fact, Log
<1>2. \A t \in Tables : Parents(t) \subseteq Tables
  BY OrdersAreRight
<1> QED BY <1>1, <1>2 DEF Act, CreateLog, Stamp, Unstamp, Create, Seed, Drop

(* An upgrade creates the tables in their order, fills the two catalogues  *)
(* and writes the version.                                                 *)
LEMMA UpgradeShape ==
    /\ UpgradeSteps \in Seq(Act)
    /\ Len(UpgradeSteps) = 18
    /\ \A i \in 1..15 : UpgradeSteps[i] = Create(CreateOrder[i])
    /\ UpgradeSteps[16] = Seed("scopes")
    /\ UpgradeSteps[17] = Seed("role_templates")
    /\ UpgradeSteps[18] = Stamp
<1> DEFINE made == [i \in 1..15 |-> Create(CreateOrder[i])]
           rest == <<Seed("scopes"), Seed("role_templates"), Stamp>>
<1>1. made \in Seq(Act) /\ Len(made) = 15
  BY StepsAreActs, CreatedAt
<1>2. rest \in Seq(Act) /\ Len(rest) = 3
  BY StepsAreActs, TableNames
<1>3. UpgradeSteps = made \o rest
  BY DEF UpgradeSteps
<1>4. \A i \in 1..15 : made[i] = Create(CreateOrder[i])
  OBVIOUS
<1>5. rest[1] = Seed("scopes") /\ rest[2] = Seed("role_templates") /\ rest[3] = Stamp
  OBVIOUS
<1> HIDE DEF made, rest
<1>6. /\ UpgradeSteps \in Seq(Act)
      /\ Len(UpgradeSteps) = Len(made) + Len(rest)
      /\ \A i \in 1..Len(made) + Len(rest) :
            UpgradeSteps[i] = IF i <= Len(made) THEN made[i] ELSE rest[i - Len(made)]
  <2> HIDE DEF Act
  <2>1. /\ made \o rest \in Seq(Act)
        /\ Len(made \o rest) = Len(made) + Len(rest)
        /\ \A i \in 1..Len(made) + Len(rest) :
              (made \o rest)[i] = IF i <= Len(made) THEN made[i] ELSE rest[i - Len(made)]
    BY <1>1, <1>2, ConcatProperties, Zenon
  <2> QED BY <2>1, <1>3, Zenon
<1>7. Len(UpgradeSteps) = 18
  BY <1>1, <1>2, <1>6
<1>8. \A i \in 1..15 : UpgradeSteps[i] = made[i]
  BY <1>1, <1>2, <1>6
<1>9. UpgradeSteps[16] = rest[1] /\ UpgradeSteps[17] = rest[2] /\ UpgradeSteps[18] = rest[3]
  BY <1>1, <1>2, <1>6
<1> QED BY <1>4, <1>5, <1>6, <1>7, <1>8, <1>9

(* A downgrade drops the tables in their order and removes the version.    *)
LEMMA DowngradeShape ==
    /\ DowngradeSteps \in Seq(Act)
    /\ Len(DowngradeSteps) = 16
    /\ \A i \in 1..15 : DowngradeSteps[i] = Drop(DropOrder[i])
    /\ DowngradeSteps[16] = Unstamp
<1> DEFINE gone == [i \in 1..15 |-> Drop(DropOrder[i])]
           rest == <<Unstamp>>
<1>1. gone \in Seq(Act) /\ Len(gone) = 15
  BY StepsAreActs, DroppedAt
<1>2. rest \in Seq(Act) /\ Len(rest) = 1
  BY StepsAreActs
<1>3. DowngradeSteps = gone \o rest
  BY DEF DowngradeSteps
<1>4. \A i \in 1..15 : gone[i] = Drop(DropOrder[i])
  OBVIOUS
<1>5. rest[1] = Unstamp
  OBVIOUS
<1> HIDE DEF gone, rest
<1>6. /\ DowngradeSteps \in Seq(Act)
      /\ Len(DowngradeSteps) = Len(gone) + Len(rest)
      /\ \A i \in 1..Len(gone) + Len(rest) :
            DowngradeSteps[i] = IF i <= Len(gone) THEN gone[i] ELSE rest[i - Len(gone)]
  <2> HIDE DEF Act
  <2>1. /\ gone \o rest \in Seq(Act)
        /\ Len(gone \o rest) = Len(gone) + Len(rest)
        /\ \A i \in 1..Len(gone) + Len(rest) :
              (gone \o rest)[i] = IF i <= Len(gone) THEN gone[i] ELSE rest[i - Len(gone)]
    BY <1>1, <1>2, ConcatProperties, Zenon
  <2> QED BY <2>1, <1>3, Zenon
<1>7. Len(DowngradeSteps) = 16
  BY <1>1, <1>2, <1>6
<1>8. \A i \in 1..15 : DowngradeSteps[i] = gone[i]
  BY <1>1, <1>2, <1>6
<1>9. DowngradeSteps[16] = rest[1]
  BY <1>1, <1>2, <1>6
<1> QED BY <1>4, <1>5, <1>6, <1>7, <1>8, <1>9

-----------------------------------------------------------------------------
(* What m steps of an upgrade have added, and m of a downgrade removed.    *)
Built(m) == UNION {UpgradeSteps[i].adds : i \in 1..m}
Torn(m)  == UNION {DowngradeSteps[i].removes : i \in 1..m}

(* What the single steps add and remove.                                   *)
LEMMA UpgradeAdds ==
    ASSUME NEW i \in 1..18
    PROVE  /\ UpgradeSteps[i].removes = {}
           /\ i <= 15 => UpgradeSteps[i].adds = {Table(CreateOrder[i])}
           /\ i = 16 => UpgradeSteps[i].adds = {Rows("scopes")}
           /\ i = 17 => UpgradeSteps[i].adds = {Rows("role_templates")}
           /\ i = 18 => UpgradeSteps[i].adds = {Version}
<1>1. CASE i <= 15
  BY <1>1, UpgradeShape DEF Create
<1>2. CASE i \in {16, 17, 18}
  BY <1>2, UpgradeShape DEF Seed, Stamp
<1> QED BY <1>1, <1>2

(* What the single steps add and remove.                                   *)
LEMMA DowngradeRemoves ==
    ASSUME NEW i \in 1..16
    PROVE  /\ DowngradeSteps[i].adds = {}
           /\ i <= 15 => DowngradeSteps[i].removes = {Table(DropOrder[i]), Rows(DropOrder[i])}
           /\ i = 16 => DowngradeSteps[i].removes = {Version}
<1>1. CASE i <= 15
  <2>1. \A t : Drop(t).adds = {} /\ Drop(t).removes = {Table(t), Rows(t)}
    BY DEF Drop
  <2>2. DowngradeSteps[i] = Drop(DropOrder[i])
    BY <1>1, DowngradeShape
  <2> QED BY <1>1, <2>1, <2>2
<1>2. CASE i = 16
  BY <1>2, DowngradeShape DEF Unstamp
<1> QED BY <1>1, <1>2

(* A table is there once its place in the order is reached.                *)
LEMMA BuiltTables ==
    ASSUME NEW m \in 0..18, NEW t \in Tables
    PROVE  Table(t) \in Built(m) <=> Made(t) <= m
<1>1. ASSUME Table(t) \in Built(m)
      PROVE  Made(t) <= m
  <2>1. PICK i \in 1..m : Table(t) \in UpgradeSteps[i].adds
    BY <1>1 DEF Built
  <2>2. i <= 15 /\ t = CreateOrder[i]
    BY <2>1, UpgradeAdds, FactsDiffer
  <2> QED BY <2>2, CreatedAt
<1>2. ASSUME Made(t) <= m
      PROVE  Table(t) \in Built(m)
  <2>1. Made(t) \in 1..15 /\ CreateOrder[Made(t)] = t
    BY EveryTableIsMade
  <2>2. Table(t) \in UpgradeSteps[Made(t)].adds
    BY <2>1, UpgradeAdds
  <2> QED BY <1>2, <2>1, <2>2 DEF Built
<1> QED BY <1>1, <1>2

(* The reference rows and the version come after the tables.               *)
LEMMA BuiltRows ==
    ASSUME NEW m \in 0..18, NEW t \in Tables
    PROVE  Rows(t) \in Built(m) <=> (t = "scopes" /\ m >= 16) \/ (t = "role_templates" /\ m >= 17)
<1>1. ASSUME Rows(t) \in Built(m)
      PROVE  (t = "scopes" /\ m >= 16) \/ (t = "role_templates" /\ m >= 17)
  <2>1. PICK i \in 1..m : Rows(t) \in UpgradeSteps[i].adds
    BY <1>1 DEF Built
  <2>2. i \in {16, 17}
    BY <2>1, UpgradeAdds, FactsDiffer
  <2>3. \A a, b : Rows(a) = Rows(b) => a = b
    BY DEF Rows
  <2> QED BY <2>1, <2>2, <2>3, UpgradeAdds
<1>2. m >= 16 => Rows("scopes") \in Built(m)
  BY UpgradeAdds DEF Built
<1>3. m >= 17 => Rows("role_templates") \in Built(m)
  BY UpgradeAdds DEF Built
<1> QED BY <1>1, <1>2, <1>3

(* The version comes last, and alembic's table is not part of the chain.   *)
LEMMA BuiltVersion ==
    ASSUME NEW m \in 0..18
    PROVE  /\ Version \in Built(m) <=> m = 18
           /\ Log \notin Built(m)
<1>1. ASSUME NEW i \in 1..m
      PROVE  /\ Version \in UpgradeSteps[i].adds <=> i = 18
             /\ Log \notin UpgradeSteps[i].adds
  <2>1. CASE i <= 15
    <3>1. CreateOrder[i] \in Tables
      BY <2>1, CreatedAt
    <3> QED BY <2>1, <3>1, UpgradeAdds, FactsDiffer, LogIsApart
  <2>2. CASE i \in {16, 17, 18}
    <3>1. Log # Version
      BY FactsDiffer DEF Log
    <3> QED BY <2>2, <3>1, UpgradeAdds, FactsDiffer
  <2> QED BY <2>1, <2>2
<1> QED BY <1>1 DEF Built

(* A table and its rows are gone once its place in the order is reached.   *)
LEMMA TornTables ==
    ASSUME NEW m \in 0..16, NEW t \in Tables
    PROVE  /\ Table(t) \in Torn(m) <=> Dropped(t) <= m
           /\ Rows(t) \in Torn(m) <=> Dropped(t) <= m
<1>1. ASSUME Table(t) \in Torn(m) \/ Rows(t) \in Torn(m)
      PROVE  Dropped(t) <= m
  <2>1. PICK i \in 1..m : Table(t) \in DowngradeSteps[i].removes
                            \/ Rows(t) \in DowngradeSteps[i].removes
    BY <1>1 DEF Torn
  <2>2. \A a, b : Rows(a) = Rows(b) => a = b
    BY DEF Rows
  <2>3. i <= 15 /\ t = DropOrder[i]
    BY <2>1, <2>2, DowngradeRemoves, FactsDiffer
  <2> QED BY <2>3, DroppedAt
<1>2. ASSUME Dropped(t) <= m
      PROVE  Table(t) \in Torn(m) /\ Rows(t) \in Torn(m)
  <2>1. Dropped(t) \in 1..15 /\ DropOrder[Dropped(t)] = t
    BY EveryTableIsDropped
  <2>2. /\ Table(t) \in DowngradeSteps[Dropped(t)].removes
        /\ Rows(t) \in DowngradeSteps[Dropped(t)].removes
    BY <2>1, DowngradeRemoves
  <2> QED BY <1>2, <2>1, <2>2 DEF Torn
<1> QED BY <1>1, <1>2

(* The version goes last, and alembic's table stays.                       *)
LEMMA TornVersion ==
    ASSUME NEW m \in 0..16
    PROVE  /\ Version \in Torn(m) <=> m = 16
           /\ Log \notin Torn(m)
<1>1. ASSUME NEW i \in 1..m
      PROVE  /\ Version \in DowngradeSteps[i].removes <=> i = 16
             /\ Log \notin DowngradeSteps[i].removes
  <2>1. CASE i <= 15
    <3>1. DropOrder[i] \in Tables
      BY <2>1, DroppedAt
    <3> QED BY <2>1, <3>1, DowngradeRemoves, FactsDiffer, LogIsApart
  <2>2. CASE i = 16
    <3>1. Log # Version
      BY FactsDiffer DEF Log
    <3> QED BY <2>2, <3>1, DowngradeRemoves
  <2> QED BY <2>1, <2>2
<1> QED BY <1>1 DEF Torn

-----------------------------------------------------------------------------
(* The chain goes through, in both directions.                             *)

(* Every step of an upgrade finds what it needs and nothing in its way.    *)
LEMMA UpgradeGoesThrough ==
    ASSUME NEW m \in 0..17
    PROVE  /\ UpgradeSteps[m + 1].needs \subseteq Built(m) \cup {Log}
           /\ UpgradeSteps[m + 1].absent \cap (Built(m) \cup {Log}) = {}
<1>0. m \in 0..18
  OBVIOUS
<1>1. CASE m + 1 \in 1..15
  <2> DEFINE t == CreateOrder[m + 1]
  <2>1. t \in Tables /\ Made(t) = m + 1
    BY <1>1, CreatedAt
  <2>2. UpgradeSteps[m + 1] = Create(t)
    BY <1>1, UpgradeShape
  <2> HIDE DEF t
  <2>3. \A p \in Parents(t) : Table(p) \in Built(m)
    <3> TAKE p \in Parents(t)
    <3>1. p \in Tables /\ Made(p) < Made(t)
      BY <2>1, OrdersAreRight
    <3>2. Made(p) \in Int
      BY <3>1, EveryTableIsMade
    <3> QED BY <1>0, <2>1, <3>1, <3>2, BuiltTables
  <2>4. Table(t) \notin Built(m)
    BY <1>0, <2>1, BuiltTables
  <2>5. Table(t) # Log
    BY <2>1, FactsDiffer, LogIsApart
  <2> QED BY <2>2, <2>3, <2>4, <2>5 DEF Create
<1>2. CASE m \in {15, 16}
  <2> DEFINE t == IF m = 15 THEN "scopes" ELSE "role_templates"
  <2>1. t \in Tables /\ Made(t) <= m
    BY <1>2, TableNames DEF Made
  <2>2. UpgradeSteps[m + 1] = Seed(t)
    BY <1>2, UpgradeShape
  <2>3. Table(t) \in Built(m)
    BY <1>0, <2>1, BuiltTables
  <2>4. Rows(t) \notin Built(m)
    BY <1>0, <1>2, <2>1, BuiltRows
  <2>5. Rows(t) # Log
    BY FactsDiffer
  <2> HIDE DEF t
  <2> QED BY <2>2, <2>3, <2>4, <2>5 DEF Seed
<1>3. CASE m = 17
  <2>1. UpgradeSteps[m + 1] = Stamp
    BY <1>3, UpgradeShape
  <2>2. Version \notin Built(m) /\ Version # Log
    BY <1>0, <1>3, BuiltVersion, FactsDiffer DEF Log
  <2> QED BY <2>1, <2>2 DEF Stamp
<1> QED BY <1>1, <1>2, <1>3

(* So does every step of a downgrade from the head.                        *)
LEMMA DowngradeGoesThrough ==
    ASSUME NEW m \in 0..15
    PROVE  /\ DowngradeSteps[m + 1].needs \subseteq (HeadSchema \cup {Log}) \ Torn(m)
           /\ DowngradeSteps[m + 1].absent \cap ((HeadSchema \cup {Log}) \ Torn(m)) = {}
<1>0. m \in 0..16
  OBVIOUS
<1>1. CASE m + 1 \in 1..15
  <2> DEFINE t == DropOrder[m + 1]
  <2>1. t \in Tables /\ Dropped(t) = m + 1
    BY <1>1, DroppedAt
  <2>2. DowngradeSteps[m + 1] = Drop(t)
    BY <1>1, DowngradeShape
  <2> HIDE DEF t
  <2>3. Table(t) \in HeadSchema \ Torn(m)
    BY <1>0, <2>1, TornTables DEF HeadSchema
  <2>4. \A x \in Tables : t \in Parents(x) => Table(x) \in Torn(m)
    <3> SUFFICES ASSUME NEW x \in Tables, t \in Parents(x)
                 PROVE  Table(x) \in Torn(m)
      OBVIOUS
    <3>1. Dropped(x) < Dropped(t) /\ Dropped(x) \in Int
      BY OrdersAreRight, EveryTableIsDropped
    <3> QED BY <1>0, <2>1, <3>1, TornTables
  <2> QED BY <2>2, <2>3, <2>4 DEF Drop
<1>2. CASE m = 15
  <2>1. DowngradeSteps[m + 1] = Unstamp
    BY <1>2, DowngradeShape
  <2>2. Version \in HeadSchema \ Torn(m)
    BY <1>0, <1>2, TornVersion DEF HeadSchema
  <2> QED BY <2>1, <2>2 DEF Unstamp
<1> QED BY <1>1, <1>2

(* All steps of an upgrade together make the schema of the revision.       *)
LEMMA UpgradeMakesHead == Built(18) = HeadSchema
<1>1. \A x \in HeadSchema : x \in Built(18)
  <2> TAKE x \in HeadSchema
  <2>1. CASE \E t \in Tables : x = Table(t)
    BY <2>1, BuiltTables, EveryTableIsMade
  <2>2. CASE x \in {Rows("scopes"), Rows("role_templates")}
    BY <2>2, BuiltRows, TableNames
  <2>3. CASE x = Version
    BY <2>3, BuiltVersion
  <2> QED BY <2>1, <2>2, <2>3 DEF HeadSchema
<1>2. ASSUME NEW i \in 1..18
      PROVE  UpgradeSteps[i].adds \subseteq HeadSchema
  <2>1. CASE i <= 15
    BY <2>1, UpgradeAdds, CreatedAt DEF HeadSchema
  <2>2. CASE i \in {16, 17, 18}
    BY <2>2, UpgradeAdds DEF HeadSchema
  <2> QED BY <2>1, <2>2
<1>3. Built(18) \subseteq HeadSchema
  BY <1>2 DEF Built
<1> QED BY <1>1, <1>3

(* All steps of a downgrade together leave nothing of it.                  *)
LEMMA DowngradeUnmakesHead ==
    /\ HeadSchema \subseteq Torn(16)
    /\ Log \notin Torn(16)
<1>1. Log \notin Torn(16) /\ Version \in Torn(16)
  BY TornVersion
<1>2. \A t \in Tables : Table(t) \in Torn(16) /\ Rows(t) \in Torn(16)
  BY TornTables, EveryTableIsDropped
<1> QED BY <1>1, <1>2, TableNames DEF HeadSchema

(* Alembic's table is not part of the revision's schema.                   *)
LEMMA HeadWithoutLog == Log \notin HeadSchema /\ HeadSchema # {}
BY UpgradeMakesHead, BuiltVersion

-----------------------------------------------------------------------------
(* The plan of one runner.                                                 *)

Lead(r) == IF seen[r] = {} THEN 1 ELSE 0

Body(r) == IF NothingToDo(r) THEN <<>>
           ELSE IF command[r] = "upgrade" THEN UpgradeSteps ELSE DowngradeSteps

(* Alembic's table first if it is not there, then the chain.               *)
LEMMA PlanShape ==
    ASSUME NEW r
    PROVE  /\ Plan(r) \in Seq(Act)
           /\ Len(Plan(r)) = Lead(r) + Len(Body(r))
           /\ Lead(r) = 1 => Plan(r)[1] = CreateLog
           /\ \A i \in 1..Len(Body(r)) : Plan(r)[Lead(r) + i] = Body(r)[i]
<1> DEFINE lead == IF seen[r] = {} THEN <<CreateLog>> ELSE <<>>
<1>1. Plan(r) = lead \o Body(r)
  BY DEF Plan, Body
<1>2. lead \in Seq(Act) /\ Len(lead) = Lead(r) /\ (Lead(r) = 1 => lead[1] = CreateLog)
  BY StepsAreActs DEF Lead
<1>3. Body(r) \in Seq(Act)
  BY UpgradeShape, DowngradeShape DEF Body
<1> HIDE DEF lead, Act
<1>4. /\ lead \o Body(r) \in Seq(Act)
      /\ Len(lead \o Body(r)) = Len(lead) + Len(Body(r))
      /\ \A i \in 1..Len(lead) + Len(Body(r)) :
            (lead \o Body(r))[i] = IF i <= Len(lead) THEN lead[i] ELSE Body(r)[i - Len(lead)]
  BY <1>2, <1>3, ConcatProperties, Zenon
<1>5. Plan(r) \in Seq(Act)
  BY <1>1, <1>4, Zenon
<1>6. Len(Plan(r)) = Lead(r) + Len(Body(r))
  BY <1>1, <1>2, <1>4, Zenon
<1>7. \A i \in 1..Lead(r) + Len(Body(r)) :
            Plan(r)[i] = IF i <= Lead(r) THEN lead[i] ELSE Body(r)[i - Lead(r)]
  BY <1>1, <1>2, <1>4, Zenon
<1>8. Len(Body(r)) \in Nat /\ Lead(r) \in {0, 1}
  BY UpgradeShape, DowngradeShape DEF Body, Lead
<1>9. Lead(r) = 1 => Plan(r)[1] = CreateLog
  BY <1>2, <1>7, <1>8
<1>10. \A i \in 1..Len(Body(r)) : Plan(r)[Lead(r) + i] = Body(r)[i]
  BY <1>7, <1>8
<1> QED BY <1>5, <1>6, <1>9, <1>10

(* Which of the three plans it is, by what was read.                       *)
LEMMA WhichPlan ==
    ASSUME NEW r \in Runner, Typed, Midway(r)
    PROVE  \/ command[r] = "upgrade" /\ ~NothingToDo(r) /\ Body(r) = UpgradeSteps
              /\ Version \notin seen[r]
           \/ command[r] = "downgrade" /\ ~NothingToDo(r) /\ Body(r) = DowngradeSteps
              /\ seen[r] = {Log, Version}
           \/ command[r] = "downgrade" /\ NothingToDo(r) /\ Body(r) = <<>>
              /\ seen[r] = {}
<1>1. seen[r] \in SUBSET {Log, Version} /\ command[r] \in {"upgrade", "downgrade"}
  BY DEF Typed
<1> QED BY <1>1 DEF Midway, Body, NothingToDo

(* The plan of an upgrade, step by step.                                   *)
LEMMA UpgradePlan ==
    ASSUME NEW r \in Runner, Typed, Midway(r), command[r] = "upgrade"
    PROVE  /\ Len(Plan(r)) = Lead(r) + 18
           /\ \A i \in 1..18 : Plan(r)[Lead(r) + i] = UpgradeSteps[i]
           /\ Version \notin seen[r]
<1>1. Body(r) = UpgradeSteps /\ Version \notin seen[r]
  BY WhichPlan
<1>2. Len(Body(r)) = 18
  BY <1>1, UpgradeShape
<1>3. /\ Len(Plan(r)) = Lead(r) + Len(Body(r))
      /\ \A i \in 1..Len(Body(r)) : Plan(r)[Lead(r) + i] = Body(r)[i]
  BY PlanShape, Zenon
<1> QED BY <1>1, <1>2, <1>3

(* The plan of a downgrade from the head, step by step.                    *)
LEMMA DowngradePlan ==
    ASSUME NEW r \in Runner, Typed, Midway(r), command[r] = "downgrade", seen[r] # {}
    PROVE  /\ Len(Plan(r)) = 16
           /\ \A i \in 1..16 : Plan(r)[i] = DowngradeSteps[i]
           /\ seen[r] = {Log, Version}
<1>1. Body(r) = DowngradeSteps /\ seen[r] = {Log, Version}
  BY WhichPlan
<1>2. Len(Body(r)) = 16
  BY <1>1, DowngradeShape
<1>3. /\ Len(Plan(r)) = Lead(r) + Len(Body(r))
      /\ \A i \in 1..Len(Body(r)) : Plan(r)[Lead(r) + i] = Body(r)[i]
  BY PlanShape, Zenon
<1>4. Lead(r) = 0
  BY DEF Lead
<1>5. \A i \in 1..16 : Plan(r)[0 + i] = Body(r)[i]
  BY <1>2, <1>3, <1>4
<1> QED BY <1>1, <1>2, <1>3, <1>4, <1>5

(* A downgrade of nothing makes alembic's table, for itself.               *)
LEMMA EmptyPlan ==
    ASSUME NEW r \in Runner, Typed, Midway(r), command[r] = "downgrade", seen[r] = {}
    PROVE  Len(Plan(r)) = 1 /\ NothingToDo(r)
<1>1. Body(r) = <<>> /\ NothingToDo(r)
  <2>1. {} # {Log, Version}
    OBVIOUS
  <2> QED BY <2>1, WhichPlan
<1>2. Len(Plan(r)) = Lead(r) + Len(Body(r))
  BY PlanShape, Zenon
<1> QED BY <1>1, <1>2 DEF Lead

(* What an upgrade sees of the database in its own transaction.            *)
LEMMA UpgradeView ==
    ASSUME NEW r \in Runner, Typed, Midway(r), command[r] = "upgrade",
           NEW m \in 0..18, step[r] = Lead(r) + m
    PROVE  View(r) = db \cup Built(m) \cup {Log}
<1>1. Lead(r) \in {0, 1} /\ (Lead(r) = 0 => Log \in db)
  BY DEF Lead, Midway, Typed
<1>2. \A j \in 1..18 : Plan(r)[Lead(r) + j] = UpgradeSteps[j]
  BY UpgradePlan
<1>3. \A j \in 1..m : Plan(r)[Lead(r) + j] = UpgradeSteps[j]
  <2>1. \A j \in 1..m : j \in 1..18
    OBVIOUS
  <2> QED BY <1>2, <2>1
<1>4. Lead(r) = 1 => Plan(r)[1].adds = {Log} /\ Plan(r)[1].removes = {}
  BY PlanShape DEF CreateLog
<1>5. ASSUME NEW i \in 1..step[r]
      PROVE  \/ i = 1 /\ Lead(r) = 1
             \/ \E j \in 1..m : i = Lead(r) + j
  BY <1>1
<1>6. Removed(r) = {}
  <2>1. ASSUME NEW i \in 1..step[r]
        PROVE  Plan(r)[i].removes = {}
    BY <1>3, <1>4, <1>5, UpgradeAdds
  <2> QED BY <2>1 DEF Removed
<1>7. Added(r) \subseteq Built(m) \cup {Log}
  <2>1. ASSUME NEW i \in 1..step[r]
        PROVE  Plan(r)[i].adds \subseteq Built(m) \cup {Log}
    BY <1>3, <1>4, <1>5 DEF Built
  <2> QED BY <2>1 DEF Added
<1>8. Built(m) \subseteq Added(r)
  <2>1. ASSUME NEW j \in 1..m
        PROVE  UpgradeSteps[j].adds \subseteq Added(r)
    <3>1. Lead(r) + j \in 1..step[r]
      BY <1>1
    <3> QED BY <1>3, <3>1 DEF Added
  <2> QED BY <2>1 DEF Built
<1>9. Lead(r) = 1 => Log \in Added(r)
  BY <1>1, <1>4 DEF Added
<1> QED BY <1>1, <1>6, <1>7, <1>8, <1>9 DEF View

(* What a downgrade sees of it.                                            *)
LEMMA DowngradeView ==
    ASSUME NEW r \in Runner, Typed, Midway(r), seen[r] = {Log, Version}, command[r] = "downgrade",
           NEW m \in 0..16, step[r] = m
    PROVE  View(r) = db \ Torn(m)
<1>3. \A j \in 1..m : Plan(r)[j] = DowngradeSteps[j]
  BY DowngradePlan
<1>4. Added(r) = {}
  BY <1>3, DowngradeRemoves DEF Added
<1>5. Removed(r) = Torn(m)
  BY <1>3 DEF Removed, Torn
<1> QED BY <1>4, <1>5 DEF View

-----------------------------------------------------------------------------
(* What a transaction ends with.                                           *)

(* A migration leaves one of the two schemas: the one it was sent for.     *)
LEMMA CommitIsWhole ==
    ASSUME NEW r \in Runner, Typed, Whole, Midway(r), step[r] = Len(Plan(r)),
           ~NothingToDo(r)
    PROVE  /\ command[r] = "upgrade"   => View(r) = HeadSchema \cup {Log}
           /\ command[r] = "downgrade" => View(r) = {Log}
<1>1. ASSUME command[r] = "upgrade"
      PROVE  View(r) = HeadSchema \cup {Log}
  <2>2. step[r] = Lead(r) + 18
    BY <1>1, UpgradePlan
  <2>3. View(r) = db \cup Built(18) \cup {Log}
    BY <1>1, <2>2, UpgradeView
  <2> QED BY <2>3, UpgradeMakesHead DEF Whole
<1>2. ASSUME command[r] = "downgrade"
      PROVE  View(r) = {Log}
  <2>1. seen[r] = {Log, Version}
    BY <1>2, WhichPlan
  <2>2. step[r] = 16
    BY <1>2, <2>1, DowngradePlan
  <2>3. View(r) = db \ Torn(16)
    BY <1>2, <2>1, <2>2, DowngradeView
  <2>4. Log \in db
    BY <2>1 DEF Midway
  <2> QED BY <2>3, <2>4, DowngradeUnmakesHead DEF Whole
<1> QED BY <1>1, <1>2

(* A step can be taken unless somebody else committed since the version    *)
(* was read.                                                               *)
LEMMA PossibleUnlessOvertaken ==
    ASSUME NEW r \in Runner, Typed, Whole, Midway(r), step[r] < Len(Plan(r)),
           seen[r] = Current
    PROVE  Possible(r)
<1>0. Lead(r) \in {0, 1} /\ step[r] \in Nat
  BY DEF Lead, Typed
<1>1. CASE step[r] = 0 /\ Lead(r) = 1
  <2>1. Plan(r)[step[r] + 1] = CreateLog
    BY <1>1, PlanShape
  <2>2. Added(r) = {} /\ Removed(r) = {}
    BY <1>1 DEF Added, Removed
  <2>3. Log \notin db
    BY <1>1 DEF Lead, Current
  <2> QED BY <2>1, <2>2, <2>3 DEF Possible, View, CreateLog
<1>2. CASE step[r] >= Lead(r) /\ command[r] = "upgrade"
  <2>1. PICK m \in Nat : step[r] = Lead(r) + m
    <3>1. step[r] - Lead(r) \in Nat /\ step[r] = Lead(r) + (step[r] - Lead(r))
      BY <1>0, <1>2
    <3> QED BY <3>1
  <2>2. /\ Version \notin seen[r]
        /\ Len(Plan(r)) = Lead(r) + 18
        /\ \A i \in 1..18 : Plan(r)[Lead(r) + i] = UpgradeSteps[i]
    BY <1>2, UpgradePlan
  <2>3. m \in 0..17
    BY <1>0, <2>1, <2>2
  <2>4. Plan(r)[step[r] + 1] = UpgradeSteps[m + 1]
    <3>1. Plan(r)[Lead(r) + (m + 1)] = UpgradeSteps[m + 1]
      <4>1. m + 1 \in 1..18
        BY <2>3
      <4> QED BY <2>2, <4>1
    <3> QED BY <1>0, <2>1, <3>1
  <2>5. View(r) = db \cup Built(m) \cup {Log}
    BY <1>2, <2>1, <2>3, UpgradeView
  <2>6. db \subseteq {Log}
    BY <2>2 DEF Whole, Current, HeadSchema
  <2> QED BY <2>3, <2>4, <2>5, <2>6, UpgradeGoesThrough DEF Possible
<1>3. CASE step[r] >= Lead(r) /\ command[r] = "downgrade"
  <2>1. seen[r] = {Log, Version}
    <3>1. seen[r] # {}
      BY <1>0, <1>3, EmptyPlan DEF Lead
    <3> QED BY <1>3, <3>1, DowngradePlan
  <2>2. Len(Plan(r)) = 16 /\ \A i \in 1..16 : Plan(r)[i] = DowngradeSteps[i]
    BY <1>3, <2>1, DowngradePlan
  <2>3. step[r] \in 0..15
    BY <1>0, <2>2
  <2>4. Plan(r)[step[r] + 1] = DowngradeSteps[step[r] + 1]
    BY <2>2, <2>3
  <2>5. View(r) = db \ Torn(step[r])
    <3>1. step[r] \in 0..16
      BY <2>3
    <3> QED BY <1>3, <2>1, <3>1, DowngradeView
  <2>6. db = HeadSchema \cup {Log}
    <3>1. Version \in db
      BY <2>1 DEF Current
    <3>2. Version # Log
      BY FactsDiffer DEF Log
    <3> QED BY <3>1, <3>2 DEF Whole
  <2> QED BY <2>3, <2>4, <2>5, <2>6, DowngradeGoesThrough DEF Possible
<1>4. command[r] \in {"upgrade", "downgrade"}
  BY DEF Typed
<1> QED BY <1>0, <1>1, <1>2, <1>3, <1>4

-----------------------------------------------------------------------------
(* The invariant is inductive.                                             *)

(* Whatever was read and asked for, a plan has a length.                   *)
LEMMA PlansAreFinite ==
    ASSUME NEW read, NEW body \in {<<>>, UpgradeSteps, DowngradeSteps}
    PROVE  Len((IF read = {} THEN <<CreateLog>> ELSE <<>>) \o body) \in Nat
<1> DEFINE lead == IF read = {} THEN <<CreateLog>> ELSE <<>>
<1>1. lead \in Seq(Act) /\ body \in Seq(Act)
  <2>1. lead \in Seq(Act)
    BY StepsAreActs
  <2>2. <<>> \in Seq(Act)
    OBVIOUS
  <2> QED BY <2>1, <2>2, UpgradeShape, DowngradeShape
<1>2. Len(lead) \in Nat /\ Len(body) \in Nat
  BY UpgradeShape, DowngradeShape
<1> HIDE DEF lead, Act
<1>3. Len(lead \o body) = Len(lead) + Len(body)
  BY <1>1, ConcatProperties, Zenon
<1>4. Len(lead \o body) \in Nat
  BY <1>2, <1>3
<1> QED BY <1>4 DEF lead

(* A runner that a step of somebody else leaves alone is where it was.     *)
LEMMA OthersKeepTheirPlace ==
    ASSUME NEW o, Midway(o), Log \in db => Log \in db',
           seen'[o] = seen[o], command'[o] = command[o], step'[o] = step[o]
    PROVE  Midway(o)'
<1>1. NothingToDo(o)' <=> NothingToDo(o)
  BY DEF NothingToDo
<1>2. Plan(o)' = Plan(o)
  BY <1>1 DEF Plan
<1> QED BY <1>1, <1>2 DEF Midway

(* A transaction that ends, however it ends, leaves nothing behind.        *)
LEMMA EndsCleanly ==
    ASSUME Typed, Told, Underway, NEW r \in Runner, NEW told \in {"ok", "failed", "crashed"},
           End(r, told), Log \in db => Log \in db'
    PROVE  Typed' /\ Told' /\ Underway'
<1>1. Typed'
  BY DEF Typed, End, Goto
<1>2. Told'
  BY NullIsNoOutcome DEF Typed, Told, End, Goto
<1>3. ASSUME NEW o \in Runner, pc'[o] = "running"
      PROVE  Midway(o)'
  <2>1. o # r /\ pc[o] = "running"
    BY <1>3 DEF Typed, End, Goto
  <2>2. seen'[o] = seen[o] /\ command'[o] = command[o] /\ step'[o] = step[o]
    BY <2>1 DEF Typed, End
  <2>3. Midway(o)
    BY <2>1 DEF Underway
  <2> QED BY <2>2, <2>3, OthersKeepTheirPlace
<1>4. Underway'
  BY <1>3 DEF Underway
<1> QED BY <1>1, <1>2, <1>4

(* It holds at first.                                                      *)
LEMMA Initially == Init => IInv
BY NullIsNoOutcome DEF Init, IInv, Typed, Told, Whole, Underway

(* Starting reads the version in one piece.                                *)
LEMMA StartKeeps ==
    ASSUME IInv, NEW r \in Runner, Start(r)
    PROVE  IInv'
<1> USE DEF IInv
<1>1. Whole'
  BY DEF Start, Whole
<1>2. CASE End(r, "ok")
  <2>1. Typed' /\ Told' /\ Underway'
    BY <1>2, EndsCleanly DEF Start
  <2> QED BY <1>1, <2>1
<1>3. CASE /\ ~(Log \in db /\ (Version \in db <=> command[r] = "upgrade"))
           /\ Goto(r, "running")
           /\ seen' = [seen EXCEPT ![r] = Current]
           /\ UNCHANGED <<command, step, outcome, restarts>>
  <2>0. pc[r] = "new" /\ UNCHANGED db
    BY DEF Start
  <2>1. Typed'
    BY <1>3 DEF Typed, Goto, Current
  <2>2. Told'
    BY <1>3, <2>0 DEF Typed, Told, Goto
  <2>4. ASSUME NEW o \in Runner, pc'[o] = "running", o # r
        PROVE  Midway(o)'
    <3>1. pc[o] = "running" /\ seen'[o] = seen[o]
      BY <1>3, <2>4 DEF Typed, Goto
    <3> QED BY <1>3, <2>0, <3>1, OthersKeepTheirPlace DEF Underway
  <2>5. Midway(r)'
    <3>1. seen'[r] = Current /\ command'[r] = command[r] /\ step'[r] = 0
      BY <1>3, <2>0 DEF Typed, Told
    <3>2. Len(Plan(r)') \in Nat
      BY PlansAreFinite DEF Plan
    <3>3. Version \in Current => Log \in Current
      BY DEF Whole, Current, Log, Version, Table
    <3>4. Log \in Current => ~NothingToDo(r)'
      BY <1>3, <3>1 DEF Current, NothingToDo
    <3> QED BY <2>0, <3>1, <3>2, <3>3, <3>4 DEF Midway, Current
  <2>6. Underway'
    BY <2>4, <2>5 DEF Underway
  <2> QED BY <1>1, <2>1, <2>2, <2>6
<1> QED BY <1>2, <1>3 DEF Start

(* A step goes no further than the plan.                                   *)
LEMMA StepKeeps ==
    ASSUME IInv, NEW r \in Runner, Step(r)
    PROVE  IInv'
<1> USE DEF IInv
<1>1. Whole'
  BY DEF Step, Whole
<1>2. Typed' /\ Told'
  BY DEF Step, Ready, Typed, Told
<1>3. ASSUME NEW o \in Runner, pc'[o] = "running"
      PROVE  Midway(o)'
  <2>1. CASE o # r
    BY <1>3, <2>1, OthersKeepTheirPlace DEF Step, Typed, Underway
  <2>2. CASE o = r
    <3>1. Plan(r)' = Plan(r) /\ (NothingToDo(r)' <=> NothingToDo(r))
      BY DEF Step, Plan, NothingToDo
    <3>2. step'[r] = step[r] + 1 /\ step[r] \in Nat /\ step[r] < Len(Plan(r))
      BY DEF Step, Ready, Typed
    <3>3. Midway(r) /\ UNCHANGED <<db, seen, command>>
      BY DEF Step, Ready, Underway
    <3>4. Len(Plan(r)) \in Nat
      BY PlansAreFinite DEF Plan
    <3>5. step'[r] <= Len(Plan(r))
      BY <3>2, <3>4
    <3> QED BY <2>2, <3>1, <3>3, <3>5 DEF Midway
  <2> QED BY <2>1, <2>2
<1> QED BY <1>1, <1>2, <1>3 DEF Underway

(* A commit leaves a whole schema.                                         *)
LEMMA CommitKeeps ==
    ASSUME IInv, NEW r \in Runner, Commit(r)
    PROVE  IInv'
<1> USE DEF IInv
<1>1. Midway(r)
  BY DEF Commit, Underway
<1>2. db' \in {db, {Log}, HeadSchema \cup {Log}}
  <2>1. command[r] \in {"upgrade", "downgrade"}
    BY DEF Typed
  <2> QED BY <1>1, <2>1, CommitIsWhole DEF Commit, Midway
<1>3. Whole'
  BY <1>2 DEF Whole
<1>4. PICK told \in {"ok", "crashed"} : End(r, told)
  BY DEF Commit
<1>5. Typed' /\ Told' /\ Underway'
  BY <1>2, <1>4, EndsCleanly
<1> QED BY <1>3, <1>5

(* Starting again changes nothing else.                                    *)
LEMMA RerunKeeps ==
    ASSUME IInv, NEW r \in Runner, Rerun(r)
    PROVE  IInv'
<1> USE DEF IInv
<1>1. Whole'
  BY DEF Rerun, Whole
<1>2. Typed' /\ Told'
  BY DEF Rerun, Goto, Typed, Told
<1>3. ASSUME NEW o \in Runner, pc'[o] = "running"
      PROVE  Midway(o)'
  <2>1. pc[o] = "running"
    BY <1>3 DEF Rerun, Goto, Typed
  <2> QED BY <2>1, OthersKeepTheirPlace DEF Rerun, Underway
<1> QED BY <1>1, <1>2, <1>3 DEF Underway

(* Every step keeps it.                                                    *)
LEMMA IInvIsInductive == IInv /\ [Next]_vars => IInv'
<1> SUFFICES ASSUME IInv, [Next]_vars PROVE IInv'
  OBVIOUS
<1>1. ASSUME NEW r \in Runner, NEW told \in {"failed", "crashed"}, End(r, told), UNCHANGED db
      PROVE  IInv'
  <2>1. Typed' /\ Told' /\ Underway'
    BY <1>1, EndsCleanly DEF IInv
  <2> QED BY <1>1, <2>1 DEF IInv, Whole
<1>2. ASSUME NEW r \in Runner, Start(r) PROVE IInv'
  BY <1>2, StartKeeps
<1>3. ASSUME NEW r \in Runner, Step(r) PROVE IInv'
  BY <1>3, StepKeeps
<1>4. ASSUME NEW r \in Runner, Refuse(r) PROVE IInv'
  BY <1>1, <1>4 DEF Refuse
<1>5. ASSUME NEW r \in Runner, Commit(r) PROVE IInv'
  BY <1>5, CommitKeeps
<1>6. ASSUME NEW r \in Runner, Crash(r) PROVE IInv'
  BY <1>1, <1>6 DEF Crash
<1>8. ASSUME NEW r \in Runner, Rerun(r) PROVE IInv'
  BY <1>8, RerunKeeps
<1>9. CASE UNCHANGED vars
  <2>1. UNCHANGED <<db, command, pc, seen, step, outcome>>
    BY <1>9 DEF vars
  <2>2. Typed' /\ Told' /\ Whole'
    BY <2>1 DEF IInv, Typed, Told, Whole
  <2>3. Underway'
    BY <2>1, OthersKeepTheirPlace DEF IInv, Underway
  <2> QED BY <2>2, <2>3 DEF IInv
<1> QED
  BY <1>2, <1>3, <1>4, <1>5, <1>6, <1>8, <1>9 DEF Next, Proceed, AllDone

(* The invariant holds in every state of every behaviour.                  *)
LEMMA AlwaysIInv == Spec => []IInv
<1>1. Init => IInv
  BY Initially
<1>2. IInv /\ [Next]_vars => IInv'
  BY IInvIsInductive
<1> QED BY <1>1, <1>2, PTL DEF Spec

-----------------------------------------------------------------------------
(* Refusals.                                                               *)

(* A migration that fails was overtaken: somebody else committed since it  *)
(* read the version (the orders of upgrade() and downgrade() of            *)
(* 0001_initial never meet a foreign key).                                 *)
THEOREM AloneNothingIsRefused == Spec => RefusedOnlyIfOvertaken
<1>1. ASSUME IInv, [Next]_vars, NEW r \in Runner, outcome[r] # "failed",
             outcome'[r] = "failed"
      PROVE  seen[r] # Current
  <2>0. \A o \in Runner : \A told : End(o, told) => outcome'[r] = IF o = r THEN told ELSE outcome[r]
    BY <1>1 DEF End, IInv, Typed
  <2>1. Refuse(r)
    <3>1. ~ UNCHANGED vars
      BY <1>1 DEF vars
    <3>2. PICK o \in Runner : Proceed(o) \/ Crash(o) \/ Rerun(o)
      BY <1>1, <3>1 DEF Next, AllDone
    <3>3. ~Step(o)
      BY <1>1 DEF Step
    <3>4. ~Rerun(o)
      BY <1>1, NullIsNoOutcome DEF Rerun, IInv, Typed
    <3>5. ~Crash(o)
      BY <1>1, <2>0 DEF Crash
    <3>6. ~Commit(o)
      BY <1>1, <2>0 DEF Commit
    <3>7. ~Start(o)
      BY <1>1, <2>0 DEF Start
    <3> QED BY <1>1, <2>0, <3>2, <3>3, <3>4, <3>5, <3>6, <3>7 DEF Proceed, Refuse
  <2>2. Midway(r) /\ step[r] < Len(Plan(r)) /\ ~Possible(r)
    BY <1>1, <2>1 DEF Refuse, Ready, IInv, Underway
  <2> QED BY <1>1, <2>2, PossibleUnlessOvertaken DEF IInv
<1>2. IInv /\ [Next]_vars
        => [\A r \in Runner :
              (outcome[r] # "failed" /\ outcome'[r] = "failed") => seen[r] # Current]_vars
  BY <1>1
<1> QED BY <1>2, AlwaysIInv, PTL DEF Spec, RefusedOnlyIfOvertaken

-----------------------------------------------------------------------------
(* The refinement of Revisions: each step moves the schema in one piece    *)
(* and tells what it did, or shows nothing.                                *)

reads == [r \in Runner |-> Read(r)]

(* The first states are first states.                                      *)
LEMMA BeginsAtBase == Init => Revision!Init
BY HeadWithoutLog DEF Init, Revision!Init, Read

(* Who does not take part in a step has read what it had read.             *)
LEMMA OthersHaveRead ==
    ASSUME NEW o, pc'[o] = pc[o], seen'[o] = seen[o]
    PROVE  Read(o)' = Read(o)
BY DEF Read

(* What the end of a transaction tells.                                    *)
LEMMA EndTells ==
    ASSUME IInv, NEW r \in Runner, NEW told, pc[r] # "done", End(r, told)
    PROVE  Revision!Tell(r, told)
<1>1. outcome[r] = NULL /\ outcome' = [outcome EXCEPT ![r] = told] /\ UNCHANGED command
  BY DEF IInv, Typed, Told, End
<1>2. \A o \in Runner \ {r} : Read(o)' = Read(o)
  <2>1. \A o \in Runner \ {r} : pc'[o] = pc[o] /\ seen'[o] = seen[o]
    BY DEF IInv, Typed, End, Goto
  <2> QED BY <2>1, OthersHaveRead
<1>3. Read(r)' = NULL
  <2>1. pc'[r] = "done"
    BY DEF IInv, Typed, End, Goto
  <2> QED BY <2>1 DEF Read
<1>4. reads' = [reads EXCEPT ![r] = NULL]
  BY <1>2, <1>3 DEF reads
<1> QED BY <1>1, <1>4 DEF Revision!Tell, reads

(* An end that leaves the schema alone: "ok" only if it is as asked, or    *)
(* was when it was read.                                                   *)
LEMMA EndStays ==
    ASSUME IInv, NEW r \in Runner, NEW told \in {"ok", "failed", "crashed"}, pc[r] # "done",
           End(r, told), db' \ {Log} = db \ {Log},
           told = "ok" => Revision!Target(r) \in {db \ {Log}, Read(r)}
    PROVE  Revision!Stay(r)
BY EndTells DEF Revision!Stay

(* Nothing to do means that the schema is as asked; otherwise it is read.  *)
LEMMA StartTells ==
    ASSUME IInv, NEW r \in Runner, Start(r)
    PROVE  Revision!Stay(r) \/ Revision!Look(r)
<1>0. Version # Log /\ Version \in HeadSchema
  BY FactsDiffer DEF Log, HeadSchema
<1> DEFINE AtTarget == Log \in db /\ (Version \in db <=> command[r] = "upgrade")
<1>1. CASE AtTarget
  <2>1. db \ {Log} = Revision!Target(r)
    BY <1>0, <1>1, HeadWithoutLog DEF IInv, Whole, Revision!Target
  <2>2. pc[r] # "done" /\ db' = db /\ End(r, "ok")
    BY <1>1 DEF Start
  <2> QED BY <2>1, <2>2, EndStays
<1>2. CASE ~AtTarget
  <2>1. /\ pc[r] = "new" /\ Goto(r, "running")
        /\ seen' = [seen EXCEPT ![r] = Current]
        /\ UNCHANGED <<db, command, outcome>>
    BY <1>2 DEF Start
  <2>2. outcome[r] = NULL
    BY <2>1 DEF IInv, Told, Typed
  <2>3. Read(r)' = db \ {Log}
    <3>1. pc'[r] = "running" /\ seen'[r] = Current
      BY <2>1 DEF IInv, Typed, Goto
    <3>2. Version \in Current <=> Version \in db
      BY DEF Current
    <3>3. db \ {Log} = IF Version \in db THEN HeadSchema ELSE {}
      BY <1>0, HeadWithoutLog DEF IInv, Whole
    <3> QED BY <3>1, <3>2, <3>3 DEF Read
  <2>4. \A o \in Runner \ {r} : Read(o)' = Read(o)
    <3>1. \A o \in Runner \ {r} : pc'[o] = pc[o] /\ seen'[o] = seen[o]
      BY <2>1 DEF IInv, Typed, Goto
    <3> QED BY <3>1, OthersHaveRead
  <2>5. reads' = [reads EXCEPT ![r] = db \ {Log}]
    BY <2>3, <2>4 DEF reads
  <2> QED BY <2>1, <2>2, <2>5 DEF Revision!Look, reads
<1> QED BY <1>1, <1>2

(* A commit moves the schema, or finds it moved, or had nothing to move.   *)
LEMMA CommitTells ==
    ASSUME IInv, NEW r \in Runner, Commit(r)
    PROVE  Revision!Move(r) \/ Revision!Stay(r)
<1>0. Midway(r) /\ pc[r] = "running" /\ step[r] = Len(Plan(r))
  BY DEF Commit, IInv, Underway
<1>1. PICK told \in {"ok", "crashed"} : End(r, told)
  BY DEF Commit
<1>2. Revision!Tell(r, told)
  BY <1>0, <1>1, EndTells
<1>3. CASE NothingToDo(r)
  <2>1. seen[r] = {} /\ command[r] = "downgrade"
    BY <1>0, <1>3, WhichPlan DEF IInv
  <2>2. Revision!Target(r) = {} /\ Read(r) = {}
    BY <1>0, <2>1 DEF Revision!Target, Read
  <2>3. db' = db
    BY <1>3 DEF Commit
  <2> QED BY <1>0, <1>1, <2>2, <2>3, EndStays
<1>4. CASE ~NothingToDo(r)
  <2>1. db' \ {Log} = Revision!Target(r)
    <3>1. db' = View(r)
      BY <1>4 DEF Commit
    <3>2. command[r] \in {"upgrade", "downgrade"}
      BY DEF IInv, Typed
    <3> QED BY <1>0, <1>4, <3>1, <3>2, CommitIsWhole, HeadWithoutLog
            DEF IInv, Revision!Target
  <2>2. CASE db \ {Log} = Revision!Target(r)
    BY <1>0, <1>1, <2>1, <2>2, EndStays
  <2>3. CASE db \ {Log} # Revision!Target(r)
    <3>1. db \ {Log} \in {{}, HeadSchema}
      BY HeadWithoutLog DEF IInv, Whole
    <3>2. Read(r) \in {{}, HeadSchema} /\ Read(r) # Revision!Target(r)
      <4>1. Version \in seen[r] <=> command[r] # "upgrade"
        BY <1>4 DEF NothingToDo
      <4> QED BY <1>0, <4>1, HeadWithoutLog DEF Read, Revision!Target
    <3>3. Revision!Target(r) \in {{}, HeadSchema}
      BY DEF Revision!Target
    <3>4. db \ {Log} = Read(r)
      BY <2>3, <3>1, <3>2, <3>3
    <3> QED BY <1>2, <2>1, <2>3, <3>4 DEF Revision!Move
  <2> QED BY <2>2, <2>3
<1> QED BY <1>3, <1>4

(* Starting again forgets what was told; nothing had been read.            *)
LEMMA RerunTells ==
    ASSUME IInv, NEW r \in Runner, Rerun(r)
    PROVE  Revision!Again(r)
<1>1. \A o \in Runner : Read(o)' = Read(o)
  <2>1. \A o \in Runner \ {r} : pc'[o] = pc[o] /\ seen'[o] = seen[o]
    BY DEF Rerun, IInv, Typed, Goto
  <2>2. Read(r)' = NULL /\ Read(r) = NULL
    BY DEF Rerun, IInv, Typed, Goto, Read
  <2> QED BY <2>1, <2>2, OthersHaveRead
<1>2. reads' = reads
  BY <1>1 DEF reads
<1> QED BY <1>2 DEF Rerun, Revision!Again, IInv, Told, reads

(* Every step of a runner is a step of the promise, or is not seen by it.  *)
LEMMA StepsAreWhole ==
    ASSUME IInv, [Next]_vars
    PROVE  [Revision!Next]_<<db \ {Log}, command, reads, outcome>>
<1>1. CASE UNCHANGED vars
  <2>1. reads' = reads
    BY <1>1 DEF vars, reads, Read
  <2> QED BY <1>1, <2>1 DEF vars
<1>2. ASSUME NEW r \in Runner, Proceed(r) \/ Crash(r) \/ Rerun(r)
      PROVE  [Revision!Next]_<<db \ {Log}, command, reads, outcome>>
  <2>1. CASE Start(r)
    BY <2>1, StartTells DEF Revision!Next
  <2>2. CASE Step(r)
    <3>1. reads' = reads
      BY <2>2 DEF Step, reads, Read
    <3> QED BY <2>2, <3>1 DEF Step
  <2>3. CASE Refuse(r)
    <3>1. Revision!Stay(r)
      BY <2>3, EndStays DEF Refuse, Ready
    <3> QED BY <3>1 DEF Revision!Next
  <2>4. CASE Commit(r)
    BY <2>4, CommitTells DEF Revision!Next
  <2>5. CASE Crash(r)
    <3>1. Revision!Stay(r)
      BY <2>5, EndStays DEF Crash
    <3> QED BY <3>1 DEF Revision!Next
  <2>6. CASE Rerun(r)
    BY <2>6, RerunTells DEF Revision!Next
  <2> QED BY <1>2, <2>1, <2>2, <2>3, <2>4, <2>5, <2>6 DEF Proceed
<1> QED BY <1>1, <1>2 DEF Next, AllDone

(* However runs overlap, die, lose the answer to COMMIT or are started     *)
(* again: the schema moves between nothing and 0001_initial in one piece,  *)
(* and every run reports what it did (env.py's promise not to leave the    *)
(* chain half-applied).                                                    *)
THEOREM EveryMigrationIsWhole == Spec => MigrationsAreWhole
<1>1. Init => Revision!Init
  BY BeginsAtBase
<1>2. IInv /\ [Next]_vars => [Revision!Next]_<<db \ {Log}, command, [r \in Runner |-> Read(r)], outcome>>
  BY StepsAreWhole DEF reads
<1> QED BY <1>1, <1>2, AlwaysIInv, PTL DEF Spec, MigrationsAreWhole, Revision!Spec
=============================================================================
