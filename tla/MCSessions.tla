----------------------------- MODULE MCSessions -----------------------------
(***************************************************************************)
(* Three requests through a pool of two connections, over one tenant with  *)
(* a user, a role granted to nobody yet and a refresh token, a second      *)
(* tenant the user may be moved to, and three signing keys of which g1     *)
(* signs while g2 and g3 are published and wait.                           *)
(***************************************************************************)
EXTENDS Sessions, TLC, Functions

CONSTANTS q1, q2, q3, t1, t2, u1, u2, r1, k1, k2, k3, h1, h2, h3, g1, g2, g3,
          fam, e1, e2, now, later

MCSession == {q1, q2, q3}

MCSlugs == {t1, t2}

MCValue == {NULL, t1, t2, u1, u2, r1, k1, k2, k3, h1, h2, h3, g1, g2, g3, fam, e1, e2,
            now, later, "active", "lead", "tutor", "rotated",
            "pending", "retiring", "revoked"}

Ins(t, r) == [op |-> "insert", table |-> t, row |-> r]
Upd(t, w, p) == [op |-> "update", table |-> t, where |-> w, set |-> p]
Del(t, w) == [op |-> "delete", table |-> t, where |-> w]

User(id, tenant, email) ==
    [id |-> id, tenant_id |-> tenant, email_normalized |-> email,
     status |-> "active", deleted_at |-> NULL]

Token(id, parent, hash) ==
    [id |-> id, family_id |-> fam, user_id |-> u1, tenant_id |-> t1, token_hash |-> hash,
     parent_id |-> parent, expires_at |-> later, used_at |-> NULL, revoked_at |-> NULL,
     revoked_reason |-> NULL]

MCInitial ==
    Replay(<<Ins("tenants", [id |-> t1, slug |-> t1, status |-> "active"]),
             Ins("tenants", [id |-> t2, slug |-> t2, status |-> "active"]),
             Ins("role_templates", [key |-> "tutor"]),
             Ins("users", User(u1, t1, e1)),
             Ins("roles", [id |-> r1, tenant_id |-> t1, key |-> "lead", template_key |-> "tutor"]),
             Ins("refresh_tokens", Token(k1, NULL, h1)),
             Ins("signing_keys", [kid |-> g1, status |-> "active"]),
             Ins("signing_keys", [kid |-> g2, status |-> "pending"]),
             Ins("signing_keys", [kid |-> g3, status |-> "pending"])>>, Empty)

Grant    == Ins("user_roles", [user_id |-> u1, role_id |-> r1, tenant_id |-> t1])
Move     == Upd("users", [id |-> u1], [tenant_id |-> t2])
Readdress == Upd("users", [id |-> u1], [email_normalized |-> e2])
GiveBack == Upd("users", [id |-> u1], [email_normalized |-> e1])
SoftDelete == Upd("users", [id |-> u1], [deleted_at |-> now])
Invite   == Ins("users", User(u2, t1, e1))
InviteNew == Ins("users", User(u2, t1, e2))
Erase    == Del("users", [id |-> u1])
DropRole == Del("roles", [id |-> r1])
DropTemplate == Del("role_templates", [key |-> "tutor"])
(* Redemption: "a single atomic UPDATE", then the successor is appended.   *)
Spend    == Upd("refresh_tokens", [id |-> k1, used_at |-> NULL],
                [used_at |-> now, revoked_reason |-> "rotated"])
Rotate   == Ins("refresh_tokens", Token(k2, k1, h2))
RotateToo == Ins("refresh_tokens", Token(k3, k1, h3))
Replayed == Ins("refresh_tokens", Token(k2, NULL, h1))
Reap     == Del("refresh_tokens", [id |-> k1])

Requests ==
    << <<Grant>>, <<Move>>, <<SoftDelete, Invite>>, <<Invite, Readdress>>, <<Erase>>,
      <<Readdress, GiveBack>>, <<InviteNew>>, <<DropRole, Reap>>, <<DropTemplate>>,
      <<Spend, Rotate>>, <<Spend, RotateToo>>, <<Replayed>>, <<Reap, Grant>> >>

SetKey(k, status) == Upd("signing_keys", [kid |-> k], [status |-> status])

(* Two rotations to different keys, one that rotates on from g2, and one   *)
(* that promotes before it retires.                                        *)
Rotations ==
    << <<SetKey(g1, "retiring"), SetKey(g2, "active")>>,
      <<SetKey(g1, "revoked"), SetKey(g3, "active")>>,
      <<SetKey(g2, "retiring"), SetKey(g3, "active")>>,
      <<SetKey(g3, "active"), SetKey(g1, "retiring")>> >>

MCPrograms == Range(Requests) \cup Range(Rotations)

(* Who runs what does not matter, only which programs meet.  Of the        *)
(* thirteen requests any two meet in one of the first triples (a Steiner   *)
(* system, from two difference sets modulo 13); those that use an address  *)
(* twice or redeem a token meet themselves as well.                        *)
Three(programs, i, j, k) == q1 :> programs[i] @@ q2 :> programs[j] @@ q3 :> programs[k]

Turn(i, n) == 1 + ((i + n - 1) % 13)

MCWorkloads ==
    {Three(Requests, i, Turn(i, 1), Turn(i, 4)) : i \in 1..13}
      \cup {Three(Requests, i, Turn(i, 2), Turn(i, 7)) : i \in 1..13}
      \cup {Three(Requests, i, i, Turn(i, 1)) : i \in {4, 6, 10}}
      \cup {Three(Rotations, x[1], x[2], x[3]) :
              x \in {y \in (1..4) \X (1..4) \X (1..4) : y[1] <= y[2] /\ y[2] <= y[3]}}

(* They are of the kind CommitsImplementSerial is about.                   *)
ASSUME RowsAreNamed == ProgramsNameRows

(* They are of the kind RotationsKeepOneKey is about.                      *)
ASSUME OneIsPromoted == RotationsPromote
=============================================================================
