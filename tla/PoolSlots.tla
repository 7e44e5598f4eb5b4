------------------------------ MODULE PoolSlots -----------------------------
(***************************************************************************)
(* What a connection pool promises those who ask it for a connection: at   *)
(* most "limit" hold one at a time, and only those wait, or are turned     *)
(* away, who came while that many did.                                     *)
(***************************************************************************)
EXTENDS Naturals, FiniteSets

CONSTANTS Client, Unlimited

VARIABLES
    limit,      \* how many may hold a connection, or Unlimited
    holders,    \* who has one, or one being opened
    waiting,    \* who waits for one
    turnedAway  \* who asked in vain

Full == limit # Unlimited /\ Cardinality(holders) >= limit

Init == holders = {} /\ waiting = {} /\ turnedAway = {}

Take(c) ==
    /\ c \notin holders
    /\ ~Full
    /\ holders' = holders \cup {c}
    /\ waiting' = waiting \ {c}
    /\ turnedAway' = turnedAway \ {c}
    /\ UNCHANGED limit

Give(c) ==
    /\ c \in holders
    /\ holders' = holders \ {c}
    /\ UNCHANGED <<limit, waiting, turnedAway>>

Wait(c) ==
    /\ c \notin holders
    /\ Full
    /\ waiting' = waiting \cup {c}
    /\ turnedAway' = turnedAway \ {c}
    /\ UNCHANGED <<limit, holders>>

TurnAway(c) ==
    /\ c \in waiting \/ (c \notin holders /\ Full)
    /\ waiting' = waiting \ {c}
    /\ turnedAway' = turnedAway \cup {c}
    /\ UNCHANGED <<limit, holders>>

GiveUp(c) ==
    /\ c \in waiting
    /\ waiting' = waiting \ {c}
    /\ UNCHANGED <<limit, holders, turnedAway>>

Next == \E c \in Client : Take(c) \/ Give(c) \/ Wait(c) \/ TurnAway(c) \/ GiveUp(c)

Spec == Init /\ [][Next]_<<limit, holders, waiting, turnedAway>>
=============================================================================
