--------------------------- MODULE ServiceProofs ----------------------------
(***************************************************************************)
(* The pool of a process loses no connection and is a PoolSlots, for any   *)
(* number of requests, any sizes of the pool and any number of outages and *)
(* cancellations.  Then: idle loss is nobody's error.                      *)
(***************************************************************************)
EXTENDS Service, FiniteSetTheorems, TLAPS

Failures == {"turned_away", "unreachable", "disconnected", "cancelled"}
Outcomes == {"none", "answered"} \cup Failures

Typed ==
    /\ DOMAIN settings = DOMAIN Defaults
    /\ size \in Int
    /\ settings.db_max_overflow \in Int
    /\ fresh \in Nat /\ stale \in Nat /\ overflow \in Int
    /\ pc \in [Client -> Places]
    /\ outcome \in [Client -> Outcomes]

(* The connections that exist are within the limit.                        *)
WithinLimit == max_overflow # -1 => overflow + size <= Limit

(* An outcome is that of a use that is over.                               *)
NoneYet == \A c \in Client : pc[c] # "away" => outcome[c] = "none"

(* SlotsAreConserved alone does not bound the holders; WithinLimit does.   *)
IInv == Typed /\ SlotsAreConserved /\ WithinLimit /\ NoneYet

-----------------------------------------------------------------------------
(* The bound follows from the counter: as many as the pool may open, less  *)
(* those that lie in the queue.                                            *)
LEMMA LimitIsNumber ==
    ASSUME Typed, max_overflow # -1
    PROVE  /\ max_overflow \in Int
           /\ Limit \in Nat
           /\ Limit # NULL
           /\ Limit >= size + max_overflow
           /\ Limit = size + max_overflow \/ Limit = 0
<1>1. max_overflow \in Int
  BY DEF Typed, max_overflow
<1> QED BY <1>1, ServiceAssumption DEF Typed, Limit

(* Without a limit it is not a number.                                     *)
LEMMA NoLimit ==
    ASSUME max_overflow = -1
    PROVE  Limit = NULL
BY DEF Limit

(* Some clients have a connection; there are finitely many.                *)
LEMMA HoldersFinite == IsFiniteSet(holders) /\ Cardinality(holders) \in Nat
<1>1. holders \in SUBSET Client
  BY DEF holders
<1> QED BY <1>1, ServiceAssumption, FS_Subset, FS_CardinalityType

(* A client that gets a connection makes one holder more.                  *)
LEMMA Enters ==
    ASSUME pc \in [Client -> Places], NEW c \in Client, NEW place \in Holding,
           pc[c] \notin Holding, Goto(c, place)
    PROVE  /\ c \notin holders
           /\ holders' = holders \cup {c}
           /\ Cardinality(holders') = Cardinality(holders) + 1
<1>1. c \notin holders /\ holders' = holders \cup {c}
  BY DEF holders, Goto
<1> QED BY <1>1, HoldersFinite, FS_AddElement

(* A client that leaves makes one less.                                    *)
LEMMA Leaves ==
    ASSUME pc \in [Client -> Places], NEW c \in Client, NEW place \in Places \ Holding,
           pc[c] \in Holding, Goto(c, place)
    PROVE  /\ c \in holders
           /\ holders' = holders \ {c}
           /\ Cardinality(holders') = Cardinality(holders) - 1
<1>1. c \in holders /\ holders' = holders \ {c}
  BY DEF holders, Goto
<1> QED BY <1>1, HoldersFinite, FS_RemoveElement

(* A client that goes on without getting or giving back leaves them alone. *)
LEMMA Keeps ==
    ASSUME pc \in [Client -> Places], NEW c \in Client, NEW place,
           pc[c] \in Holding <=> place \in Holding, Goto(c, place)
    PROVE  holders' = holders
BY DEF holders, Goto

(* The settings a process loads have the pool of its environment.          *)
LEMMA LoadKeepsPool ==
    ASSUME Typed, Load
    PROVE  /\ DOMAIN settings' = DOMAIN Defaults
           /\ settings'.db_pool_size = settings.db_pool_size
           /\ settings'.db_max_overflow = settings.db_max_overflow
<1>1. {"db_pool_size", "db_max_overflow"} \subseteq DOMAIN settings
  BY DEF Typed, Defaults
<1> QED BY <1>1 DEF Typed, Load, Loaded
-----------------------------------------------------------------------------
(* What a connection from the queue does to the counts.                    *)
LEMMA CheckOutCounts ==
    ASSUME Typed, NEW c \in Client, CheckOut(c)
    PROVE  /\ fresh' \in Nat /\ stale' \in Nat /\ overflow' = overflow
           /\ fresh' + stale' = fresh + stale - 1
           /\ fresh + stale > 0
           /\ \E place \in Holding : Goto(c, place)
BY DEF CheckOut, Typed, Holding

(* What a connection given back does to them.                              *)
LEMMA CheckInCounts ==
    ASSUME Typed, NEW usable \in BOOLEAN, CheckIn(usable)
    PROVE  /\ fresh' \in Nat /\ stale' \in Nat /\ overflow' \in Int
           /\ overflow' <= overflow
           /\ overflow' + fresh + stale + 1 = overflow + fresh' + stale'
<1>1. CASE size > 0 /\ fresh + stale >= size
  BY <1>1 DEF CheckIn, Typed
<1>2. CASE ~(size > 0 /\ fresh + stale >= size) /\ ~usable
  <2>1. overflow' = overflow /\ stale' = stale + 1 /\ fresh' = fresh
    BY <1>2 DEF CheckIn
  <2> QED BY <2>1 DEF Typed
<1>3. CASE ~(size > 0 /\ fresh + stale >= size) /\ usable
  <2>1. overflow' = overflow /\ fresh' = fresh + 1 /\ stale' = stale
    BY <1>3 DEF CheckIn
  <2> QED BY <2>1 DEF Typed
<1> QED BY <1>1, <1>2, <1>3

(* The steps in which a client gets a connection, or one to wait for: what *)
(* they do to the pool.                                                    *)
LEMMA OpenCounts ==
    ASSUME Typed, WithinLimit, NEW c \in Client, Open(c)
    PROVE  /\ overflow' = overflow + 1 /\ fresh' = fresh /\ stale' = stale
           /\ overflow' \in Int
           /\ max_overflow # -1 => overflow < max_overflow
           /\ Goto(c, "opening")
BY LimitIsNumber DEF Open, AtLimit, Typed

(* Nobody changes the settings after they are loaded.                      *)
LEMMA SettingsStay ==
    ASSUME Typed, UNCHANGED settings
    PROVE  size' = size /\ max_overflow' = max_overflow /\ Limit' = Limit
BY DEF size, max_overflow, Limit

(* A client that takes part in a step: the rest of the typing.             *)
LEMMA MovesAreTyped ==
    ASSUME Typed, NoneYet, UNCHANGED settings, NEW c \in Client, NEW place \in Places, Goto(c, place),
           fresh' \in Nat, stale' \in Nat, overflow' \in Int,
           \/ outcome' = [outcome EXCEPT ![c] = "none"]
           \/ UNCHANGED outcome /\ pc[c] # "away"
           \/ /\ place = "away"
              /\ \E how \in {"answered"} \cup Failures :
                    outcome' = [outcome EXCEPT ![c] = how]
    PROVE  Typed' /\ NoneYet'
<1>1. Typed'
  BY DEF Typed, Goto, size, Outcomes
<1>2. NoneYet'
  BY DEF Typed, NoneYet, Goto
<1> QED BY <1>1, <1>2

-----------------------------------------------------------------------------
(* What a step of one client does to the pool and to who holds, waits and  *)
(* was turned away.                                                        *)

waiters == {c \in Client : pc[c] = "waiting"}
refused == {c \in Client : outcome[c] = "turned_away"}

(* An instance counts as its surroundings do.                              *)
LEMMA SameCardinality == \A S : Slots!Cardinality(S) = Cardinality(S)
BY DEF Cardinality, Slots!Cardinality

(* What PoolSlots sees of a process.                                       *)
slots == <<Limit, holders, waiters, refused>>

(* A client takes a connection out of the queue: a slot is taken while one *)
(* is free.                                                                *)
LEMMA CheckOutTakes ==
    ASSUME IInv, NEW c \in Client, CheckOut(c), UNCHANGED settings,
           pc[c] \in {"away", "waiting"},
           \/ outcome' = [outcome EXCEPT ![c] = "none"]
           \/ UNCHANGED outcome /\ pc[c] # "away"
    PROVE  IInv' /\ Slots!Take(c)
<1> USE DEF IInv
<1>1. size' = size /\ max_overflow' = max_overflow /\ Limit' = Limit
  BY SettingsStay
<1>2. PICK place \in Holding : Goto(c, place)
  BY CheckOutCounts
<1>3. /\ c \notin holders /\ holders' = holders \cup {c}
      /\ Cardinality(holders') = Cardinality(holders) + 1
  BY <1>2, Enters DEF Typed, Holding
<1>4. Cardinality(holders) \in Nat
  BY HoldersFinite
<1>5. Typed' /\ NoneYet'
  BY <1>2, CheckOutCounts, MovesAreTyped DEF Typed, Places
<1>6. SlotsAreConserved' /\ WithinLimit'
  BY <1>1, <1>3, <1>4, CheckOutCounts DEF SlotsAreConserved, WithinLimit, Typed
<1>7. ~Slots!Full
  <2>1. /\ overflow + size > Cardinality(holders)
        /\ overflow \in Int /\ size \in Int
    BY <1>4, CheckOutCounts DEF SlotsAreConserved, Typed
  <2>2. max_overflow # -1 => Limit \in Int /\ Limit > Cardinality(holders)
    BY <1>4, <2>1, LimitIsNumber DEF WithinLimit
  <2>3. max_overflow = -1 => Limit = NULL
    BY NoLimit
  <2> QED BY <1>4, <2>2, <2>3, SameCardinality DEF Slots!Full
<1>8. waiters' = waiters \ {c}
  BY <1>2 DEF waiters, Goto, Typed, Holding
<1>9. refused' = refused \ {c}
  BY DEF refused, Typed, NoneYet
<1> QED BY <1>1, <1>3, <1>5, <1>6, <1>7, <1>8, <1>9 DEF Slots!Take, waiters, refused

(* Likewise when a new connection is to be opened.                         *)
LEMMA OpenTakes ==
    ASSUME IInv, NEW c \in Client, Open(c), UNCHANGED settings,
           pc[c] \in {"away", "waiting"},
           \/ outcome' = [outcome EXCEPT ![c] = "none"]
           \/ UNCHANGED outcome /\ pc[c] # "away"
    PROVE  IInv' /\ Slots!Take(c)
<1> USE DEF IInv
<1>1. size' = size /\ max_overflow' = max_overflow /\ Limit' = Limit
  BY SettingsStay
<1>2. Goto(c, "opening")
  BY OpenCounts
<1>3. /\ c \notin holders /\ holders' = holders \cup {c}
      /\ Cardinality(holders') = Cardinality(holders) + 1
  BY <1>2, Enters DEF Typed, Holding
<1>4. Cardinality(holders) \in Nat
  BY HoldersFinite
<1>5. Typed' /\ NoneYet'
  BY <1>2, OpenCounts, MovesAreTyped DEF Typed, Places, Holding
<1>6. SlotsAreConserved'
  BY <1>1, <1>3, <1>4, OpenCounts DEF SlotsAreConserved, Typed
<1>7. ASSUME max_overflow # -1
      PROVE  overflow + 1 + size <= Limit
  <2>1. overflow < max_overflow
    BY <1>7, OpenCounts
  <2>2. max_overflow \in Int
    BY <1>7, LimitIsNumber
  <2>3. Limit \in Nat /\ Limit >= size + max_overflow
    BY <1>7, LimitIsNumber
  <2>4. overflow \in Int /\ size \in Int
    BY DEF Typed
  <2> QED BY <2>1, <2>2, <2>3, <2>4
<1>8. WithinLimit'
  <2>1. overflow' = overflow + 1
    BY OpenCounts
  <2> QED BY <1>1, <1>7, <2>1 DEF WithinLimit
<1>9. ~Slots!Full
  <2>1. /\ overflow + size >= Cardinality(holders)
        /\ overflow \in Int /\ size \in Int /\ Cardinality(holders) \in Int
    BY <1>4 DEF SlotsAreConserved, Typed
  <2>2. max_overflow # -1 => Limit \in Int /\ Limit > Cardinality(holders)
    BY <1>7, <2>1, LimitIsNumber
  <2>3. max_overflow = -1 => Limit = NULL
    BY NoLimit
  <2> QED BY <2>1, <2>2, <2>3, SameCardinality DEF Slots!Full
<1>10. waiters' = waiters \ {c}
  BY <1>2 DEF waiters, Goto, Typed
<1>11. refused' = refused \ {c}
  BY DEF refused, Typed, NoneYet
<1> QED BY <1>1, <1>3, <1>5, <1>6, <1>8, <1>9, <1>10, <1>11 DEF Slots!Take, waiters, refused

(* At its limit with nothing queued the pool is full.                      *)
LEMMA EmptyAtLimit ==
    ASSUME IInv, fresh + stale = 0, AtLimit
    PROVE  Slots!Full
<1>1. /\ Cardinality(holders) \in Nat
      /\ Cardinality(holders) = overflow + size
  BY HoldersFinite DEF IInv, Typed, SlotsAreConserved
<1>2. max_overflow # -1 /\ overflow >= max_overflow
  BY DEF AtLimit
<1>3. /\ max_overflow \in Int /\ Limit \in Nat /\ Limit # NULL
      /\ Limit = size + max_overflow \/ Limit = 0
  <2>1. Typed
    BY DEF IInv
  <2>2. max_overflow \in Int
    BY <1>2, <2>1, LimitIsNumber
  <2>3. Limit \in Nat /\ Limit # NULL
    BY <1>2, <2>1, LimitIsNumber
  <2>4. Limit = size + max_overflow \/ Limit = 0
    BY <1>2, <2>1, LimitIsNumber
  <2> QED BY <2>2, <2>3, <2>4
<1>4. overflow \in Int /\ size \in Int
  BY DEF IInv, Typed
<1>5. Cardinality(holders) >= Limit
  BY <1>1, <1>2, <1>3, <1>4
<1> QED BY <1>3, <1>5, SameCardinality DEF Slots!Full

(* A client that is not given a connection, and does not wait for one,     *)
(* leaves with an outcome: the pool is as it was.                          *)
LEMMA GoesWithout ==
    ASSUME IInv, NEW c \in Client, pc[c] \in {"away", "waiting"}, UNCHANGED settings,
           NEW how \in Failures, Fail(c, how), UNCHANGED pool,
           how = "turned_away" => pc[c] = "waiting" \/ Slots!Full,
           how # "turned_away" => pc[c] = "waiting"
    PROVE  IInv' /\ Slots!Next
<1> USE DEF IInv
<1>1. /\ Goto(c, "away") /\ fresh' = fresh /\ stale' = stale /\ overflow' = overflow
      /\ outcome' = [outcome EXCEPT ![c] = how]
  BY DEF Fail, pool
<1>2. size' = size /\ max_overflow' = max_overflow /\ Limit' = Limit
  BY SettingsStay
<1>3. c \notin holders /\ holders' = holders
  BY <1>1, Keeps DEF Typed, Holding, holders
<1>4. fresh' \in Nat /\ stale' \in Nat /\ overflow' \in Int
  BY <1>1 DEF Typed
<1>5. Typed' /\ NoneYet'
  BY <1>1, <1>4, MovesAreTyped DEF Places
<1>6. SlotsAreConserved' /\ WithinLimit'
  BY <1>1, <1>2, <1>3 DEF SlotsAreConserved, WithinLimit
<1>7. waiters' = waiters \ {c}
  BY <1>1 DEF waiters, Goto, Typed
<1>8. CASE how = "turned_away"
  <2>1. refused' = refused \cup {c}
    BY <1>1, <1>8 DEF refused, Typed
  <2>2. c \in waiters \/ Slots!Full
    BY <1>8 DEF waiters
  <2>3. Slots!TurnAway(c)
    BY <1>2, <1>3, <1>7, <2>1, <2>2 DEF Slots!TurnAway, waiters, refused
  <2> QED BY <1>5, <1>6, <2>3 DEF Slots!Next
<1>9. CASE how # "turned_away"
  <2>1. outcome[c] = "none"
    BY <1>9 DEF NoneYet
  <2>2. refused' = refused
    BY <1>1, <1>9, <2>1 DEF refused, Typed
  <2>3. c \in waiters
    BY <1>9 DEF waiters
  <2>4. Slots!GiveUp(c)
    BY <1>2, <1>3, <1>7, <2>2, <2>3 DEF Slots!GiveUp, waiters, refused
  <2> QED BY <1>5, <1>6, <2>4 DEF Slots!Next
<1> QED BY <1>8, <1>9

(* Asking takes a slot, or waits or is refused because all are taken.      *)
LEMMA AskKeeps ==
    ASSUME IInv, NEW c \in Client, Ask(c)
    PROVE  IInv' /\ Slots!Next
<1> USE DEF IInv
<1>1. pc[c] = "away" /\ UNCHANGED settings
  BY DEF Ask, process
<1>2. CASE CheckOut(c) /\ Start(c)
  BY <1>1, <1>2, CheckOutTakes DEF Slots!Next, Start
<1>3. CASE Open(c) /\ Start(c)
  BY <1>1, <1>3, OpenTakes DEF Slots!Next, Start
<1>4. CASE fresh + stale = 0 /\ Wait(c) /\ Start(c)
  <2>1. /\ Goto(c, "waiting") /\ fresh' = fresh /\ stale' = stale /\ overflow' = overflow
        /\ outcome' = [outcome EXCEPT ![c] = "none"]
    BY <1>4 DEF Wait, Start, pool
  <2>2. size' = size /\ max_overflow' = max_overflow /\ Limit' = Limit
    BY <1>1, SettingsStay
  <2>3. c \notin holders /\ holders' = holders
    BY <1>1, <2>1, Keeps DEF Typed, Holding, holders
  <2>4. Typed' /\ NoneYet'
    BY <1>1, <2>1, MovesAreTyped DEF Typed, Places
  <2>5. SlotsAreConserved' /\ WithinLimit'
    BY <2>1, <2>2, <2>3 DEF SlotsAreConserved, WithinLimit
  <2>6. Slots!Full
    BY <1>4, EmptyAtLimit DEF Wait
  <2>7. waiters' = waiters \cup {c} /\ refused' = refused \ {c}
    BY <1>1, <2>1 DEF waiters, refused, Goto, Typed
  <2>8. Slots!Wait(c)
    BY <2>2, <2>3, <2>6, <2>7 DEF Slots!Wait, waiters, refused
  <2> QED BY <2>4, <2>5, <2>8 DEF Slots!Next
<1>5. CASE fresh + stale = 0 /\ Recurse(c)
  <2>1. Fail(c, "turned_away") /\ UNCHANGED pool /\ Slots!Full
    BY <1>5, EmptyAtLimit DEF Recurse
  <2> QED BY <1>1, <2>1, GoesWithout DEF Failures
<1> QED BY <1>2, <1>3, <1>4, <1>5 DEF Ask

(* One who waits gets what comes back, or opens, or is turned away.        *)
LEMMA WaitersKeep ==
    ASSUME IInv, NEW c \in Client, Woken(c) \/ Expire(c)
    PROVE  IInv' /\ Slots!Next
<1> USE DEF IInv
<1>1. pc[c] = "waiting" /\ UNCHANGED settings
  BY DEF Woken, Expire, process
<1>2. CASE Woken(c)
  BY <1>1, <1>2, CheckOutTakes DEF Slots!Next, Woken
<1>3. CASE Open(c) /\ UNCHANGED outcome
  BY <1>1, <1>3, OpenTakes DEF Slots!Next
<1>4. CASE Fail(c, "turned_away") /\ UNCHANGED <<pool, broken>>
  BY <1>1, <1>4, GoesWithout DEF Failures
<1> QED BY <1>2, <1>3, <1>4 DEF Expire

(* A connection that is made changes nothing outside.                      *)
LEMMA ConnectedKeeps ==
    ASSUME IInv, NEW c \in Client, Connected(c)
    PROVE  IInv' /\ UNCHANGED slots
<1> USE DEF IInv
<1>1. /\ pc[c] \in {"opening", "renewing"} /\ Goto(c, "working")
      /\ UNCHANGED <<settings, fresh, stale, overflow, outcome>>
  BY DEF Connected, process, pool
<1>2. size' = size /\ max_overflow' = max_overflow /\ Limit' = Limit
  BY <1>1, SettingsStay
<1>3. holders' = holders
  BY <1>1, Keeps DEF Typed, Holding
<1>4. Typed' /\ NoneYet'
  BY <1>1, MovesAreTyped DEF Typed, Places, Holding
<1>5. waiters' = waiters /\ refused' = refused
  BY <1>1 DEF waiters, refused, Goto, Typed
<1> QED BY <1>1, <1>2, <1>3, <1>4, <1>5 DEF SlotsAreConserved, WithinLimit, slots

(* A client leaves: with its connection goes exactly one slot.             *)
LEMMA GivesBack ==
    ASSUME IInv, NEW c \in Client, pc[c] \in Holding, UNCHANGED settings,
           NEW how \in {"answered"} \cup (Failures \ {"turned_away"}), Fail(c, how),
           fresh' \in Nat, stale' \in Nat, overflow' \in Int,
           overflow' <= overflow,
           overflow' + fresh + stale + 1 = overflow + fresh' + stale'
    PROVE  IInv' /\ Slots!Give(c)
<1> USE DEF IInv
<1>1. Goto(c, "away") /\ outcome' = [outcome EXCEPT ![c] = how]
  BY DEF Fail
<1>2. size' = size /\ max_overflow' = max_overflow /\ Limit' = Limit
  BY SettingsStay
<1>3. /\ c \in holders /\ holders' = holders \ {c}
      /\ Cardinality(holders') = Cardinality(holders) - 1
  BY <1>1, Leaves DEF Typed, Holding, Places
<1>4. Typed' /\ NoneYet'
  BY <1>1, MovesAreTyped DEF Typed, Places
<1>5. SlotsAreConserved' /\ WithinLimit'
  <2>1. SlotsAreConserved'
    <3>1. Cardinality(holders) \in Nat
      BY HoldersFinite
    <3>2. overflow + size = fresh + stale + Cardinality(holders)
      BY DEF SlotsAreConserved
    <3>3. /\ overflow \in Int /\ size \in Int /\ fresh \in Nat /\ stale \in Nat
          /\ fresh' \in Nat /\ stale' \in Nat /\ overflow' \in Int
      BY DEF Typed
    <3>4. overflow' + size = fresh' + stale' + (Cardinality(holders) - 1)
      BY <3>1, <3>2, <3>3
    <3> QED BY <1>2, <1>3, <3>4 DEF SlotsAreConserved
  <2>2. max_overflow # -1 => overflow' + size <= Limit
    BY LimitIsNumber DEF WithinLimit, Typed
  <2> QED BY <1>2, <2>1, <2>2 DEF WithinLimit
<1>6. waiters' = waiters
  BY <1>1 DEF waiters, Goto, Typed, Holding
<1>7. outcome[c] = "none"
  BY DEF NoneYet, Holding
<1>8. refused' = refused
  BY <1>1, <1>7 DEF refused, Typed
<1> QED BY <1>2, <1>3, <1>4, <1>5, <1>6, <1>8 DEF Slots!Give, waiters, refused

(* Those who never got theirs give back the slot of it.                    *)
LEMMA AbandonCounts ==
    ASSUME Typed, NEW c \in Client, Abandon(c)
    PROVE  /\ pc[c] \in Holding
           /\ fresh' \in Nat /\ stale' \in Nat /\ overflow' \in Int
           /\ overflow' <= overflow
           /\ overflow' + fresh + stale + 1 = overflow + fresh' + stale'
<1>1. CASE pc[c] = "opening" /\ overflow' = overflow - 1 /\ UNCHANGED <<fresh, stale>>
  BY <1>1 DEF Typed, Holding
<1>2. CASE pc[c] = "renewing" /\ CheckIn(FALSE)
  BY <1>2, CheckInCounts DEF Holding
<1> QED BY <1>1, <1>2 DEF Abandon

(* Those who leave are the ones that could not connect, the requests and   *)
(* the probe, and those that are cancelled.                                *)
LEMMA LeavingKeeps ==
    ASSUME IInv, NEW c \in Client,
           ConnectFails(c) \/ LeaveSession(c) \/ LeaveProbe(c) \/ Cancel(c)
    PROVE  IInv' /\ Slots!Next
<1> USE DEF IInv
<1>1. UNCHANGED settings
  BY DEF ConnectFails, LeaveSession, LeaveProbe, Cancel, Finish, process
<1>2. PICK how \in {"answered", "unreachable", "disconnected", "cancelled"} : Fail(c, how)
  BY DEF ConnectFails, LeaveSession, LeaveProbe, Cancel, Finish
<1>3. how \in {"answered"} \cup (Failures \ {"turned_away"})
  BY DEF Failures
<1>4. CASE Abandon(c)
  BY <1>1, <1>2, <1>3, <1>4, AbandonCounts, GivesBack DEF Slots!Next
<1>5. CASE pc[c] = "working" /\ \E usable \in BOOLEAN : CheckIn(usable)
  <2>1. pc[c] \in Holding
    BY <1>5 DEF Holding
  <2> QED BY <1>1, <1>2, <1>3, <1>5, <2>1, CheckInCounts, GivesBack DEF Slots!Next
<1>6. CASE Cancel(c) /\ pc[c] = "waiting" /\ UNCHANGED pool
  BY <1>1, <1>6, GoesWithout DEF Cancel, Failures
<1> QED BY <1>4, <1>5, <1>6 DEF ConnectFails, LeaveSession, LeaveProbe, Cancel, Finish

(* What no client does.                                                    *)
LEMMA OthersKeep ==
    ASSUME IInv,
           Load \/ Reap \/ GoDown \/ ComeUp \/ SigTerm \/ Dispose \/ Ended \/ UNCHANGED vars
    PROVE  IInv' /\ UNCHANGED slots
<1> USE DEF IInv
<1>1. UNCHANGED <<pc, outcome>>
  BY DEF Load, Reap, GoDown, ComeUp, SigTerm, Dispose, Ended, vars
<1>2. holders' = holders /\ waiters' = waiters /\ refused' = refused /\ NoneYet'
  BY <1>1 DEF holders, waiters, refused, NoneYet
<1>3. CASE Load
  <2>1. size' = size /\ max_overflow' = max_overflow /\ Limit' = Limit
    BY <1>3, LoadKeepsPool DEF size, max_overflow, Limit
  <2>2. UNCHANGED <<fresh, stale, overflow>>
    BY <1>3 DEF Load, pool
  <2>3. Typed'
    BY <1>1, <1>3, <2>1, <2>2, LoadKeepsPool DEF Typed
  <2> QED BY <1>2, <2>1, <2>2, <2>3 DEF SlotsAreConserved, WithinLimit, slots
<1>4. CASE Dispose
  <2>1. UNCHANGED settings /\ fresh' = 0 /\ stale' = 0 /\ overflow' = -size
    BY <1>4 DEF Dispose
  <2>2. size' = size /\ max_overflow' = max_overflow /\ Limit' = Limit
    BY <2>1, SettingsStay
  <2>3. holders = {}
    BY <1>4 DEF Dispose, holders, Holding
  <2>4. Cardinality(holders) = 0
    BY <2>3, FS_EmptySet
  <2>5. Typed'
    BY <1>1, <2>1, <2>2 DEF Typed
  <2>6. SlotsAreConserved' /\ WithinLimit'
    BY <1>2, <2>1, <2>2, <2>4, LimitIsNumber DEF SlotsAreConserved, WithinLimit, Typed
  <2> QED BY <1>2, <2>2, <2>5, <2>6 DEF slots
<1>5. CASE Reap \/ GoDown \/ ComeUp \/ SigTerm \/ Ended \/ UNCHANGED vars
  <2>1. UNCHANGED <<settings, overflow>>
    BY <1>5 DEF Reap, GoDown, ComeUp, SigTerm, Ended, vars, process, pool
  <2>2. fresh' \in Nat /\ stale' \in Nat /\ fresh' + stale' = fresh + stale
    BY <1>5 DEF Reap, GoDown, ComeUp, SigTerm, Ended, vars, pool, Typed
  <2>3. size' = size /\ max_overflow' = max_overflow /\ Limit' = Limit
    BY <2>1, SettingsStay
  <2>4. Typed'
    BY <1>1, <2>1, <2>2, <2>3 DEF Typed
  <2>5. SlotsAreConserved' /\ WithinLimit'
    BY <1>2, <2>1, <2>2, <2>3, HoldersFinite DEF SlotsAreConserved, WithinLimit, Typed
  <2> QED BY <1>2, <2>3, <2>4, <2>5 DEF slots
<1> QED BY <1>3, <1>4, <1>5

(* Every step keeps the invariant and is a step of PoolSlots or none.      *)
LEMMA NextKeeps ==
    ASSUME IInv, [Next]_vars
    PROVE  IInv' /\ [Slots!Next]_slots
<1>1. CASE \E c \in Client : Ask(c) \/ Serve(c) \/ Cancel(c)
  <2>1. PICK c \in Client : Ask(c) \/ Serve(c) \/ Cancel(c)
    BY <1>1
  <2>2. CASE Ask(c)
    BY <2>2, AskKeeps
  <2>3. CASE Woken(c) \/ Expire(c)
    BY <2>3, WaitersKeep
  <2>4. CASE Connected(c)
    BY <2>4, ConnectedKeeps
  <2>5. CASE ConnectFails(c) \/ LeaveSession(c) \/ LeaveProbe(c) \/ Cancel(c)
    BY <2>5, LeavingKeeps
  <2> QED BY <2>1, <2>2, <2>3, <2>4, <2>5 DEF Serve
<1>2. CASE Load \/ Reap \/ GoDown \/ ComeUp \/ SigTerm \/ Dispose \/ Ended \/ UNCHANGED vars
  BY <1>2, OthersKeep
<1> QED BY <1>1, <1>2 DEF Next

(* A process starts with an empty pool.                                    *)
LEMMA InitKeeps ==
    ASSUME Init
    PROVE  IInv /\ Slots!Init
<1>1. holders = {} /\ waiters = {} /\ refused = {}
  BY DEF Init, holders, waiters, refused, Holding
<1>2. Cardinality(holders) = 0
  BY <1>1, FS_EmptySet
<1>3. Typed /\ NoneYet
  BY ServiceAssumption DEF Init, Typed, Outcomes, NoneYet, Places, size
<1>4. SlotsAreConserved /\ WithinLimit
  BY <1>2, <1>3, LimitIsNumber DEF Init, SlotsAreConserved, WithinLimit, Typed
<1> QED BY <1>1, <1>3, <1>4 DEF IInv, Slots!Init, waiters, refused

-----------------------------------------------------------------------------
(* No connection is lost or counted twice, whatever happens to the process *)
(* and the database: get_session and readyz close what they open.          *)
THEOREM NoSlotIsLost == Spec => []SlotsAreConserved
<1>1. IInv => SlotsAreConserved
  BY DEF IInv
<1> QED BY <1>1, InitKeeps, NextKeeps, PTL DEF Spec

(* The pool of the engine does what PoolSlots promises: never more than    *)
(* pool_size + max_overflow, and nobody waits while there is room.         *)
THEOREM PoolImplementsSlots == Spec => PoolIsSlots
<1>1. [Slots!Next]_slots => [Slots!Next]_<<Limit, holders, waiters, refused>>
  BY DEF slots
<1> QED BY <1>1, InitKeeps, NextKeeps, PTL DEF Spec, PoolIsSlots, Slots!Spec, waiters, refused

-----------------------------------------------------------------------------
(* Whoever is under way while the database is away has met the outage, and *)
(* a connection dies in its client's hands only then.                      *)
Blamed ==
    /\ outcome \in [Client -> Outcomes]
    /\ pc \in [Client -> Places]
    /\ \A c \in broken : pc[c] = "working" /\ c \in disturbed
    /\ ~up => \A c \in Client : pc[c] # "away" => c \in disturbed
    /\ IdleLossIsInvisible

(* Asking starts a new use: what went wrong in the last one is forgotten   *)
(* with its outcome.                                                       *)
LEMMA AskBlames ==
    ASSUME Blamed, NEW c \in Client, Ask(c)
    PROVE  Blamed'
<1>1. /\ pc[c] = "away" /\ UNCHANGED up
      /\ \E how \in {"none", "turned_away"} : outcome' = [outcome EXCEPT ![c] = how]
      /\ disturbed' = IF up THEN disturbed \ {c} ELSE disturbed \cup {c}
  BY DEF Ask, Start, Recurse, Fail, database
<1>2. /\ broken' = broken
      /\ \E place \in Places : Goto(c, place)
  BY DEF Ask, CheckOut, Open, Wait, Recurse, Fail, Places, Holding
<1>3. PICK place \in Places : pc' = [pc EXCEPT ![c] = place]
  BY <1>2 DEF Goto
<1>4. c \notin broken
  BY <1>1 DEF Blamed
<1> QED BY <1>1, <1>2, <1>3, <1>4 DEF Blamed, IdleLossIsInvisible, Places, Holding, Outcomes, Failures

(* A client that goes on, and one that leaves with a good or a bad result. *)
LEMMA ServeBlames ==
    ASSUME Blamed, NEW c \in Client, Serve(c)
    PROVE  Blamed'
<1>1. UNCHANGED <<up, disturbed>> /\ pc[c] # "away"
  BY DEF Serve, Woken, Expire, Connected, ConnectFails, LeaveSession, LeaveProbe, Finish, database
<1>2. CASE Woken(c) \/ Connected(c) \/ (Expire(c) /\ UNCHANGED outcome)
  <2>1. broken' = broken /\ outcome' = outcome /\ pc[c] # "working"
    BY <1>2 DEF Woken, CheckOut, Connected, Expire, Open, Fail
  <2>2. \E place \in Places : Goto(c, place)
    BY <1>2 DEF Woken, CheckOut, Connected, Expire, Open, Fail, Places, Holding
  <2>3. PICK place \in Places : pc' = [pc EXCEPT ![c] = place]
    BY <2>2 DEF Goto
  <2> QED BY <1>1, <2>1, <2>3 DEF Blamed, IdleLossIsInvisible
<1>3. CASE Expire(c) /\ Fail(c, "turned_away")
  BY <1>1, <1>3 DEF Expire, Open, Fail, Goto, Blamed, IdleLossIsInvisible, Places, Holding,
                       Outcomes, Failures
<1>4. CASE ConnectFails(c)
  BY <1>1, <1>4 DEF ConnectFails, Fail, Goto, Blamed, IdleLossIsInvisible, Places, Holding,
                       Outcomes, Failures
<1>5. CASE LeaveSession(c) \/ LeaveProbe(c)
  <2>1. PICK how \in {"answered", "disconnected"} :
            Fail(c, how) /\ (how = "disconnected" => c \in broken)
    BY <1>5 DEF LeaveSession, LeaveProbe, Finish
  <2>2. broken' = broken \ {c}
    BY <1>5 DEF LeaveSession, LeaveProbe, Finish
  <2> QED BY <1>1, <2>1, <2>2 DEF Fail, Goto, Blamed, IdleLossIsInvisible, Places, Outcomes, Failures
<1> QED BY <1>2, <1>3, <1>4, <1>5 DEF Serve, Expire

(* One that is cancelled has no error to show.                             *)
LEMMA CancelBlames ==
    ASSUME Blamed, NEW c \in Client, Cancel(c)
    PROVE  Blamed'
<1>1. /\ UNCHANGED <<up, disturbed>> /\ broken' = broken \ {c}
      /\ pc' = [pc EXCEPT ![c] = "away"]
      /\ outcome' = [outcome EXCEPT ![c] = "cancelled"]
  BY DEF Cancel, Fail, Goto, database
<1> QED BY <1>1 DEF Blamed, IdleLossIsInvisible, Places, Outcomes, Failures

(* What happens around the clients.                                        *)
LEMMA SurroundingsBlame ==
    ASSUME Blamed,
           Load \/ Reap \/ GoDown \/ ComeUp \/ SigTerm \/ Dispose \/ Ended \/ UNCHANGED vars
    PROVE  Blamed'
<1>1. pc' = pc /\ outcome' = outcome
  BY DEF Load, Reap, GoDown, ComeUp, SigTerm, Dispose, Ended, vars
<1>2. CASE GoDown
  BY <1>1, <1>2 DEF GoDown, Blamed, IdleLossIsInvisible
<1>3. CASE ComeUp
  BY <1>1, <1>3 DEF ComeUp, Blamed, IdleLossIsInvisible
<1>4. CASE Load \/ Reap \/ SigTerm \/ Dispose \/ Ended \/ UNCHANGED vars
  <2>1. UNCHANGED <<up, broken, disturbed>>
    BY <1>4 DEF Load, Reap, SigTerm, Dispose, Ended, vars, database
  <2> QED BY <1>1, <2>1 DEF Blamed, IdleLossIsInvisible
<1> QED BY <1>2, <1>3, <1>4

(* A connection that went stale while idle never fails a request: with the *)
(* pre-ping, whoever cannot reach the database met an outage.              *)
THEOREM IdleLossNeverShows == Spec => []IdleLossIsInvisible
<1>1. Init => Blamed
  BY DEF Init, Blamed, IdleLossIsInvisible, Places, Outcomes
<1>2. Blamed /\ [Next]_vars => Blamed'
  BY AskBlames, ServeBlames, CancelBlames, SurroundingsBlame DEF Next
<1>3. Blamed => IdleLossIsInvisible
  BY DEF Blamed
<1> QED BY <1>1, <1>2, <1>3, PTL DEF Spec

=============================================================================
