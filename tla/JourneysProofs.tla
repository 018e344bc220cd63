--------------------------- MODULE JourneysProofs ---------------------------
(***************************************************************************)
(* What holds of Journeys for every set of players and every setting.       *)
(***************************************************************************)
EXTENDS Journeys, Counting

-----------------------------------------------------------------------------
(* Lemmas about the operators. *)

\* A share of at most 100 percent of some palle is no more than those palle.
LEMMA ShareOf ==
  ASSUME NEW s \in Nat, NEW k \in 0 .. 100
  PROVE  (s * k) \div 100 \in 0 .. s
<1>1. s * k \in Nat /\ s * k <= s * 100
  OBVIOUS
<1>2. QED
  BY <1>1

\* Paying the hold in progress leaves every score a natural number.
LEMMA PaidType ==
  ASSUME TypeOK
  PROVE  Earned \in Nat /\ Paid \in [Players -> Nat]
BY DEF TypeOK, Earned, Paid, AtLeastZero

\* The salt moves palle from the raider's purse to his target's.
LEMMA SaltedType ==
  ASSUME TypeOK, NEW p \in DOMAIN raids, NEW share \in SaltShares
  PROVE  Salted(p, share) \in [Players -> Nat]
<1>1. scores[p] \in Nat /\ share \in 0 .. 100 /\ raids[p].target \in Players /\ p \in Players
  BY ConstantsOK DEF TypeOK, Raid
<1>2. (scores[p] * share) \div 100 \in 0 .. scores[p]
  BY <1>1, ShareOf
<1> DEFINE paid == (scores[p] * share) \div 100
<1>3. paid \in Nat /\ scores[p] - paid \in Nat
  BY <1>1, <1>2
<1>4. Salted(p, share) = [scores EXCEPT ![p] = @ - paid, ![raids[p].target] = @ + paid]
  BY DEF Salted
<1> HIDE DEF paid
<1>5. QED
  BY <1>1, <1>3, <1>4 DEF TypeOK

\* What the handlers do to a raid leaves it a raid.
LEMMA RaidUpdates ==
  ASSUME NEW r \in Raid, NEW n \in Nat, NEW left \in Loads \cup {Nothing}
  PROVE  /\ [r EXCEPT !.arrived = TRUE] \in Raid
         /\ [r EXCEPT !.arrived = TRUE, !.back = n] \in Raid
         /\ [r EXCEPT !.arrived = TRUE, !.gift = 0] \in Raid
         /\ [r EXCEPT !.arrived = TRUE, !.loot = n] \in Raid
         /\ [r EXCEPT !.arrived = TRUE, !.load = left] \in Raid
<1>1. [r EXCEPT !.arrived = TRUE] \in Raid
  BY DEF Raid
<1> DEFINE arrived == [r EXCEPT !.arrived = TRUE]
<1> HIDE DEF arrived
<1>2. arrived \in Raid
  BY <1>1 DEF arrived
<1>3. [arrived EXCEPT !.back = n] \in Raid
  BY <1>2 DEF Raid
<1>4. [arrived EXCEPT !.gift = 0] \in Raid
  BY <1>2 DEF Raid
<1>5. [arrived EXCEPT !.loot = n] \in Raid
  BY <1>2 DEF Raid
<1>6. [arrived EXCEPT !.load = left] \in Raid
  BY <1>2 DEF Raid
<1>7. QED
  BY <1>1, <1>3, <1>4, <1>5, <1>6 DEF arrived

LEMMA ResetRaid ==
  ASSUME NEW r \in Raid, NEW n \in Nat
  PROVE  [r EXCEPT !.arrived = TRUE, !.back = n, !.loot = 0, !.gift = 0, !.load = Nothing] \in Raid
<1> DEFINE s == [r EXCEPT !.arrived = TRUE, !.back = n]
<1>1. s \in Raid
  BY RaidUpdates
<1> HIDE DEF s
<1> DEFINE t == [s EXCEPT !.loot = 0]
<1>2. t \in Raid
  BY <1>1 DEF Raid
<1> HIDE DEF t
<1> DEFINE u == [t EXCEPT !.gift = 0]
<1>3. u \in Raid
  BY <1>2 DEF Raid
<1> HIDE DEF u
<1>4. [u EXCEPT !.load = Nothing] \in Raid
  BY <1>3 DEF Raid
<1>5. QED
  BY <1>4 DEF s, t, u

\* Turning around leaves a raid a raid, on its way home.
LEMMA TurnedHomeType ==
  ASSUME TypeOK, NEW p \in DOMAIN raids
  PROVE  TurnedHome(raids[p]) \in Raid
<1> DEFINE r == raids[p]
           leg == r.back - r.arrive
           left == IF now < r.arrive THEN AtLeastZero(now - (r.arrive - leg))
                   ELSE AtLeastZero(r.back - now)
<1>1. r \in Raid /\ now \in Nat
  BY DEF TypeOK
<1>2. r.arrive \in Nat /\ r.back \in Nat
  BY <1>1 DEF Raid
<1>3. left \in Nat
  BY <1>1, <1>2 DEF AtLeastZero
<1>4. now + left \in Nat
  BY <1>1, <1>3
<1>5. TurnedHome(r) = [r EXCEPT !.arrived = TRUE, !.back = now + left]
  BY DEF TurnedHome
<1>6. [r EXCEPT !.arrived = TRUE, !.back = now + left] \in Raid
  BY <1>1, <1>4, RaidUpdates
<1>7. QED
  BY <1>5, <1>6

-----------------------------------------------------------------------------
(* Type correctness. *)

LEMMA TypeInit == Init => TypeOK
BY ConstantsOK DEF Init, TypeOK, Empty, Idle, Never

LEMMA StartOverType ==
  ASSUME TypeOK, NEW v \in Players, NEW rs,
         DOMAIN rs \subseteq Players, rs \in [DOMAIN rs -> Raid], StartOver(v, rs)
  PROVE  /\ hold' \in [who : Players \cup {Nobody}, since : Nat]
         /\ DOMAIN raids' \subseteq Players
         /\ raids' \in [DOMAIN raids' -> Raid]
         /\ scores' \in [Players -> Nat]
         /\ balloon' \in [Players -> {"carried", "house", "none"}]
         /\ wear' \in [Players -> 0 .. BalloonAttempts - 1]
         /\ cooldown' \in [Players -> Nat]
         /\ frozen' \in [Players -> Nat]
         /\ ledger' \in Int
<1>1. CASE v \in DOMAIN rs
  <2>1. raids' = [rs EXCEPT ![v] = [rs[v] EXCEPT !.arrived = TRUE, !.back = now,
                                        !.loot = 0, !.gift = 0, !.load = Nothing]]
    BY <1>1 DEF StartOver
  <2>2. [rs[v] EXCEPT !.arrived = TRUE, !.back = now, !.loot = 0, !.gift = 0, !.load = Nothing] \in Raid
    <3>1. now \in Nat /\ rs[v] \in Raid
      BY <1>1 DEF TypeOK
    <3>2. QED
      BY <3>1, ResetRaid
  <2>3. DOMAIN raids' \subseteq Players /\ raids' \in [DOMAIN raids' -> Raid]
    BY <2>1, <2>2
  <2>4. rs[v].loot + rs[v].gift \in Nat
    BY <1>1 DEF Raid
  <2>5. QED
    BY <2>3, <2>4, ConstantsOK DEF StartOver, TypeOK, Empty
<1>2. CASE v \notin DOMAIN rs
  BY <1>2, ConstantsOK DEF StartOver, TypeOK, Empty
<1>3. QED
  BY <1>1, <1>2

\* Freezing somebody keeps the table of the frozen.
LEMMA FreezeType ==
  ASSUME TypeOK, NEW v \in Players, Freeze(v)
  PROVE  frozen' \in [Players -> Nat]
BY ConstantsOK DEF TypeOK, Freeze

LEMMA LandType ==
  ASSUME TypeOK, NEW v \in Players, NEW load, NEW rs,
         DOMAIN rs \subseteq Players, rs \in [DOMAIN rs -> Raid], Land(v, load, rs)
  PROVE  /\ hold' \in [who : Players \cup {Nobody}, since : Nat]
         /\ DOMAIN raids' \subseteq Players
         /\ raids' \in [DOMAIN raids' -> Raid]
         /\ scores' \in [Players -> Nat]
         /\ balloon' \in [Players -> {"carried", "house", "none"}]
         /\ wear' \in [Players -> 0 .. BalloonAttempts - 1]
         /\ cooldown' \in [Players -> Nat]
         /\ frozen' \in [Players -> Nat]
         /\ ledger' \in Int
<1>1. CASE load = "nuke" /\ StartOver(v, rs)
  BY <1>1, StartOverType
<1>2. CASE load = "ice" /\ Freeze(v) /\ raids' = rs
           /\ UNCHANGED <<scores, ledger, hold, guards, cooldown>>
  BY <1>2, FreezeType DEF TypeOK, guards
<1>3. CASE load = "seed" /\ raids' = rs
           /\ UNCHANGED <<scores, ledger, hold, guards, cooldown, frozen>>
  BY <1>3 DEF TypeOK, guards
<1>4. QED
  BY <1>1, <1>2, <1>3 DEF Land

\* A player's own handlers keep the types.
LEMMA HandlerType ==
  ASSUME TypeOK, NEW p \in Players, Handler(p), CallReturns
  PROVE  TypeOK'
<1> USE ConstantsOK DEF guards, people, keeper, CallReturns
<1>1. CASE ClaimDefended(p)
  BY <1>1 DEF TypeOK, ClaimDefended, MayTry, MayHold
<1>2. CASE ClaimTaken(p)
  <2>1. wear' \in [Players -> 0 .. BalloonAttempts - 1]
    <3>1. wear' = wear \/ wear' = [wear EXCEPT ![hold.who] = 0]
      BY <1>2 DEF ClaimTaken
    <3>2. QED
      BY <3>1 DEF TypeOK
  <2>2. QED
    BY <1>2, <2>1, PaidType DEF TypeOK, ClaimTaken
<1>3. CASE WalkOut(p)
  BY <1>3, PaidType DEF TypeOK, WalkOut, LeavePlace, Empty
<1>4. CASE GearErrand(p)
  <2>1. balloon' \in [Players -> {"carried", "house", "none"}]
    BY <1>4 DEF TypeOK, GearErrand
  <2>2. /\ hold' \in [who : Players \cup {Nobody}, since : Nat]
        /\ scores' \in [Players -> Nat]
        /\ ledger' \in Int
    BY <1>4, PaidType DEF TypeOK, GearErrand, LeavePlace, Empty
  <2>3. QED
    BY <1>4, <2>1, <2>2 DEF TypeOK, GearErrand
<1>5. CASE BurnBalloon(p)
  BY <1>5 DEF TypeOK, BurnBalloon
<1>6. ASSUME NEW q \in Players, NEW leg \in Legs, NEW gift \in Gifts \cup {0},
             NEW load \in Loads \cup {Nothing}, SetOff(p, q, leg, gift, load)
      PROVE  TypeOK'
  <2> DEFINE r == [target |-> q, order |-> departed + 1, arrive |-> now + leg,
                   back |-> now + 2 * leg, arrived |-> FALSE, loot |-> 0,
                   gift |-> gift, load |-> load]
  <2>1. r \in Raid
    BY DEF TypeOK, Raid
  <2>2. raids' = [s \in DOMAIN raids \cup {p} |-> IF s = p THEN r ELSE raids[s]]
    BY <1>6 DEF SetOff
  <2> HIDE DEF r
  <2>3. DOMAIN raids' \subseteq Players /\ raids' \in [DOMAIN raids' -> Raid]
    BY <2>1, <2>2 DEF TypeOK
  <2>4. scores' \in [Players -> Nat]
    BY <1>6 DEF TypeOK, SetOff
  <2>5. departed' \in Nat
    BY <1>6 DEF TypeOK, SetOff
  <2>6. UNCHANGED <<clock, late, seen, joined, entered, hold, balloon, wear, cooldown, frozen,
                    walk, settled, ledger>> /\ now' = clock
    BY <1>6 DEF SetOff
  <2>7. QED
    BY <2>3, <2>4, <2>5, <2>6 DEF TypeOK
<1>7. CASE TurnAround(p)
  <2>1. TurnedHome(raids[p]) \in Raid
    BY <1>7, TurnedHomeType DEF TurnAround, OnTheRoad
  <2>2. QED
    BY <1>7, <2>1 DEF TypeOK, TurnAround, OnTheRoad
<1>8. ASSUME NEW load \in Loads, ThrowAtPlace(p, load)
      PROVE  TypeOK'
  <2>1. CASE StartAllOver
    <3>1. DOMAIN raids' = {} /\ raids' \in [DOMAIN raids' -> Raid]
      BY <2>1 DEF StartAllOver
    <3>2. hold' \in [who : Players \cup {Nobody}, since : Nat]
      BY <2>1 DEF StartAllOver, Empty
    <3>3. wear' \in [Players -> 0 .. BalloonAttempts - 1]
      BY <2>1 DEF StartAllOver
    <3>4. balloon' \in [Players -> {"carried", "house", "none"}]
      BY <2>1 DEF StartAllOver
    <3>5. /\ scores' \in [Players -> Nat]
          /\ cooldown' \in [Players -> Nat]
          /\ frozen' \in [Players -> Nat]
          /\ ledger' \in Int
      BY <2>1 DEF StartAllOver
    <3>6. UNCHANGED <<clock, late, seen, joined, entered, departed, walk, settled>>
          /\ now' = clock
      BY <1>8 DEF ThrowAtPlace
    <3>7. clock' \in Nat /\ late' \in Nat /\ now' \in 0 .. clock'
      BY <3>6 DEF TypeOK
    <3>8. /\ DOMAIN raids' \subseteq Players
          /\ \A v \in Players : v \in seen' \/ scores'[v] = 0
      BY <3>1, <2>1 DEF StartAllOver
    <3>9. QED
      BY <3>1, <3>2, <3>3, <3>4, <3>5, <3>6, <3>7, <3>8 DEF TypeOK
  <2>2. CASE /\ hold.who \notin {Nobody, p}
             /\ Freeze(hold.who)
             /\ UNCHANGED <<scores, ledger, hold, raids, guards, cooldown>>
    <3>1. frozen' \in [Players -> Nat]
      BY <2>2, FreezeType DEF TypeOK
    <3>2. QED
      BY <1>8, <2>2, <3>1 DEF TypeOK, ThrowAtPlace
  <2>3. QED
    BY <1>8, <2>1, <2>2 DEF ThrowAtPlace
<1>9. CASE PlayerSeen(p)
  BY <1>9 DEF TypeOK, PlayerSeen
<1>10. QED
  BY <1>1, <1>2, <1>3, <1>4, <1>5, <1>6, <1>7, <1>8, <1>9 DEF Handler

\* What the keeper does at one raid keeps the types.
LEMMA VisitType ==
  ASSUME TypeOK, NEW p \in Players, Visit(p)
  PROVE  TypeOK'
<1> USE ConstantsOK DEF guards, people, keeper, moment
<1> DEFINE r == raids[p]
<1>1. p \in DOMAIN raids /\ r \in Raid /\ r.target \in Players
  BY DEF Visit, DeliverPalle, DeliverPresent, ThrowAtHouse, HeldOff, Rob, ComeHome,
         PassBy, Robbing, Arriving, Visiting, OnTheRoad, TypeOK, Raid
<1> HIDE DEF r
<1>2. CASE DeliverPalle(p)
  <2>1. [r EXCEPT !.arrived = TRUE, !.gift = 0] \in Raid
    BY <1>1, RaidUpdates
  <2>2. QED
    BY <1>1, <1>2, <2>1 DEF TypeOK, DeliverPalle, Raid, r
<1>3. CASE DeliverPresent(p)
  <2>1. PICK left \in Loads \cup {Nothing} :
          raids' = [raids EXCEPT ![p] = [r EXCEPT !.arrived = TRUE, !.load = left]]
    BY <1>1, <1>3 DEF DeliverPresent, r, Raid
  <2>2. [r EXCEPT !.arrived = TRUE, !.load = left] \in Raid
    BY <1>1, RaidUpdates
  <2>3. QED
    BY <1>1, <1>3, <2>1, <2>2 DEF TypeOK, DeliverPresent
<1>4. CASE ThrowAtHouse(p)
  <2> DEFINE rs == [raids EXCEPT ![p] = [r EXCEPT !.arrived = TRUE, !.load = Nothing]]
  <2>1. [r EXCEPT !.arrived = TRUE, !.load = Nothing] \in Raid
    BY <1>1, RaidUpdates
  <2>2. DOMAIN rs \subseteq Players /\ rs \in [DOMAIN rs -> Raid]
    BY <1>1, <2>1 DEF TypeOK
  <2>3. PICK v \in {p, r.target} : Land(v, r.load, rs)
    BY <1>4 DEF ThrowAtHouse, r
  <2> HIDE DEF rs
  <2>4. v \in Players
    BY <1>1, <2>3
  <2>5. QED
    BY <1>4, <2>2, <2>3, <2>4, LandType DEF TypeOK, ThrowAtHouse
<1>5. CASE HeldOff(p)
  <2>1. [r EXCEPT !.arrived = TRUE] \in Raid
    BY <1>1, RaidUpdates
  <2>2. scores' \in [Players -> Nat]
    BY <1>1, <1>5, SaltedType DEF HeldOff
  <2>3. wear' \in [Players -> 0 .. BalloonAttempts - 1]
    BY <1>1, <1>5 DEF HeldOff, MayHold, TypeOK, r
  <2>4. QED
    BY <1>1, <1>5, <2>1, <2>2, <2>3 DEF TypeOK, HeldOff, r
<1>6. CASE Rob(p)
  <2> DEFINE Outcome(share, loot) ==
        /\ loot \in 0 .. (IF Salted(p, share)[r.target] < Road
                          THEN Salted(p, share)[r.target] ELSE Road)
        /\ scores' = Robbed(p, share, loot)
        /\ raids' = [raids EXCEPT ![p] = [r EXCEPT !.arrived = TRUE, !.loot = loot]]
  <2>1. PICK share \in SaltShares : \E loot : Outcome(share, loot)
    BY <1>6 DEF Rob, r
  <2>2. Salted(p, share) \in [Players -> Nat]
    BY <1>1, SaltedType
  <2>3. PICK loot : Outcome(share, loot)
    BY <2>1
  <2>4. loot \in Nat /\ Salted(p, share)[r.target] - loot \in Nat
    BY <1>1, <2>3, <2>2
  <2>5. scores' \in [Players -> Nat]
    BY <1>1, <2>2, <2>3, <2>4 DEF Robbed, r
  <2>6. [r EXCEPT !.arrived = TRUE, !.loot = loot] \in Raid
    BY <1>1, <2>4, RaidUpdates
  <2>7. wear' \in [Players -> 0 .. BalloonAttempts - 1]
    BY <1>1, <1>6 DEF Rob, TypeOK
  <2>8. QED
    BY <1>1, <1>6, <2>3, <2>5, <2>6, <2>7 DEF TypeOK, Rob
<1>7. CASE ComeHome(p)
  <2>1. scores[p] + r.loot + r.gift \in Nat /\ r.order \in Nat
    BY <1>1 DEF TypeOK, Raid
  <2>2. QED
    BY <1>1, <1>7, <2>1 DEF TypeOK, ComeHome, r
<1>8. CASE PassBy(p)
  <2>1. r.order \in Nat
    BY <1>1 DEF Raid
  <2>2. QED
    BY <1>8, <2>1 DEF TypeOK, PassBy, r
<1>9. QED
  BY <1>2, <1>3, <1>4, <1>5, <1>6, <1>7, <1>8 DEF Visit

LEMMA TypeStep == TypeOK /\ [Next]_vars => TypeOK'
<1> SUFFICES ASSUME TypeOK, [Next]_vars
             PROVE  TypeOK'
  OBVIOUS
<1> USE DEF guards, people, keeper, moment, CallReturns
<1>1. CASE RoundBegins
  BY <1>1 DEF TypeOK, RoundBegins
<1>2. CASE \E p \in Players : Visit(p)
  BY <1>2, VisitType
<1>3. CASE RoundEnds
  BY <1>3 DEF TypeOK, RoundEnds
<1>4. CASE Tick
  BY <1>4 DEF TypeOK, Tick
<1>5. CASE \E p \in Players : Handler(p) /\ CallReturns
  BY <1>5, HandlerType
<1>6. CASE UNCHANGED vars
  BY <1>6 DEF TypeOK, vars
<1>7. CASE LateCall
  <2>1. PICK at \in 0 .. clock - 1 : now' = at /\ late' = late + (clock - at)
    BY <1>7 DEF LateCall
  <2>2. now' \in 0 .. clock /\ late' \in Nat
    BY <2>1 DEF TypeOK
  <2> QED
    BY <1>7, <2>2 DEF TypeOK, LateCall
<1>8. CASE InVain
  BY <1>8 DEF TypeOK, InVain
<1> QED
  BY <1>1, <1>2, <1>3, <1>4, <1>5, <1>6, <1>7, <1>8 DEF Next, Keeper

\* The types hold in every behaviour: no score ever falls below zero, no 🎈
\* survives its last attempt, nobody has two rides.
THEOREM Typed == Spec => []TypeOK
BY TypeInit, TypeStep, PTL DEF Spec

-----------------------------------------------------------------------------
(* The holder is not away. *)

\* The keeper, the throws and the turns take nobody on the road, and leave the
\* place as it was or empty.
LEMMA VisitFrame ==
  ASSUME TypeOK, NEW p \in Players, Visit(p)
  PROVE  DOMAIN raids' = DOMAIN raids /\ hold' \in {hold, Empty}
<1>1. CASE ThrowAtHouse(p)
  BY <1>1 DEF ThrowAtHouse, Land, StartOver
<1>2. CASE DeliverPalle(p) \/ DeliverPresent(p) \/ HeldOff(p) \/ Rob(p)
  BY <1>2 DEF DeliverPalle, DeliverPresent, HeldOff, Rob
<1>3. CASE ComeHome(p) \/ PassBy(p)
  BY <1>3 DEF ComeHome, PassBy
<1>4. QED
  BY <1>1, <1>2, <1>3 DEF Visit

LEMMA AwayStep ==
  ASSUME TypeOK, HolderIsNotAway, [Next]_vars
  PROVE  HolderIsNotAway'
<1>1. Nobody \notin DOMAIN raids
  BY ConstantsOK DEF TypeOK
<1>2. ASSUME hold' \in {hold, Empty}, DOMAIN raids' \subseteq DOMAIN raids
      PROVE  HolderIsNotAway'
  BY <1>1, <1>2 DEF HolderIsNotAway, Empty
<1>3. ASSUME NEW p \in Players, Handler(p)
      PROVE  HolderIsNotAway'
  <2>1. CASE ClaimTaken(p)
    BY <2>1 DEF ClaimTaken, MayTry, OnTheRoad, HolderIsNotAway
  <2>2. CASE ClaimDefended(p) \/ BurnBalloon(p) \/ PlayerSeen(p)
    BY <2>2, <1>2 DEF ClaimDefended, BurnBalloon, PlayerSeen
  <2>3. CASE WalkOut(p) \/ GearErrand(p)
    BY <2>3, <1>2 DEF WalkOut, GearErrand, LeavePlace
  <2>4. CASE \E q \in Players, leg \in Legs, gift \in Gifts \cup {0}, load \in Loads \cup {Nothing} :
               SetOff(p, q, leg, gift, load)
    BY <2>4 DEF SetOff, HolderIsNotAway
  <2>5. CASE TurnAround(p)
    BY <2>5, <1>2 DEF TurnAround
  <2>6. CASE \E load \in Loads : ThrowAtPlace(p, load)
    BY <2>6, <1>2 DEF ThrowAtPlace, StartAllOver
  <2>7. QED
    BY <1>3, <2>1, <2>2, <2>3, <2>4, <2>5, <2>6 DEF Handler
<1>4. CASE \E p \in Players : Visit(p)
  BY <1>4, <1>2, VisitFrame
<1>5. CASE RoundBegins \/ RoundEnds \/ Tick \/ LateCall \/ InVain \/ UNCHANGED vars
  BY <1>5, <1>2 DEF RoundBegins, RoundEnds, Tick, LateCall, InVain, vars
<1>6. QED
  BY <1>3, <1>4, <1>5 DEF Next, Keeper

\* Whoever holds the place is never on the road, whatever the interleaving of
\* claims, departures, turns, resets and the keeper's rounds.
THEOREM HolderStays == Spec => []HolderIsNotAway
<1>1. Init => HolderIsNotAway
  BY DEF Init, HolderIsNotAway
<1>2. TypeOK /\ HolderIsNotAway /\ [Next]_vars => HolderIsNotAway'
  BY AwayStep
<1>3. QED
  BY <1>1, <1>2, Typed, PTL DEF Spec

-----------------------------------------------------------------------------
(* No second is paid twice but by a late call.  What the place has paid is      *)
(* measured against the moment the hold in progress began: a hold that a late  *)
(* call begins before the last one was paid to takes up what that call waited, *)
(* and so does, while it is at it, a call that may do so.                      *)

Accounts ==
  /\ hold.since <= clock
  /\ hold.who = Nobody => ledger <= now + late
  /\ hold.who # Nobody => ledger <= hold.since + late - (clock - now)

LEMMA AccountsHold ==
  ASSUME TypeOK, Accounts
  PROVE  /\ NoSecondPaidTwice
         /\ Earned \in Nat /\ ledger + Earned <= now + late
<1>1. /\ now \in Nat /\ clock \in Nat /\ now <= clock /\ late \in Nat /\ ledger \in Int
      /\ hold.since \in Nat
  BY DEF TypeOK
<1>2. CASE hold.who = Nobody
  BY <1>1, <1>2 DEF Accounts, NoSecondPaidTwice, Earned
<1>3. CASE hold.who # Nobody
  BY <1>1, <1>3 DEF Accounts, NoSecondPaidTwice, Earned, AtLeastZero
<1> QED
  BY <1>2, <1>3

(* What a sum does not exceed, the same sum with a later time does not either. *)
LEMMA LaterIsMore ==
  \A sum, before, after, waited \in Int :
    sum <= before + waited /\ before <= after => sum <= after + waited
OBVIOUS

LEMMA AccountsStep ==
  ASSUME TypeOK, Accounts, [Next]_vars
  PROVE  Accounts'
<1> DEFINE Settles == /\ ledger' = ledger + Earned
                      /\ hold' = Empty \/ (hold'.since = now /\ hold'.who # Nobody)
           Spends == /\ ledger' \in Int /\ ledger' <= ledger
                     /\ hold' \in {hold, Empty}
                     /\ now' \in {now, clock} /\ UNCHANGED <<clock, late>>
<1>1. /\ now \in Nat /\ clock \in Nat /\ now <= clock /\ late \in Nat /\ ledger \in Int
      /\ hold.since \in Nat /\ Earned \in Nat /\ ledger + Earned <= now + late
  BY AccountsHold DEF TypeOK
<1>2. Empty.who = Nobody /\ Empty.since = 0
  BY DEF Empty
<1>3. ledger <= now + late
  BY <1>1
<1>4. ASSUME Settles, CallReturns PROVE Accounts'
  BY <1>1, <1>2, <1>4 DEF Accounts, CallReturns
<1>5. ASSUME Spends PROVE Accounts'
  <2>1. clock' = clock /\ late' = late /\ now' \in Nat /\ now <= now' /\ ledger' \in Int /\ ledger' <= ledger
    BY <1>1, <1>5
  <2>2. now \in Nat /\ late \in Nat /\ ledger \in Int
    BY <1>1
  <2>3. ledger' <= now + late
    BY <1>3, <2>1, <2>2
  <2>4. ledger' <= now' + late'
    <3>1. now' + late' = now' + late
      BY <2>1
    <3>2. now \in Int /\ late \in Int /\ now' \in Int
      BY <2>1, <2>2
    <3>3. ledger' <= now' + late
      BY <3>2, <2>1, <2>3, LaterIsMore, Zenon
    <3>4. QED
      BY <3>1, <3>3
  <2>5. CASE hold' = Empty
    <3>1. hold'.since <= clock' /\ hold'.who = Nobody
      BY <1>1, <1>2, <2>1, <2>5
    <3>2. QED
      BY <3>1, <2>4 DEF Accounts
  <2>6. CASE hold' = hold
    <3>1. hold'.since <= clock'
      BY <2>1, <2>6 DEF Accounts
    <3>2. hold'.who # Nobody => ledger' <= hold'.since + late' - (clock' - now')
      BY <1>1, <2>1, <2>6 DEF Accounts
    <3>3. QED
      BY <3>1, <3>2, <2>4 DEF Accounts
  <2> QED
    BY <1>5, <2>5, <2>6
<1>6. ASSUME NEW v \in Players, NEW rs, StartOver(v, rs), UNCHANGED <<now, clock, late>>,
             DOMAIN rs \subseteq Players, rs \in [DOMAIN rs -> Raid]
      PROVE  Accounts'
  <2>1. IF v \in DOMAIN rs \ settled THEN rs[v].loot + rs[v].gift \in Nat ELSE TRUE
    BY <1>6 DEF Raid
  <2>2. ledger' \in Int /\ ledger' <= ledger
    BY <1>1, <1>6, <2>1 DEF StartOver, TypeOK
  <2>3. hold' \in {hold, Empty}
    BY <1>6 DEF StartOver
  <2>4. QED
    BY <1>5, <1>6, <2>2, <2>3
<1> HIDE DEF Settles, Spends
<1>7. ASSUME NEW p \in Players, Handler(p), CallReturns
      PROVE  Accounts'
  <2>0. now' \in {now, clock} /\ UNCHANGED <<clock, late>>
    BY <1>7 DEF CallReturns
  <2>1. CASE ClaimTaken(p)
    BY <1>7, <2>1, <1>4, ConstantsOK DEF ClaimTaken, Settles
  <2>2. CASE WalkOut(p)
    BY <1>7, <2>2, <1>4 DEF WalkOut, LeavePlace, Settles
  <2>3. CASE GearErrand(p)
    <3>1. CASE LeavePlace(p)
      BY <1>7, <3>1, <1>4 DEF LeavePlace, Settles
    <3>2. CASE UNCHANGED <<hold, scores, ledger>>
      BY <2>0, <3>2, <1>1, <1>5 DEF Spends
    <3>3. QED
      BY <2>3, <3>1, <3>2 DEF GearErrand
  <2>4. CASE ClaimDefended(p) \/ BurnBalloon(p) \/ PlayerSeen(p) \/ TurnAround(p)
    <3>1. UNCHANGED <<ledger, hold>>
      BY <2>4 DEF ClaimDefended, BurnBalloon, PlayerSeen, TurnAround
    <3> QED
      BY <2>0, <3>1, <1>1, <1>5 DEF Spends
  <2>5. CASE \E q \in Players, leg \in Legs, gift \in Gifts \cup {0}, load \in Loads \cup {Nothing} :
               SetOff(p, q, leg, gift, load)
    <3>1. UNCHANGED <<ledger, hold>>
      BY <2>5 DEF SetOff
    <3> QED
      BY <2>0, <3>1, <1>1, <1>5 DEF Spends
  <2>6. CASE \E load \in Loads : ThrowAtPlace(p, load)
    <3>2. CASE StartAllOver
      BY <1>7, <3>2, <1>1, <1>2 DEF StartAllOver, Accounts, CallReturns
    <3>3. CASE UNCHANGED <<scores, ledger, hold, raids, guards, cooldown>>
      BY <2>0, <3>3, <1>1, <1>5 DEF Spends
    <3>4. QED
      BY <2>6, <3>2, <3>3 DEF ThrowAtPlace
  <2>7. QED
    BY <1>7, <2>1, <2>2, <2>3, <2>4, <2>5, <2>6 DEF Handler
<1>8. ASSUME NEW p \in Players, Visit(p)
      PROVE  Accounts'
  <2>0. UNCHANGED <<now, clock, late>>
    BY <1>8 DEF Visit, DeliverPalle, DeliverPresent, ThrowAtHouse, HeldOff, Rob, ComeHome, PassBy,
                moment
  <2>1. CASE ThrowAtHouse(p)
    <3> DEFINE rs == [raids EXCEPT ![p] = [raids[p] EXCEPT !.arrived = TRUE, !.load = Nothing]]
    <3>1. p \in DOMAIN raids /\ raids[p] \in Raid /\ raids[p].target \in Players
      BY <2>1 DEF ThrowAtHouse, Arriving, Visiting, OnTheRoad, TypeOK, Raid
    <3>2. [raids[p] EXCEPT !.arrived = TRUE, !.load = Nothing] \in Raid
      BY <3>1, RaidUpdates
    <3>3. DOMAIN rs \subseteq Players /\ rs \in [DOMAIN rs -> Raid]
      BY <3>1, <3>2 DEF TypeOK
    <3>4. PICK v \in {p, raids[p].target} : Land(v, raids[p].load, rs)
      BY <2>1 DEF ThrowAtHouse
    <3>5. v \in Players
      BY <3>1, <3>4
    <3> HIDE DEF rs
    <3>6. CASE StartOver(v, rs)
      BY <2>0, <3>3, <3>5, <3>6, <1>6
    <3>7. CASE UNCHANGED <<ledger, hold>>
      BY <2>0, <3>7, <1>1, <1>5 DEF Spends
    <3>8. QED
      BY <3>4, <3>6, <3>7 DEF Land
  <2>2. CASE DeliverPalle(p) \/ DeliverPresent(p) \/ HeldOff(p) \/ Rob(p) \/ ComeHome(p)
             \/ PassBy(p)
    <3>1. UNCHANGED <<ledger, hold>>
      BY <2>2 DEF DeliverPalle, DeliverPresent, HeldOff, Rob, ComeHome, PassBy
    <3>2. QED
      BY <2>0, <3>1, <1>1, <1>5 DEF Spends
  <2>4. QED
    BY <1>8, <2>1, <2>2 DEF Visit
<1>9. CASE RoundBegins \/ RoundEnds \/ InVain \/ UNCHANGED vars
  BY <1>9, <1>1, <1>5 DEF RoundBegins, RoundEnds, InVain, CallReturns, vars, moment, Spends
<1>10. CASE Tick
  BY <1>1, <1>10 DEF Tick, Accounts
<1>11. CASE LateCall
  <2>1. PICK at \in 0 .. clock - 1 : now' = at /\ late' = late + (clock - at)
    BY <1>11 DEF LateCall
  <2>2. at \in Nat /\ now = clock /\ UNCHANGED <<clock, hold, ledger>>
    BY <1>1, <1>11 DEF LateCall
  <2> QED
    BY <1>1, <2>1, <2>2 DEF Accounts
<1> QED
  BY <1>7, <1>8, <1>9, <1>10, <1>11 DEF Next, Keeper

\* The palle the place has paid, less those destroyed, and those it would pay now never
\* exceed the seconds gone by, but for those that late calls waited for the mutex.
THEOREM PaidOnce == Spec => []NoSecondPaidTwice
<1>1. Init => Accounts
  BY DEF Init, Accounts, Empty
<1>2. TypeOK /\ Accounts /\ [Next]_vars => Accounts'
  BY AccountsStep
<1>3. TypeOK /\ Accounts => NoSecondPaidTwice
  BY AccountsHold
<1>4. QED
  BY <1>1, <1>2, <1>3, Typed, PTL DEF Spec

-----------------------------------------------------------------------------
(* Homecomings. *)

\* Naming oneself on the road never puts the homecoming off, unless the keeper is
\* late with it already.
LEMMA TurnedHomeBack ==
  ASSUME TypeOK, NEW p \in DOMAIN raids
  PROVE  \/ TurnedHome(raids[p]).back <= raids[p].back
         \/ TurnedHome(raids[p]).back <= now
<1> DEFINE r == raids[p]
           arrive == r.arrive
           back == r.back
           leg == back - arrive
           left == IF now < arrive THEN AtLeastZero(now - (arrive - leg))
                   ELSE AtLeastZero(back - now)
<1>1. r \in Raid /\ now \in Nat
  BY DEF TypeOK
<1>2. arrive \in Nat /\ back \in Nat
  BY <1>1 DEF Raid
<1>3. TurnedHome(r) = [r EXCEPT !.arrived = TRUE, !.back = now + left]
  BY DEF TurnedHome
<1>4. TurnedHome(r).back = now + left
  BY <1>1, <1>3 DEF Raid
<1> HIDE DEF arrive, back
<1>5. now + left <= back \/ now + left <= now
  BY <1>1, <1>2 DEF AtLeastZero
<1>6. QED
  BY <1>4, <1>5 DEF back

LEMMA HomecomingStep ==
  ASSUME TypeOK, [Next]_vars, NEW p \in DOMAIN raids, p \in DOMAIN raids'
  PROVE  raids'[p].back <= raids[p].back \/ raids'[p].back <= now
<1>1. p \in Players /\ now \in Nat /\ raids[p] \in Raid /\ raids[p].back \in Nat
  BY DEF TypeOK, Raid
<1>2. ASSUME raids'[p].back = raids[p].back
      PROVE  raids'[p].back <= raids[p].back
  BY <1>1, <1>2
<1>3. ASSUME NEW q \in Players, Handler(q)
      PROVE  raids'[p].back <= raids[p].back \/ raids'[p].back <= now
  <2>1. CASE TurnAround(q)
    <3>1. raids' = [raids EXCEPT ![q] = TurnedHome(raids[q])] /\ q \in DOMAIN raids
      BY <2>1 DEF TurnAround, OnTheRoad
    <3>2. CASE p = q
      BY <3>1, <3>2, TurnedHomeBack
    <3>3. CASE p # q
      BY <3>1, <3>3, <1>2
    <3>4. QED
      BY <3>2, <3>3
  <2>2. CASE \E t \in Players, leg \in Legs, gift \in Gifts \cup {0}, load \in Loads \cup {Nothing} :
               SetOff(q, t, leg, gift, load)
    BY <2>2, <1>2 DEF SetOff, OnTheRoad
  <2>3. CASE \E load \in Loads : ThrowAtPlace(q, load)
    BY <2>3, <1>2 DEF ThrowAtPlace, StartAllOver
  <2>4. CASE ClaimDefended(q) \/ ClaimTaken(q) \/ WalkOut(q) \/ GearErrand(q) \/ BurnBalloon(q)
             \/ PlayerSeen(q)
    BY <2>4, <1>2 DEF ClaimDefended, ClaimTaken, WalkOut, GearErrand, BurnBalloon, PlayerSeen
  <2>5. QED
    BY <1>3, <2>1, <2>2, <2>3, <2>4 DEF Handler
<1>4. ASSUME NEW q \in Players, Visit(q)
      PROVE  raids'[p].back <= raids[p].back \/ raids'[p].back <= now
  <2>1. CASE ThrowAtHouse(q)
    <3> DEFINE rs == [raids EXCEPT ![q] = [raids[q] EXCEPT !.arrived = TRUE, !.load = Nothing]]
    <3>1. q \in DOMAIN raids /\ raids[q] \in Raid
      BY <2>1 DEF ThrowAtHouse, Arriving, Visiting, OnTheRoad, TypeOK
    <3>2. DOMAIN rs = DOMAIN raids /\ rs[p].back = raids[p].back
      BY <3>1, <1>1 DEF Raid
    <3>3. PICK v : Land(v, raids[q].load, rs)
      BY <2>1 DEF ThrowAtHouse
    <3>4. rs[p] \in Raid
      BY <3>1, <1>1, RaidUpdates DEF TypeOK
    <3> HIDE DEF rs
    <3>5. CASE raids' = rs
      BY <3>2, <3>5, <1>2
    <3>6. CASE raids' = [rs EXCEPT ![v] = [rs[v] EXCEPT !.arrived = TRUE, !.back = now,
                                             !.loot = 0, !.gift = 0, !.load = Nothing]]
      <4>1. CASE p = v
        <5>1. raids'[p].back = now
          BY <3>2, <3>4, <3>6, <4>1 DEF Raid
        <5>2. QED
          BY <5>1, <1>1
      <4>2. CASE p # v
        BY <3>2, <3>6, <4>2, <1>2
      <4>3. QED
        BY <4>1, <4>2
    <3>7. QED
      BY <3>3, <3>5, <3>6 DEF Land, StartOver
  <2>2. CASE raids' = raids
    BY <2>2, <1>2
  <2>3. ASSUME NEW new, raids' = [raids EXCEPT ![q] = new], new.back = raids[q].back
        PROVE  raids'[p].back <= raids[p].back
    BY <2>3, <1>2
  <2>4. q \in DOMAIN raids /\ raids[q] \in Raid
    BY <1>4 DEF Visit, DeliverPalle, DeliverPresent, ThrowAtHouse, HeldOff, Rob, ComeHome,
                PassBy, Robbing, Arriving, Visiting, OnTheRoad, TypeOK
  <2>5. CASE DeliverPalle(q)
    BY <2>3, <2>4, <2>5 DEF DeliverPalle, Raid
  <2>6. CASE DeliverPresent(q)
    BY <2>3, <2>4, <2>6 DEF DeliverPresent, Raid
  <2>7. CASE HeldOff(q)
    BY <2>3, <2>4, <2>7 DEF HeldOff, Raid
  <2>8. CASE Rob(q)
    <3>1. PICK loot : raids' = [raids EXCEPT ![q] = [raids[q] EXCEPT !.arrived = TRUE, !.loot = loot]]
      BY <2>8 DEF Rob
    <3>2. QED
      BY <2>3, <2>4, <3>1 DEF Raid
  <2>9. CASE ComeHome(q) \/ PassBy(q)
    BY <2>2, <2>9 DEF ComeHome, PassBy
  <2>10. QED
    BY <1>4, <2>1, <2>5, <2>6, <2>7, <2>8, <2>9 DEF Visit
<1>5. CASE RoundEnds
  BY <1>5, <1>2 DEF RoundEnds
<1>6. CASE RoundBegins \/ Tick \/ LateCall \/ InVain \/ UNCHANGED vars
  BY <1>6, <1>2 DEF RoundBegins, Tick, LateCall, InVain, vars
<1>7. QED
  BY <1>3, <1>4, <1>5, <1>6 DEF Next, Keeper

\* Turning back, being caught by a ☢️ and everything the keeper does at the target
\* leave the homecoming when it was or bring it forward.
THEOREM HomeOnTime == Spec => NobodyComesHomeLater
<1>1. TypeOK /\ [Next]_vars =>
        [\A p \in DOMAIN raids \cap DOMAIN raids' :
           raids'[p].back <= raids[p].back \/ raids'[p].back <= now]_vars
  BY HomecomingStep
<1>2. QED
  BY <1>1, Typed, PTL DEF Spec, NobodyComesHomeLater

-----------------------------------------------------------------------------
(* Where a 🎈 wears. *)

LEMMA WearStep ==
  ASSUME TypeOK, [Next]_vars, NEW p \in Players, wear'[p] > wear[p]
  PROVE  /\ ~Frozen(p)
         /\ IF walk = Idle THEN balloon[p] = "carried" /\ hold.who = p
            ELSE \/ balloon[p] = "house"
                 \/ balloon[p] = "carried" /\ hold.who # p /\ ~OnTheRoad(p)
<1>1. wear[p] \in Nat /\ ~(wear[p] > wear[p]) /\ ~(0 > wear[p])
  BY ConstantsOK DEF TypeOK
<1>2. wear' # wear
  BY <1>1
<1>3. ASSUME NEW v, wear' = [wear EXCEPT ![v] = 0]
      PROVE  FALSE
  BY <1>1, <1>3 DEF TypeOK
<1>4. ASSUME NEW v, wear' = [wear EXCEPT ![v] = @ + 1]
      PROVE  p = v
  BY <1>1, <1>4 DEF TypeOK
<1>5. ASSUME NEW q \in Players, Handler(q)
      PROVE  walk = Idle /\ ~Frozen(p) /\ balloon[p] = "carried" /\ hold.who = p
  <2>1. CASE ClaimDefended(q)
    <3>1. p = hold.who
      BY <2>1, <1>4 DEF ClaimDefended
    <3>2. walk = Idle /\ BalloonThere(p, "conquister")
      BY <2>1, <3>1 DEF ClaimDefended, MayTry, Acts
    <3>3. QED
      BY <3>1, <3>2 DEF BalloonThere
  <2>2. CASE ClaimTaken(q)
    BY <2>2, <1>2, <1>3 DEF ClaimTaken
  <2>3. CASE \E load \in Loads : ThrowAtPlace(q, load)
    <3>1. CASE StartAllOver
      BY <3>1, <1>1 DEF StartAllOver
    <3>2. CASE UNCHANGED guards
      BY <3>2, <1>2 DEF guards
    <3>3. QED
      BY <2>3, <3>1, <3>2 DEF ThrowAtPlace
  <2>4. CASE \E t \in Players, leg \in Legs, gift \in Gifts \cup {0}, load \in Loads \cup {Nothing} :
               SetOff(q, t, leg, gift, load)
    BY <2>4, <1>2 DEF SetOff, guards
  <2>5. CASE WalkOut(q) \/ GearErrand(q) \/ BurnBalloon(q) \/ TurnAround(q) \/ PlayerSeen(q)
    BY <2>5, <1>2 DEF WalkOut, GearErrand, BurnBalloon, TurnAround, PlayerSeen, guards
  <2>6. QED
    BY <1>5, <2>1, <2>2, <2>3, <2>4, <2>5 DEF Handler
<1>6. ASSUME NEW q \in Players, Visit(q)
      PROVE  /\ walk # Idle /\ ~Frozen(p)
             /\ \/ balloon[p] = "house"
                \/ balloon[p] = "carried" /\ hold.who # p /\ ~OnTheRoad(p)
  <2>1. CASE HeldOff(q)
    <3>1. p = raids[q].target
      BY <2>1, <1>4 DEF HeldOff
    <3>2. walk # Idle /\ BalloonThere(p, "home")
      BY <2>1, <3>1 DEF HeldOff, Robbing, Arriving, Visiting
    <3>3. QED
      BY <3>2 DEF BalloonThere, Whereabouts
  <2>2. CASE Rob(q)
    BY <2>2, <1>2, <1>3 DEF Rob
  <2>3. CASE ThrowAtHouse(q)
    <3>1. ASSUME NEW v, NEW rs, StartOver(v, rs)
          PROVE  FALSE
      BY <3>1, <1>3 DEF StartOver
    <3>2. CASE UNCHANGED guards
      BY <3>2, <1>2 DEF guards
    <3>3. QED
      BY <2>3, <3>1, <3>2 DEF ThrowAtHouse, Land
  <2>4. CASE DeliverPalle(q) \/ DeliverPresent(q) \/ ComeHome(q) \/ PassBy(q)
    BY <2>4, <1>2 DEF DeliverPalle, DeliverPresent, ComeHome, PassBy, guards
  <2>5. QED
    BY <1>6, <2>1, <2>2, <2>3, <2>4 DEF Visit
<1>7. CASE RoundBegins \/ RoundEnds \/ Tick \/ LateCall \/ InVain \/ UNCHANGED vars
  BY <1>7, <1>2 DEF RoundBegins, RoundEnds, Tick, LateCall, InVain, vars, guards
<1>8. QED
  BY <1>5, <1>6, <1>7 DEF Next, Keeper

\* No attempt ever counts against a 🎈 that is not guarding: the one of a frozen
\* owner, or of one who is elsewhere with it.
THEOREM WornWhereItGuards == Spec => BalloonWearsWhereItGuards
<1>1. TypeOK /\ [Next]_vars =>
        [\A p \in Players :
           wear'[p] > wear[p] =>
             /\ ~Frozen(p)
             /\ IF walk = Idle THEN balloon[p] = "carried" /\ hold.who = p
                ELSE \/ balloon[p] = "house"
                     \/ balloon[p] = "carried" /\ hold.who # p /\ ~OnTheRoad(p)]_vars
  BY WearStep
<1>2. QED
  BY <1>1, Typed, PTL DEF Spec, BalloonWearsWhereItGuards

-----------------------------------------------------------------------------
(* What is on its way to a newcomer. *)

\* Only whom the bot has met is anybody's target; without it, a newcomer could
\* come in with a robber already on his way.
TargetsAreKnown == \A p \in DOMAIN raids : raids[p].target \in seen

SparedInv == TargetsAreKnown /\ NoBlowOnItsWayToANewcomer

\* Whether q is still a newcomer after the step.
StillNewcomer(q) == joined'[q] # Never /\ clock' - joined'[q] < NewcomerSeconds

\* A raid that went no further than changing what it carries towards nobody new.
LEMMA SparedRide ==
  ASSUME TypeOK, SparedInv, NEW rs, NEW p \in DOMAIN rs, p \in DOMAIN raids,
         rs[p].target = raids[p].target,
         rs[p].arrived \/ rs[p] = raids[p],
         seen \subseteq seen', joined'[raids[p].target] = joined[raids[p].target],
         clock' \in Nat, clock <= clock'
  PROVE  /\ rs[p].target \in seen'
         /\ ~rs[p].arrived /\ Blow(rs[p].gift, rs[p].load) => ~StillNewcomer(rs[p].target)
<1>1. raids[p].target \in Players /\ clock \in Nat
  BY DEF TypeOK, Raid
<1> DEFINE first == joined[raids[p].target]
           later == clock'
<1>2. first \in Int /\ later \in Nat /\ clock <= later
  BY <1>1 DEF TypeOK, Never
<1>3. joined'[rs[p].target] = first
  OBVIOUS
<1>4. NewAt(raids[p].target, clock) = (first # Never /\ clock - first < NewcomerSeconds)
  BY DEF NewAt
<1>5. StillNewcomer(rs[p].target) = (first # Never /\ later - first < NewcomerSeconds)
  BY <1>3 DEF StillNewcomer
<1> HIDE DEF first, later
<1>6. later - first < NewcomerSeconds => clock - first < NewcomerSeconds
  BY <1>1, <1>2, ConstantsOK
<1>7. StillNewcomer(rs[p].target) => NewAt(raids[p].target, clock)
  BY <1>4, <1>5, <1>6
<1>8. QED
  BY <1>7 DEF SparedInv, TargetsAreKnown, NoBlowOnItsWayToANewcomer

\* The keeper never changes whom a ride goes to, nor sends anybody out again.
LEMMA VisitedRides ==
  ASSUME TypeOK, NEW q \in Players, Visit(q), NEW p \in DOMAIN raids'
  PROVE  /\ p \in DOMAIN raids
         /\ raids'[p].target = raids[p].target
         /\ raids'[p].arrived \/ raids'[p] = raids[p]
<1>1. q \in DOMAIN raids /\ raids[q] \in Raid /\ DOMAIN raids' = DOMAIN raids
  BY VisitFrame DEF Visit, DeliverPalle, DeliverPresent, ThrowAtHouse, HeldOff, Rob, ComeHome,
         PassBy, Robbing, Arriving, Visiting, OnTheRoad, TypeOK
<1>2. ASSUME NEW new, raids' = [raids EXCEPT ![q] = new], new.target = raids[q].target, new.arrived
      PROVE  /\ raids'[p].target = raids[p].target
             /\ raids'[p].arrived \/ raids'[p] = raids[p]
  BY <1>1, <1>2
<1>3. CASE DeliverPalle(q)
  BY <1>1, <1>2, <1>3 DEF DeliverPalle, Raid
<1>4. CASE DeliverPresent(q)
  <2>1. PICK left : raids' = [raids EXCEPT ![q] = [raids[q] EXCEPT !.arrived = TRUE, !.load = left]]
    BY <1>4 DEF DeliverPresent
  <2>2. QED
    BY <1>1, <1>2, <2>1 DEF Raid
<1>5. CASE HeldOff(q)
  BY <1>1, <1>2, <1>5 DEF HeldOff, Raid
<1>6. CASE Rob(q)
  <2>1. PICK loot : raids' = [raids EXCEPT ![q] = [raids[q] EXCEPT !.arrived = TRUE, !.loot = loot]]
    BY <1>6 DEF Rob
  <2>2. QED
    BY <1>1, <1>2, <2>1 DEF Raid
<1>7. CASE ComeHome(q) \/ PassBy(q)
  BY <1>1, <1>7 DEF ComeHome, PassBy
<1>8. CASE ThrowAtHouse(q)
  <2> DEFINE rs == [raids EXCEPT ![q] = [raids[q] EXCEPT !.arrived = TRUE, !.load = Nothing]]
  <2>1. PICK v : Land(v, raids[q].load, rs)
    BY <1>8 DEF ThrowAtHouse
  <2>2. [raids[q] EXCEPT !.arrived = TRUE, !.load = Nothing] \in Raid
    BY <1>1, RaidUpdates
  <2>3. /\ DOMAIN rs = DOMAIN raids /\ rs \in [DOMAIN raids -> Raid]
        /\ rs[p].target = raids[p].target /\ (rs[p].arrived \/ rs[p] = raids[p])
    BY <1>1, <2>2 DEF Raid, TypeOK
  <2> HIDE DEF rs
  <2>4. CASE raids' = rs
    BY <1>1, <2>3, <2>4
  <2>5. CASE raids' = [rs EXCEPT ![v] = [rs[v] EXCEPT !.arrived = TRUE, !.back = now,
                                           !.loot = 0, !.gift = 0, !.load = Nothing]]
    <3>1. CASE p = v
      BY <1>1, <2>3, <2>5, <3>1 DEF Raid
    <3>2. CASE p # v
      BY <1>1, <2>3, <2>5, <3>2
    <3>3. QED
      BY <3>1, <3>2
  <2>6. QED
    BY <2>1, <2>4, <2>5 DEF Land, StartOver
<1>9. QED
  BY <1>1, <1>3, <1>4, <1>5, <1>6, <1>7, <1>8 DEF Visit

LEMMA SparedStep ==
  ASSUME TypeOK, SparedInv, [Next]_vars
  PROVE  SparedInv'
<1> DEFINE Kept == /\ \A p \in DOMAIN raids' :
                        /\ p \in DOMAIN raids
                        /\ raids'[p].target = raids[p].target
                        /\ raids'[p].arrived \/ raids'[p] = raids[p]
                        /\ joined'[raids[p].target] = joined[raids[p].target]
                   /\ seen \subseteq seen' /\ clock' \in Nat /\ clock <= clock'
<1>1. ASSUME Kept PROVE SparedInv'
  <2>1. ASSUME NEW p \in DOMAIN raids'
        PROVE  /\ raids'[p].target \in seen'
               /\ ~raids'[p].arrived /\ Blow(raids'[p].gift, raids'[p].load)
                  => ~StillNewcomer(raids'[p].target)
    <3> DEFINE rs == raids'
    <3>1. p \in DOMAIN rs /\ p \in DOMAIN raids /\ rs[p].target = raids[p].target
          /\ (rs[p].arrived \/ rs[p] = raids[p])
          /\ joined'[raids[p].target] = joined[raids[p].target]
          /\ seen \subseteq seen' /\ clock' \in Nat /\ clock <= clock'
      BY <1>1, <2>1
    <3>2. QED
      BY <3>1, SparedRide
  <2>2. QED
    BY <2>1 DEF SparedInv, TargetsAreKnown, NoBlowOnItsWayToANewcomer, StillNewcomer, NewAt, Blow
<1>2. now \in Nat /\ clock \in Nat /\ now <= clock
  BY DEF TypeOK
<1>3. \A p \in DOMAIN raids : raids[p].target \in seen /\ raids[p] \in Raid
  BY DEF SparedInv, TargetsAreKnown, TypeOK
<1>4. ASSUME NEW q \in Players, Visit(q)
      PROVE  SparedInv'
  <2>1. UNCHANGED <<clock, seen, joined>>
    BY <1>4 DEF Visit, DeliverPalle, DeliverPresent, ThrowAtHouse, HeldOff, Rob, ComeHome, PassBy, people,
       moment
  <2>2. QED
    BY <1>1, <1>2, <1>4, <2>1, VisitedRides
<1>5. ASSUME NEW q \in Players, Handler(q), CallReturns
      PROVE  SparedInv'
  <2>1. ASSUME NEW t \in Players, NEW leg \in Legs, NEW gift \in Gifts \cup {0},
               NEW load \in Loads \cup {Nothing}, SetOff(q, t, leg, gift, load)
        PROVE  SparedInv'
    <3>1. t \in seen /\ ~Spared(t, gift, load) /\ UNCHANGED <<clock, seen, joined>>
      BY <1>5, <2>1 DEF SetOff, people, CallReturns
    <3>2. ASSUME NEW p \in DOMAIN raids', p # q
          PROVE  p \in DOMAIN raids /\ raids'[p] = raids[p]
      BY <2>1, <3>2 DEF SetOff
    <3>3. q \in DOMAIN raids' => /\ raids'[q].target = t /\ raids'[q].gift = gift
                                 /\ raids'[q].load = load
      BY <1>5, <2>1 DEF SetOff
    <3>4. NewAt(t, clock) => Newcomer(t)
      <4>1. t \in Players /\ joined[t] \in Int
        BY <2>1 DEF TypeOK, Never
      <4> QED
        BY <1>2, <4>1, ConstantsOK DEF Newcomer, NewAt
    <3>6. \A s : NewAt(s, clock)' = NewAt(s, clock)
      BY <3>1 DEF NewAt
    <3>5. QED
      BY <3>1, <3>2, <3>3, <3>4, <3>6
         DEF SparedInv, TargetsAreKnown, NoBlowOnItsWayToANewcomer, Spared
  <2>2. CASE TurnAround(q)
    <3>1. q \in DOMAIN raids /\ raids' = [raids EXCEPT ![q] = TurnedHome(raids[q])]
          /\ UNCHANGED <<clock, seen, joined>>
      BY <1>5, <2>2 DEF TurnAround, OnTheRoad, people, CallReturns
    <3>2. TurnedHome(raids[q]).arrived /\ TurnedHome(raids[q]).target = raids[q].target
      BY <1>3, <3>1 DEF TurnedHome, Raid
    <3>3. QED
      BY <1>1, <1>2, <3>1, <3>2
  <2>3. CASE \E load \in Loads : ThrowAtPlace(q, load)
    <3>1. UNCHANGED <<clock, seen, joined>> /\ (raids' = raids \/ DOMAIN raids' = {})
      BY <1>5, <2>3 DEF ThrowAtPlace, StartAllOver, people, CallReturns
    <3>2. QED
      BY <1>1, <1>2, <3>1
  <2>4. CASE PlayerSeen(q)
    <3>1. q \notin seen /\ seen' = seen \cup {q} /\ joined' = [joined EXCEPT ![q] = now]
          /\ UNCHANGED <<clock, raids>>
      BY <1>5, <2>4 DEF PlayerSeen, CallReturns
    <3>2. \A p \in DOMAIN raids : joined'[raids[p].target] = joined[raids[p].target]
      BY <1>3, <3>1 DEF TypeOK
    <3>3. QED
      BY <1>1, <1>2, <3>1, <3>2
  <2>5. CASE ClaimDefended(q) \/ ClaimTaken(q) \/ WalkOut(q) \/ GearErrand(q) \/ BurnBalloon(q)
    <3>1. UNCHANGED <<clock, seen, joined, raids>>
      BY <1>5, <2>5 DEF ClaimDefended, ClaimTaken, WalkOut, GearErrand, BurnBalloon, people, CallReturns
    <3>2. QED
      BY <1>1, <1>2, <3>1
  <2>6. QED
    BY <1>5, <2>1, <2>2, <2>3, <2>4, <2>5 DEF Handler
<1>6. CASE RoundEnds
  BY <1>1, <1>2, <1>6 DEF RoundEnds, people, CallReturns
<1>7. CASE Tick
  BY <1>1, <1>2, <1>7 DEF Tick, people
<1>8. CASE RoundBegins \/ LateCall \/ InVain \/ UNCHANGED vars
  BY <1>1, <1>2, <1>8 DEF RoundBegins, LateCall, InVain, CallReturns, vars, people, moment
<1>9. QED
  BY <1>4, <1>5, <1>6, <1>7, <1>8 DEF Next, Keeper

\* The protection is checked once, when somebody sets off, and holds all the way:
\* a newcomer is never the target of a blow that left before he came in.
THEOREM NewcomersSpared == Spec => []NoBlowOnItsWayToANewcomer
<1>1. Init => SparedInv
  BY DEF Init, SparedInv, TargetsAreKnown, NoBlowOnItsWayToANewcomer
<1>2. TypeOK /\ SparedInv /\ [Next]_vars => SparedInv'
  BY SparedStep
<1>3. SparedInv => NoBlowOnItsWayToANewcomer
  BY DEF SparedInv
<1>4. QED
  BY <1>1, <1>2, <1>3, Typed, PTL DEF Spec

-----------------------------------------------------------------------------
(* Loot and presents. *)

\* What NobodyBothGivesAndRobs says of one raid.
Honest(r) == r.loot > 0 => r.arrived /\ r.gift = 0 /\ r.load = Nothing

\* Whatever a handler does to a raid leaves it honest.
LEMMA HonestUpdates ==
  ASSUME NEW r \in Raid, Honest(r), NEW n \in Nat, NEW left
  PROVE  /\ Honest([r EXCEPT !.arrived = TRUE])
         /\ Honest([r EXCEPT !.arrived = TRUE, !.back = n])
         /\ Honest([r EXCEPT !.arrived = TRUE, !.gift = 0])
         /\ ~r.arrived => Honest([r EXCEPT !.arrived = TRUE, !.load = left])
         /\ Honest([r EXCEPT !.arrived = TRUE, !.load = Nothing])
         /\ Honest([r EXCEPT !.arrived = TRUE, !.back = n, !.loot = 0, !.gift = 0, !.load = Nothing])
         /\ r.gift = 0 /\ r.load = Nothing => Honest([r EXCEPT !.arrived = TRUE, !.loot = n])
BY DEF Raid, Honest

LEMMA HonestVisit ==
  ASSUME TypeOK, \A p \in DOMAIN raids : Honest(raids[p]), NEW q \in Players, Visit(q)
  PROVE  \A p \in DOMAIN raids' : Honest(raids'[p])
<1>1. /\ q \in DOMAIN raids /\ raids[q] \in Raid /\ raids[q].arrived \in BOOLEAN
      /\ raids[q].loot \in Nat /\ raids[q].back \in Nat
  BY DEF Visit, DeliverPalle, DeliverPresent, ThrowAtHouse, HeldOff, Rob, ComeHome,
         PassBy, Robbing, Arriving, Visiting, OnTheRoad, TypeOK, Raid
<1>2. ASSUME NEW new, Honest(new), raids' = [raids EXCEPT ![q] = new]
      PROVE  \A p \in DOMAIN raids' : Honest(raids'[p])
  BY <1>2
<1>3. CASE DeliverPalle(q)
  BY <1>1, <1>2, <1>3, HonestUpdates DEF DeliverPalle
<1>4. CASE DeliverPresent(q)
  <2>1. PICK left : raids' = [raids EXCEPT ![q] = [raids[q] EXCEPT !.arrived = TRUE, !.load = left]]
    BY <1>4 DEF DeliverPresent
  <2>2. Honest([raids[q] EXCEPT !.arrived = TRUE, !.load = left])
    BY <1>1, <1>4, HonestUpdates DEF DeliverPresent, Arriving
  <2>3. QED
    BY <1>2, <2>1, <2>2
<1>5. CASE HeldOff(q)
  BY <1>1, <1>2, <1>5, HonestUpdates DEF HeldOff
<1>6. CASE Rob(q)
  <2>1. PICK share \in SaltShares : \E loot :
          /\ loot \in 0 .. (IF Salted(q, share)[raids[q].target] < Road
                            THEN Salted(q, share)[raids[q].target] ELSE Road)
          /\ raids' = [raids EXCEPT ![q] = [raids[q] EXCEPT !.arrived = TRUE, !.loot = loot]]
    BY <1>6 DEF Rob
  <2>2. PICK loot \in Nat :
          raids' = [raids EXCEPT ![q] = [raids[q] EXCEPT !.arrived = TRUE, !.loot = loot]]
    <3>1. raids[q].target \in Players
      BY <1>1 DEF Raid
    <3> DEFINE theirs == Salted(q, share)[raids[q].target]
    <3>2. theirs \in Nat /\ Road \in Nat
      BY <1>1, <3>1, SaltedType, ConstantsOK
    <3>3. PICK loot :
            /\ loot \in 0 .. (IF theirs < Road THEN theirs ELSE Road)
            /\ raids' = [raids EXCEPT ![q] = [raids[q] EXCEPT !.arrived = TRUE, !.loot = loot]]
      BY <2>1
    <3> HIDE DEF theirs
    <3>4. loot \in Nat
      BY <3>2, <3>3
    <3>5. QED
      BY <3>3, <3>4
  <2>3. Honest([raids[q] EXCEPT !.arrived = TRUE, !.loot = loot])
    BY <1>1, <1>6, <2>2, HonestUpdates DEF Rob, Robbing
  <2>4. QED
    BY <1>2, <2>2, <2>3
<1>7. CASE ComeHome(q) \/ PassBy(q)
  BY <1>7 DEF ComeHome, PassBy
<1>8. CASE ThrowAtHouse(q)
  <2> DEFINE rs == [raids EXCEPT ![q] = [raids[q] EXCEPT !.arrived = TRUE, !.load = Nothing]]
  <2>1. PICK v : Land(v, raids[q].load, rs)
    BY <1>8 DEF ThrowAtHouse
  <2>2. /\ [raids[q] EXCEPT !.arrived = TRUE, !.load = Nothing] \in Raid
        /\ Honest([raids[q] EXCEPT !.arrived = TRUE, !.load = Nothing])
    BY <1>1, RaidUpdates, HonestUpdates
  <2>3. rs \in [DOMAIN rs -> Raid] /\ \A p \in DOMAIN rs : Honest(rs[p])
    BY <2>2 DEF TypeOK
  <2> HIDE DEF rs
  <2>4. CASE raids' = rs
    BY <2>3, <2>4
  <2>5. CASE v \in DOMAIN rs /\ raids' = [rs EXCEPT ![v] = [rs[v] EXCEPT !.arrived = TRUE, !.back = now,
                                             !.loot = 0, !.gift = 0, !.load = Nothing]]
    <3>1. Honest([rs[v] EXCEPT !.arrived = TRUE, !.back = now,
                                !.loot = 0, !.gift = 0, !.load = Nothing])
      <4>1. rs[v] \in Raid /\ Honest(rs[v]) /\ now \in Nat
        BY <2>3, <2>5 DEF TypeOK
      <4>2. QED
        BY <4>1, HonestUpdates
    <3>2. QED
      BY <2>3, <2>5, <3>1
  <2>6. QED
    BY <2>1, <2>4, <2>5 DEF Land, StartOver
<1>9. QED
  BY <1>3, <1>4, <1>5, <1>6, <1>7, <1>8 DEF Visit

LEMMA HonestStep ==
  ASSUME TypeOK, NobodyBothGivesAndRobs, [Next]_vars
  PROVE  NobodyBothGivesAndRobs'
<1>1. \A p \in DOMAIN raids : Honest(raids[p])
  BY DEF NobodyBothGivesAndRobs, Honest
<1> SUFFICES \A p \in DOMAIN raids' : Honest(raids'[p])
  BY DEF NobodyBothGivesAndRobs, Honest
<1>2. CASE \E q \in Players : Visit(q)
  BY <1>1, <1>2, HonestVisit
<1>3. ASSUME NEW q \in Players, Handler(q)
      PROVE  \A p \in DOMAIN raids' : Honest(raids'[p])
  <2>1. CASE \E t \in Players, leg \in Legs, gift \in Gifts \cup {0}, load \in Loads \cup {Nothing} :
               SetOff(q, t, leg, gift, load)
    <3>1. PICK r : r.loot = 0 /\ raids' = [s \in DOMAIN raids \cup {q} |-> IF s = q THEN r ELSE raids[s]]
      BY <2>1 DEF SetOff
    <3>2. QED
      BY <1>1, <3>1 DEF Honest
  <2>2. CASE TurnAround(q)
    <3>1. q \in DOMAIN raids /\ raids' = [raids EXCEPT ![q] = TurnedHome(raids[q])]
      BY <2>2 DEF TurnAround, OnTheRoad
    <3>2. raids[q] \in Raid
      BY <3>1 DEF TypeOK
    <3>3. PICK n : TurnedHome(raids[q]) = [raids[q] EXCEPT !.arrived = TRUE, !.back = n]
      BY DEF TurnedHome
    <3>4. Honest(TurnedHome(raids[q]))
      BY <1>1, <3>1, <3>2, <3>3 DEF Raid, Honest
    <3>5. QED
      BY <1>1, <3>1, <3>4
  <2>3. CASE \E load \in Loads : ThrowAtPlace(q, load)
    BY <1>1, <2>3 DEF ThrowAtPlace, StartAllOver
  <2>4. CASE ClaimDefended(q) \/ ClaimTaken(q) \/ WalkOut(q) \/ GearErrand(q) \/ BurnBalloon(q)
             \/ PlayerSeen(q)
    BY <1>1, <2>4 DEF ClaimDefended, ClaimTaken, WalkOut, GearErrand, BurnBalloon, PlayerSeen
  <2>5. QED
    BY <1>3, <2>1, <2>2, <2>3, <2>4 DEF Handler
<1>4. CASE RoundEnds
  BY <1>1, <1>4 DEF RoundEnds
<1>5. CASE RoundBegins \/ Tick \/ LateCall \/ InVain \/ UNCHANGED vars
  BY <1>1, <1>5 DEF RoundBegins, Tick, LateCall, InVain, vars
<1>6. QED
  BY <1>2, <1>3, <1>4, <1>5 DEF Next, Keeper

\* Nobody on any road carries loot and a present at once, nor robs before arriving.
THEOREM GiveOrRob == Spec => []NobodyBothGivesAndRobs
<1>1. Init => NobodyBothGivesAndRobs
  BY DEF Init, NobodyBothGivesAndRobs
<1>2. TypeOK /\ NobodyBothGivesAndRobs /\ [Next]_vars => NobodyBothGivesAndRobs'
  BY HonestStep
<1>3. QED
  BY <1>1, <1>2, Typed, PTL DEF Spec

-----------------------------------------------------------------------------
(* Palle are moved, never made or lost. *)

\* No two rides set off at once, and nobody rides to himself.
Orders ==
  \A p \in DOMAIN raids :
    /\ raids[p].order <= departed /\ raids[p].target # p
    /\ \A q \in DOMAIN raids : raids[q].order = raids[p].order => q = p

\* A homecoming is settled once, of a ride that the same round takes off the list; and no
\* other that it takes off has anything left to bring home.
RoundGoesOn ==
  /\ walk = Idle => settled = {}
  /\ \A p \in settled : p \in DOMAIN raids /\ raids[p].order <= walk /\ Over(raids[p])
  /\ \A p \in DOMAIN raids \ settled :
       raids[p].order <= walk /\ Over(raids[p]) => raids[p].loot = 0 /\ raids[p].gift = 0

Places == Players \X {"purse", "ride"}

\* Who has how many palle, and where.
Holdings == [w \in Places |-> IF w[2] = "purse" THEN scores[w[1]] ELSE Riding(w[1])]

Balanced == Counted(Holdings, ledger)

PalleInv == TypeOK /\ NobodyBothGivesAndRobs /\ Orders /\ RoundGoesOn /\ Balanced

LEMMA RidingType ==
  ASSUME TypeOK
  PROVE  \A p \in Players : Riding(p) \in Nat
<1> SUFFICES ASSUME NEW p \in Players PROVE Riding(p) \in Nat
  OBVIOUS
<1>1. CASE p \in DOMAIN raids \ settled
  <2>1. raids[p] \in Raid
    BY <1>1 DEF TypeOK
  <2> QED
    BY <1>1, <2>1 DEF Riding, Raid
<1>2. CASE p \notin DOMAIN raids \ settled
  BY <1>2 DEF Riding
<1> QED
  BY <1>1, <1>2

HoldingsAre ==
  /\ Holdings \in [Places -> Nat]
  /\ \A p \in Players : /\ <<p, "purse">> \in Places /\ Holdings[<<p, "purse">>] = scores[p]
                        /\ <<p, "ride">> \in Places /\ Holdings[<<p, "ride">>] = Riding(p)

LEMMA HoldingsType == TypeOK => HoldingsAre
<1> SUFFICES ASSUME TypeOK PROVE HoldingsAre
  OBVIOUS
<1>1. \A p \in Players : scores[p] \in Nat /\ Riding(p) \in Nat
  BY RidingType DEF TypeOK
<1>2. \A w \in Places : w[1] \in Players
  BY DEF Places
<1> QED
  BY <1>1, <1>2 DEF HoldingsAre, Holdings, Places

LEMMA HoldingsTypeNext == TypeOK' => HoldingsAre'
BY HoldingsType, PTL

LEMMA PalleAreHoldings ==
  ASSUME TypeOK
  PROVE  Palle = CoinsOf(Holdings)
<1>1. /\ Holdings \in [Places -> Nat]
      /\ \A p \in Players : /\ <<p, "purse">> \in Places /\ Holdings[<<p, "purse">>] = scores[p]
                            /\ <<p, "ride">> \in Places /\ Holdings[<<p, "ride">>] = Riding(p)
  BY HoldingsType DEF HoldingsAre
<1>2. \A x : x \in CoinsOf(Holdings) <=> \E w \in Places : \E i \in 1 .. Holdings[w] : x = <<w, i>>
  BY <1>1, CoinsAre
<1> DEFINE purse(p) == <<p, "purse">>
           ride(p) == <<p, "ride">>
           purses == UNION {{purse(p)} \X (1 .. scores[p]) : p \in Players}
           rides == UNION {{ride(p)} \X (1 .. Riding(p)) : p \in Players}
<1>3. Palle = purses \cup rides
  BY DEF Palle
<1> HIDE DEF purse, ride
<1>7. \A x : x \in purses <=> \E p \in Players : \E i \in 1 .. scores[p] : x = <<purse(p), i>>
  OBVIOUS
<1>8. \A x : x \in rides <=> \E p \in Players : \E i \in 1 .. Riding(p) : x = <<ride(p), i>>
  OBVIOUS
<1> HIDE DEF purses, rides
<1>9. \A p \in Players : /\ purse(p) \in Places /\ Holdings[purse(p)] = scores[p]
                         /\ ride(p) \in Places /\ Holdings[ride(p)] = Riding(p)
  BY <1>1 DEF purse, ride
<1>4. \A w \in Places : \E p \in Players : w = purse(p) \/ w = ride(p)
  BY DEF Places, purse, ride
<1>5. ASSUME NEW x \in Palle PROVE x \in CoinsOf(Holdings)
  BY <1>2, <1>3, <1>5, <1>7, <1>8, <1>9
<1>6. ASSUME NEW x \in CoinsOf(Holdings) PROVE x \in Palle
  <2>1. PICK w \in Places : \E i \in 1 .. Holdings[w] : x = <<w, i>>
    BY <1>2
  <2>2. PICK i \in 1 .. Holdings[w] : x = <<w, i>>
    BY <2>1
  <2>3. PICK p \in Players : w = purse(p) \/ w = ride(p)
    BY <1>4
  <2> QED
    BY <1>3, <1>7, <1>8, <1>9, <2>2, <2>3
<1> QED
  BY <1>5, <1>6

\* Palle go into or out of one purse and one ride.
LEMMA Moved ==
  ASSUME TypeOK, TypeOK', Balanced, NEW p \in Players, NEW r \in Players,
         \A j \in Players : j # p => scores'[j] = scores[j],
         \A j \in Players : j # r => Riding(j)' = Riding(j),
         ledger' = ledger + (scores'[p] - scores[p]) + (Riding(r)' - Riding(r))
  PROVE  Balanced'
<1> DEFINE f == Holdings
           g == Holdings'
           k == <<p, "purse">>
           l == <<r, "ride">>
<1>1. /\ f \in [Places -> Nat] /\ k \in Places /\ l \in Places /\ k # l
      /\ f[k] = scores[p] /\ f[l] = Riding(r)
  BY HoldingsType DEF HoldingsAre
<1>2. g \in [Places -> Nat] /\ g[k] = scores'[p] /\ g[l] = Riding(r)'
  BY HoldingsTypeNext DEF HoldingsAre
<1>3. ASSUME NEW w \in Places, w # k, w # l PROVE g[w] = f[w]
  <2>1. PICK j \in Players : w = <<j, "purse">> \/ w = <<j, "ride">>
    BY DEF Places
  <2>2. CASE w = <<j, "purse">>
    BY <1>3, <2>2, HoldingsType, HoldingsTypeNext DEF HoldingsAre
  <2>3. CASE w = <<j, "ride">>
    BY <1>3, <2>3, HoldingsType, HoldingsTypeNext DEF HoldingsAre
  <2> QED
    BY <2>1, <2>2, <2>3
<1>4. ledger \in Int /\ Counted(f, ledger)
  BY DEF TypeOK, Balanced
<1> HIDE DEF f, g, k, l
<1>5. Counted(g, ledger + (g[k] - f[k]) + (g[l] - f[l]))
  BY <1>1, <1>2, <1>3, <1>4, TwoChanged
<1>6. Counted(g, ledger')
  BY <1>1, <1>2, <1>5
<1> QED
  BY <1>6 DEF g, Balanced, Counted, CoinsOf

\* Palle go into or out of two purses and one ride.
LEMMA MovedOn ==
  ASSUME TypeOK, TypeOK', Balanced, NEW p \in Players, NEW q \in Players, p # q, NEW r \in Players,
         \A j \in Players : j # p /\ j # q => scores'[j] = scores[j],
         \A j \in Players : j # r => Riding(j)' = Riding(j),
         ledger' = ledger + (scores'[p] - scores[p]) + (scores'[q] - scores[q])
                   + (Riding(r)' - Riding(r))
  PROVE  Balanced'
<1> DEFINE f == Holdings
           g == Holdings'
           k == <<p, "purse">>
           m == <<q, "purse">>
           l == <<r, "ride">>
<1>1. /\ f \in [Places -> Nat] /\ k \in Places /\ l \in Places /\ m \in Places
      /\ k # l /\ k # m /\ m # l
      /\ f[k] = scores[p] /\ f[m] = scores[q] /\ f[l] = Riding(r)
  BY HoldingsType DEF HoldingsAre
<1>2. g \in [Places -> Nat] /\ g[k] = scores'[p] /\ g[m] = scores'[q] /\ g[l] = Riding(r)'
  BY HoldingsTypeNext DEF HoldingsAre
<1>3. ASSUME NEW w \in Places, w # k, w # l, w # m PROVE g[w] = f[w]
  <2>1. PICK j \in Players : w = <<j, "purse">> \/ w = <<j, "ride">>
    BY DEF Places
  <2>2. CASE w = <<j, "purse">>
    BY <1>3, <2>2, HoldingsType, HoldingsTypeNext DEF HoldingsAre
  <2>3. CASE w = <<j, "ride">>
    BY <1>3, <2>3, HoldingsType, HoldingsTypeNext DEF HoldingsAre
  <2> QED
    BY <2>1, <2>2, <2>3
<1>4. ledger \in Int /\ Counted(f, ledger)
  BY DEF TypeOK, Balanced
<1> HIDE DEF f, g, k, l, m
<1>5. Counted(g, ledger + (g[k] - f[k]) + (g[m] - f[m]) + (g[l] - f[l]))
  BY <1>1, <1>2, <1>3, <1>4, ThreeChanged
<1>6. Counted(g, ledger')
  BY <1>1, <1>2, <1>5
<1> QED
  BY <1>6 DEF g, Balanced, Counted, CoinsOf

\* Nothing moves.
LEMMA Unmoved ==
  ASSUME Balanced, UNCHANGED <<scores, ledger>>, \A j \in Players : Riding(j)' = Riding(j)
  PROVE  Balanced'
<1>1. Holdings' = Holdings
  BY DEF Holdings, Places
<1> QED
  BY <1>1 DEF Balanced, Counted, CoinsOf

-----------------------------------------------------------------------------

\* A ride the round has still to visit may change in any way but its place in the list;
\* one that is called off brings nothing home.
LEMMA RidesGoOn ==
  ASSUME TypeOK, Orders, RoundGoesOn, now' = now \/ walk = Idle,
         UNCHANGED <<departed, walk, settled>>,
         DOMAIN raids' = DOMAIN raids,
         \A j \in DOMAIN raids : /\ raids'[j].order = raids[j].order
                                /\ raids'[j].target = raids[j].target
                                /\ \/ raids[j].order > walk
                                   \/ raids'[j] = raids[j]
                                   \/ /\ Over(raids[j])'
                                      /\ raids'[j].loot = 0 /\ raids'[j].gift = 0
  PROVE  Orders' /\ RoundGoesOn'
<1>1. Orders'
  BY DEF Orders
<1>2. \A j \in DOMAIN raids : raids[j].order \in Nat /\ walk \in Int
  BY DEF TypeOK, Raid, Idle
<1>3. \A p \in settled' : p \in DOMAIN raids' /\ raids'[p].order <= walk' /\ Over(raids[p])'
  <2> SUFFICES ASSUME NEW p \in settled
               PROVE  p \in DOMAIN raids /\ raids'[p].order <= walk /\ Over(raids[p])'
    OBVIOUS
  <2>1. /\ p \in DOMAIN raids /\ raids[p].order <= walk /\ Over(raids[p])
        /\ now' = now
    BY DEF RoundGoesOn
  <2>2. ~(raids[p].order > walk)
    BY <1>2, <2>1
  <2> QED
    BY <2>1, <2>2 DEF Over
<1>4. ASSUME NEW p \in DOMAIN raids' \ settled', raids'[p].order <= walk', Over(raids[p])'
      PROVE  raids'[p].loot = 0 /\ raids'[p].gift = 0
  <2>1. p \in DOMAIN raids \ settled /\ raids[p].order <= walk
    BY <1>4
  <2>2. ~(raids[p].order > walk) /\ now' = now
    BY <1>2, <2>1 DEF Idle
  <2> QED
    BY <1>4, <2>1, <2>2 DEF RoundGoesOn, Over
<1>5. walk' = Idle => settled' = {}
  BY DEF RoundGoesOn
<1> QED
  BY <1>1, <1>3, <1>4, <1>5 DEF RoundGoesOn

\* One ride changes, that the round has still to visit.
LEMMA OneRide ==
  ASSUME TypeOK, Orders, RoundGoesOn, now' = now \/ walk = Idle,
         UNCHANGED <<departed, walk, settled>>,
         NEW p \in DOMAIN raids, NEW new, raids' = [raids EXCEPT ![p] = new],
         new.order = raids[p].order, new.target = raids[p].target, raids[p].order > walk
  PROVE  /\ Orders' /\ RoundGoesOn'
         /\ p \in Players /\ p \notin settled
         /\ \A j \in Players : j # p => Riding(j)' = Riding(j)
         /\ Riding(p) = raids[p].loot + raids[p].gift /\ Riding(p)' = new.loot + new.gift
<1>1. /\ DOMAIN raids' = DOMAIN raids /\ raids'[p] = new
      /\ \A j \in DOMAIN raids : j # p => raids'[j] = raids[j]
  BY DEF TypeOK
<1>2. Orders' /\ RoundGoesOn'
  BY <1>1, RidesGoOn
<1>3. p \in Players /\ p \notin settled
  <2>1. raids[p].order \in Nat /\ walk \in Int
    BY DEF TypeOK, Raid, Idle
  <2> QED
    BY <2>1 DEF TypeOK, RoundGoesOn
<1> QED
  BY <1>1, <1>2, <1>3 DEF Riding

\* What the keeper stands at.
LEMMA VisitingIs ==
  ASSUME TypeOK, Orders, RoundGoesOn, NEW p, Visiting(p)
  PROVE  /\ p \in DOMAIN raids /\ p \in Players /\ raids[p] \in Raid /\ p \notin settled
         /\ raids[p].target \in Players /\ raids[p].target # p
         /\ raids[p].order \in Nat /\ walk \in Nat /\ raids[p].order > walk
<1>1. p \in DOMAIN raids /\ raids[p].order > walk /\ walk # Idle
  BY DEF Visiting, OnTheRoad
<1>2. raids[p] \in Raid /\ p \in Players /\ walk \in Nat
  BY <1>1 DEF TypeOK
<1>3. raids[p].order \in Nat /\ raids[p].target \in Players
  BY <1>2 DEF Raid
<1> QED
  BY <1>1, <1>2, <1>3 DEF Orders, RoundGoesOn

\* Whoever set off no later than the rider visited was visited before him.
LEMMA NextInLine ==
  ASSUME TypeOK, Orders, RoundGoesOn, NEW p, Visiting(p),
         NEW j \in DOMAIN raids, raids[j].order <= raids[p].order
  PROVE  raids[j].order <= walk \/ j = p
<1>1. /\ raids[j].order \in Nat /\ raids[p].order \in Nat /\ walk \in Nat /\ p \in DOMAIN raids
  BY VisitingIs DEF TypeOK, Raid
<1>2. raids[j].order > walk => raids[j].order >= raids[p].order
  BY DEF Visiting
<1>3. raids[j].order = raids[p].order => j = p
  BY <1>1 DEF Orders
<1> QED
  BY <1>1, <1>2, <1>3

LEMMA DeliverPalleStep ==
  ASSUME PalleInv, TypeOK', NEW p \in Players, DeliverPalle(p)
  PROVE  Orders' /\ RoundGoesOn' /\ Balanced'
<1> DEFINE q == raids[p].target
           new == [raids[p] EXCEPT !.arrived = TRUE, !.gift = 0]
<1>1. /\ TypeOK /\ Orders /\ RoundGoesOn /\ Balanced /\ Visiting(p)
      /\ UNCHANGED <<now, departed, walk, settled>> /\ UNCHANGED ledger
      /\ raids' = [raids EXCEPT ![p] = new]
      /\ scores' = [scores EXCEPT ![q] = @ + raids[p].gift]
  BY DEF PalleInv, DeliverPalle, Arriving, keeper, moment
<1>2. /\ p \in DOMAIN raids /\ raids[p] \in Raid /\ q \in Players /\ raids[p].order > walk
  BY <1>1, VisitingIs
<1>3. /\ new.order = raids[p].order /\ new.target = raids[p].target
      /\ new.loot = raids[p].loot /\ new.gift = 0
  BY <1>2 DEF Raid
<1> HIDE DEF new
<1>4. /\ Orders' /\ RoundGoesOn'
      /\ \A j \in Players : j # p => Riding(j)' = Riding(j)
      /\ Riding(p) = raids[p].loot + raids[p].gift /\ Riding(p)' = new.loot + new.gift
  BY <1>1, <1>2, <1>3, OneRide
<1>5. /\ scores[q] \in Nat /\ raids[p].gift \in Nat /\ raids[p].loot \in Nat /\ ledger \in Int
      /\ scores'[q] = scores[q] + raids[p].gift
      /\ \A j \in Players : j # q => scores'[j] = scores[j]
  BY <1>1, <1>2 DEF TypeOK, Raid
<1>6. ledger' = ledger + (scores'[q] - scores[q]) + (Riding(p)' - Riding(p))
  BY <1>1, <1>3, <1>4, <1>5
<1>7. Balanced'
  <2> HIDE DEF q
  <2> QED
    BY <1>1, <1>2, <1>4, <1>5, <1>6, Moved
<1> QED
  BY <1>4, <1>7

LEMMA DeliverPresentStep ==
  ASSUME PalleInv, TypeOK', NEW p \in Players, DeliverPresent(p)
  PROVE  Orders' /\ RoundGoesOn' /\ Balanced'
<1>1. /\ TypeOK /\ Orders /\ RoundGoesOn /\ Balanced /\ Visiting(p)
      /\ UNCHANGED <<now, departed, walk, settled>> /\ UNCHANGED <<scores, ledger>>
  BY DEF PalleInv, DeliverPresent, Arriving, keeper, moment
<1>2. PICK left : raids' = [raids EXCEPT ![p] = [raids[p] EXCEPT !.arrived = TRUE, !.load = left]]
  BY DEF DeliverPresent
<1> DEFINE new == [raids[p] EXCEPT !.arrived = TRUE, !.load = left]
<1>3. p \in DOMAIN raids /\ raids[p] \in Raid /\ raids[p].order > walk
  BY <1>1, VisitingIs
<1>4. /\ new.order = raids[p].order /\ new.target = raids[p].target
      /\ new.loot = raids[p].loot /\ new.gift = raids[p].gift
  BY <1>3 DEF Raid
<1>5. raids' = [raids EXCEPT ![p] = new]
  BY <1>2
<1> HIDE DEF new
<1>6. /\ Orders' /\ RoundGoesOn'
      /\ \A j \in Players : j # p => Riding(j)' = Riding(j)
      /\ Riding(p) = raids[p].loot + raids[p].gift /\ Riding(p)' = new.loot + new.gift
  BY <1>1, <1>3, <1>4, <1>5, OneRide
<1>7. \A j \in Players : Riding(j)' = Riding(j)
  BY <1>4, <1>6
<1>8. Balanced'
  BY <1>1, <1>7, Unmoved
<1> QED
  BY <1>6, <1>8

\* The salt goes from one purse into the other.
LEMMA SaltMoves ==
  ASSUME TypeOK, NEW p \in DOMAIN raids, raids[p].target # p, NEW share \in SaltShares
  PROVE  \E paid \in Nat :
           LET q == raids[p].target IN
           /\ Salted(p, share) \in [Players -> Nat] /\ p \in Players /\ q \in Players
           /\ Salted(p, share)[p] = scores[p] - paid
           /\ Salted(p, share)[q] = scores[q] + paid
           /\ \A j \in Players : j # p /\ j # q => Salted(p, share)[j] = scores[j]
<1> DEFINE paid == (scores[p] * share) \div 100
           q == raids[p].target
<1>1. p \in Players /\ q \in Players /\ scores \in [Players -> Nat] /\ share \in 0 .. 100
  BY ConstantsOK DEF TypeOK, Raid
<1>2. paid \in Nat
  <2>1. scores[p] \in Nat
    BY <1>1
  <2>2. paid \in 0 .. scores[p]
    BY <1>1, <2>1, ShareOf
  <2> QED
    BY <2>1, <2>2
<1>3. Salted(p, share) = [scores EXCEPT ![p] = @ - paid, ![q] = @ + paid]
  BY DEF Salted
<1> HIDE DEF paid, q
<1>4. q # p
  BY DEF q
<1>5. /\ Salted(p, share)[p] = scores[p] - paid /\ Salted(p, share)[q] = scores[q] + paid
      /\ \A j \in Players : j # p /\ j # q => Salted(p, share)[j] = scores[j]
  BY <1>1, <1>3, <1>4
<1>6. Salted(p, share) \in [Players -> Nat]
  BY SaltedType
<1> QED
  BY <1>1, <1>2, <1>5, <1>6 DEF q

LEMMA HeldOffStep ==
  ASSUME PalleInv, TypeOK', NEW p \in Players, HeldOff(p)
  PROVE  Orders' /\ RoundGoesOn' /\ Balanced'
<1> DEFINE q == raids[p].target
           new == [raids[p] EXCEPT !.arrived = TRUE]
<1>1. /\ TypeOK /\ Orders /\ RoundGoesOn /\ Balanced /\ Visiting(p)
      /\ UNCHANGED <<now, departed, walk, settled>> /\ UNCHANGED ledger
      /\ raids' = [raids EXCEPT ![p] = new]
  BY DEF PalleInv, HeldOff, Robbing, Arriving, keeper, moment
<1>2. PICK share \in SaltShares : scores' = Salted(p, share)
  BY DEF HeldOff
<1>3. /\ p \in DOMAIN raids /\ raids[p] \in Raid /\ q \in Players /\ q # p
      /\ raids[p].order > walk
  BY <1>1, VisitingIs
<1>4. /\ new.order = raids[p].order /\ new.target = raids[p].target
      /\ new.loot = raids[p].loot /\ new.gift = raids[p].gift
  BY <1>3 DEF Raid
<1>5. PICK paid \in Nat :
        /\ scores'[p] = scores[p] - paid /\ scores'[q] = scores[q] + paid
        /\ \A j \in Players : j # p /\ j # q => scores'[j] = scores[j]
  BY <1>1, <1>2, <1>3, SaltMoves
<1> HIDE DEF new, q
<1>6. /\ Orders' /\ RoundGoesOn'
      /\ \A j \in Players : j # p => Riding(j)' = Riding(j)
      /\ Riding(p) = raids[p].loot + raids[p].gift /\ Riding(p)' = new.loot + new.gift
  BY <1>1, <1>3, <1>4, OneRide
<1>7. ledger' = ledger + (scores'[p] - scores[p]) + (scores'[q] - scores[q])
                + (Riding(p)' - Riding(p))
  <2>1. ledger \in Int /\ scores[p] \in Nat /\ scores[q] \in Nat
    BY <1>1, <1>3 DEF TypeOK
  <2>2. Riding(p)' = Riding(p) /\ Riding(p) \in Nat
    BY <1>1, <1>4, <1>6, RidingType
  <2> QED
    BY <1>1, <1>5, <2>1, <2>2
<1>8. Balanced'
  BY <1>1, <1>3, <1>5, <1>6, <1>7, MovedOn
<1> QED
  BY <1>6, <1>8

LEMMA RobStep ==
  ASSUME PalleInv, TypeOK', NEW p \in Players, Rob(p)
  PROVE  Orders' /\ RoundGoesOn' /\ Balanced'
<1> DEFINE q == raids[p].target
<1>1. /\ TypeOK /\ Orders /\ RoundGoesOn /\ Balanced /\ Visiting(p)
      /\ UNCHANGED <<now, departed, walk, settled>> /\ UNCHANGED ledger
  BY DEF PalleInv, Rob, Robbing, Arriving, keeper, moment
<1>2. PICK share \in SaltShares :
        LET theirs == Salted(p, share)[q] IN
        \E loot \in 0 .. (IF theirs < Road THEN theirs ELSE Road) :
          /\ scores' = Robbed(p, share, loot)
          /\ raids' = [raids EXCEPT ![p] = [raids[p] EXCEPT !.arrived = TRUE, !.loot = loot]]
  BY DEF Rob
<1>3. PICK loot \in 0 .. (IF Salted(p, share)[q] < Road THEN Salted(p, share)[q] ELSE Road) :
        /\ scores' = Robbed(p, share, loot)
        /\ raids' = [raids EXCEPT ![p] = [raids[p] EXCEPT !.arrived = TRUE, !.loot = loot]]
  BY <1>2
<1> DEFINE new == [raids[p] EXCEPT !.arrived = TRUE, !.loot = loot]
<1>4. /\ p \in DOMAIN raids /\ raids[p] \in Raid /\ q \in Players /\ q # p
      /\ raids[p].order > walk
  BY <1>1, VisitingIs
<1>5. PICK paid \in Nat :
        /\ Salted(p, share) \in [Players -> Nat]
        /\ Salted(p, share)[p] = scores[p] - paid /\ Salted(p, share)[q] = scores[q] + paid
        /\ \A j \in Players : j # p /\ j # q => Salted(p, share)[j] = scores[j]
  BY <1>1, <1>4, SaltMoves
<1>6. loot \in Nat
  <2>1. Salted(p, share)[q] \in Nat
    BY <1>4, <1>5
  <2> QED
    BY <1>3, <2>1, ConstantsOK
<1>7. /\ new.order = raids[p].order /\ new.target = raids[p].target
      /\ new.loot = loot /\ new.gift = raids[p].gift
  BY <1>4 DEF Raid
<1>8. raids[p].gift \in Nat /\ raids[p].gift = 0
  BY <1>4 DEF Raid, Rob, Robbing
<1>9. raids' = [raids EXCEPT ![p] = new]
  BY <1>3
<1>10. Robbed(p, share, loot) = [Salted(p, share) EXCEPT ![q] = @ - loot]
  BY DEF Robbed
<1> HIDE DEF new, q
<1>11. /\ scores'[p] = scores[p] - paid /\ scores'[q] = (scores[q] + paid) - loot
       /\ \A j \in Players : j # p /\ j # q => scores'[j] = scores[j]
  BY <1>3, <1>4, <1>5, <1>10
<1>12. /\ Orders' /\ RoundGoesOn'
       /\ \A j \in Players : j # p => Riding(j)' = Riding(j)
       /\ Riding(p) = raids[p].loot + raids[p].gift /\ Riding(p)' = new.loot + new.gift
  BY <1>1, <1>4, <1>7, <1>9, OneRide
<1>13. raids[p].loot = 0
  <2>1. ~raids[p].arrived /\ raids[p].loot \in Nat
    BY <1>4 DEF Rob, Robbing, Arriving, Raid
  <2> QED
    BY <1>4, <2>1 DEF PalleInv, NobodyBothGivesAndRobs
<1>14. ledger' = ledger + (scores'[p] - scores[p]) + (scores'[q] - scores[q])
                 + (Riding(p)' - Riding(p))
  <2>1. ledger \in Int /\ scores[p] \in Nat /\ scores[q] \in Nat
    BY <1>1, <1>4 DEF TypeOK
  <2>2. Riding(p)' = loot /\ Riding(p) = 0
    BY <1>6, <1>7, <1>8, <1>12, <1>13
  <2> QED
    BY <1>1, <1>5, <1>6, <1>11, <2>1, <2>2
<1>15. Balanced'
  BY <1>1, <1>4, <1>11, <1>12, <1>14, MovedOn
<1> QED
  BY <1>12, <1>15

LEMMA ComeHomeStep ==
  ASSUME PalleInv, TypeOK', NEW p \in Players, ComeHome(p)
  PROVE  Orders' /\ RoundGoesOn' /\ Balanced'
<1>1. /\ TypeOK /\ Orders /\ RoundGoesOn /\ Balanced /\ Visiting(p) /\ Over(raids[p])
      /\ UNCHANGED <<now, departed, raids>> /\ UNCHANGED ledger
      /\ scores' = [scores EXCEPT ![p] = @ + raids[p].loot + raids[p].gift]
      /\ settled' = settled \cup {p} /\ walk' = raids[p].order
  BY DEF PalleInv, ComeHome, Over, moment
<1>2. /\ p \in DOMAIN raids /\ raids[p] \in Raid /\ raids[p].order > walk /\ p \notin settled
      /\ raids[p].order \in Nat /\ walk \in Nat
  BY <1>1, VisitingIs
<1>3. \A j \in DOMAIN raids : raids[j].order <= walk' => raids[j].order <= walk \/ j = p
  BY <1>1, NextInLine
<1>4. Orders'
  BY <1>1 DEF Orders
<1>5. RoundGoesOn'
  <2>1. walk' # Idle
    BY <1>1, <1>2 DEF Idle
  <2>2. ASSUME NEW j \in settled'
        PROVE  j \in DOMAIN raids' /\ raids'[j].order <= walk' /\ Over(raids[j])'
    <3>1. CASE j = p
      BY <1>1, <1>2, <3>1 DEF Over
    <3>2. CASE j # p
      <4>1. j \in DOMAIN raids /\ raids[j].order <= walk /\ Over(raids[j])
        BY <1>1, <2>2, <3>2 DEF RoundGoesOn
      <4>2. raids[j].order \in Nat
        BY <1>1, <4>1 DEF TypeOK, Raid
      <4> QED
        BY <1>1, <1>2, <4>1, <4>2 DEF Over
    <3> QED
      BY <3>1, <3>2
  <2>3. ASSUME NEW j \in DOMAIN raids' \ settled', raids'[j].order <= walk', Over(raids[j])'
        PROVE  raids'[j].loot = 0 /\ raids'[j].gift = 0
    <3>1. j \in DOMAIN raids \ settled /\ raids[j].order <= walk
      BY <1>1, <1>3, <2>3
    <3> QED
      BY <1>1, <2>3, <3>1 DEF RoundGoesOn, Over
  <2> QED
    BY <2>1, <2>2, <2>3 DEF RoundGoesOn
<1>6. \A j \in Players : j # p => Riding(j)' = Riding(j)
  BY <1>1 DEF Riding
<1>7. /\ Riding(p) = raids[p].loot + raids[p].gift /\ Riding(p)' = 0
      /\ raids[p].loot \in Nat /\ raids[p].gift \in Nat
  BY <1>1, <1>2 DEF Riding, Raid
<1>8. /\ scores[p] \in Nat /\ ledger \in Int
      /\ scores'[p] = scores[p] + raids[p].loot + raids[p].gift
      /\ \A j \in Players : j # p => scores'[j] = scores[j]
  BY <1>1 DEF TypeOK
<1>9. ledger' = ledger + (scores'[p] - scores[p]) + (Riding(p)' - Riding(p))
  BY <1>1, <1>7, <1>8
<1>10. Balanced'
  BY <1>1, <1>6, <1>8, <1>9, Moved
<1> QED
  BY <1>4, <1>5, <1>10

LEMMA PassByStep ==
  ASSUME PalleInv, TypeOK', NEW p \in Players, PassBy(p)
  PROVE  Orders' /\ RoundGoesOn' /\ Balanced'
<1>1. /\ TypeOK /\ Orders /\ RoundGoesOn /\ Balanced /\ Visiting(p) /\ ~Due(p)
      /\ UNCHANGED <<now, departed, raids>> /\ UNCHANGED <<scores, ledger>> /\ UNCHANGED settled
      /\ walk' = raids[p].order
  BY DEF PalleInv, PassBy, moment
<1>2. /\ p \in DOMAIN raids /\ raids[p] \in Raid /\ raids[p].order > walk /\ p \notin settled
      /\ raids[p].order \in Nat /\ walk \in Nat
  BY <1>1, VisitingIs
<1>3. \A j \in DOMAIN raids : raids[j].order <= walk' => raids[j].order <= walk \/ j = p
  BY <1>1, NextInLine
<1>4. ~Over(raids[p])
  BY <1>1, <1>2 DEF Due, Over, OnTheRoad
<1>5. Orders'
  BY <1>1 DEF Orders
<1>6. RoundGoesOn'
  <2>1. walk' # Idle
    BY <1>1, <1>2 DEF Idle
  <2>2. ASSUME NEW j \in settled'
        PROVE  j \in DOMAIN raids' /\ raids'[j].order <= walk' /\ Over(raids[j])'
    <3>1. j \in DOMAIN raids /\ raids[j].order <= walk /\ Over(raids[j])
      BY <1>1, <2>2 DEF RoundGoesOn
    <3>2. raids[j].order \in Nat
      BY <1>1, <3>1 DEF TypeOK, Raid
    <3> QED
      BY <1>1, <1>2, <3>1, <3>2 DEF Over
  <2>3. ASSUME NEW j \in DOMAIN raids' \ settled', raids'[j].order <= walk', Over(raids[j])'
        PROVE  raids'[j].loot = 0 /\ raids'[j].gift = 0
    <3>1. j # p
      BY <1>1, <1>4, <2>3 DEF Over
    <3>2. j \in DOMAIN raids \ settled /\ raids[j].order <= walk
      BY <1>1, <1>3, <2>3, <3>1
    <3> QED
      BY <1>1, <2>3, <3>2 DEF RoundGoesOn, Over
  <2> QED
    BY <2>1, <2>2, <2>3 DEF RoundGoesOn
<1>7. \A j \in Players : Riding(j)' = Riding(j)
  BY <1>1 DEF Riding
<1>8. Balanced'
  BY <1>1, <1>7, Unmoved
<1> QED
  BY <1>5, <1>6, <1>8

\* A ☢️ at a house destroys what is in the owner's purse, and on his ride.
LEMMA StartOverStep ==
  ASSUME PalleInv, TypeOK', NEW p, Visiting(p), NEW v \in Players,
         UNCHANGED <<now, departed, walk, settled>>,
         NEW new, new.order = raids[p].order, new.target = raids[p].target,
         new.loot = raids[p].loot, new.gift = raids[p].gift, new \in Raid,
         NEW rs, rs = [raids EXCEPT ![p] = new], StartOver(v, rs)
  PROVE  Orders' /\ RoundGoesOn' /\ Balanced'
<1>1. TypeOK /\ Orders /\ RoundGoesOn /\ Balanced
  BY DEF PalleInv
<1>2. /\ p \in DOMAIN raids /\ raids[p].order > walk /\ p \notin settled
      /\ raids \in [DOMAIN raids -> Raid] /\ now \in Nat /\ ledger \in Int
  BY <1>1, VisitingIs DEF TypeOK
<1>3. /\ DOMAIN rs = DOMAIN raids /\ rs \in [DOMAIN raids -> Raid]
      /\ \A j \in DOMAIN raids :
           /\ rs[j].order = raids[j].order /\ rs[j].target = raids[j].target
           /\ rs[j].loot = raids[j].loot /\ rs[j].gift = raids[j].gift
           /\ j = p \/ rs[j] = raids[j]
  BY <1>2
<1>4. /\ scores' = [scores EXCEPT ![v] = 0]
      /\ ledger' = ledger - scores[v]
                    - (IF v \in DOMAIN rs \ settled THEN rs[v].loot + rs[v].gift ELSE 0)
  BY DEF StartOver
<1> DEFINE over == [rs[v] EXCEPT !.arrived = TRUE, !.back = now, !.loot = 0, !.gift = 0,
                                 !.load = Nothing]
<1>5. /\ DOMAIN raids' = DOMAIN raids
      /\ \A j \in DOMAIN raids : j # v => raids'[j] = rs[j]
      /\ v \in DOMAIN raids => raids'[v] = over
  BY <1>3 DEF StartOver
<1>6. v \in DOMAIN raids =>
        /\ over.order = rs[v].order /\ over.target = rs[v].target
        /\ over.loot = 0 /\ over.gift = 0 /\ over.arrived /\ over.back = now
  BY <1>3 DEF Raid
<1> HIDE DEF over
<1>7. \A j \in DOMAIN raids :
        /\ raids'[j].order = raids[j].order /\ raids'[j].target = raids[j].target
        /\ \/ raids[j].order > walk
           \/ raids'[j] = raids[j]
           \/ Over(raids[j])' /\ raids'[j].loot = 0 /\ raids'[j].gift = 0
  <2> SUFFICES ASSUME NEW j \in DOMAIN raids
               PROVE  /\ raids'[j].order = raids[j].order /\ raids'[j].target = raids[j].target
                      /\ \/ raids[j].order > walk
                         \/ raids'[j] = raids[j]
                         \/ Over(raids[j])' /\ raids'[j].loot = 0 /\ raids'[j].gift = 0
    OBVIOUS
  <2>1. CASE j = v
    <3>1. Over(raids[j])'
      BY <1>2, <1>5, <1>6, <2>1 DEF Over
    <3> QED
      BY <1>3, <1>5, <1>6, <2>1, <3>1
  <2>2. CASE j # v
    BY <1>2, <1>3, <1>5, <2>2
  <2> QED
    BY <2>1, <2>2
<1>8. Orders' /\ RoundGoesOn'
  BY <1>1, <1>5, <1>7, RidesGoOn
<1>9. \A j \in Players : j # v => Riding(j)' = Riding(j)
  BY <1>3, <1>5 DEF Riding
<1>10. /\ Riding(v)' = 0
       /\ Riding(v) = (IF v \in DOMAIN rs \ settled THEN rs[v].loot + rs[v].gift ELSE 0)
  BY <1>3, <1>5, <1>6 DEF Riding
<1>11. /\ scores[v] \in Nat /\ scores'[v] = 0 /\ Riding(v) \in Nat
       /\ \A j \in Players : j # v => scores'[j] = scores[j]
  BY <1>1, <1>4, RidingType DEF TypeOK
<1>12. ledger' = ledger + (scores'[v] - scores[v]) + (Riding(v)' - Riding(v))
  BY <1>2, <1>4, <1>10, <1>11
<1>13. Balanced'
  BY <1>1, <1>9, <1>11, <1>12, Moved
<1> QED
  BY <1>8, <1>13

LEMMA ThrowAtHouseStep ==
  ASSUME PalleInv, TypeOK', NEW p \in Players, ThrowAtHouse(p)
  PROVE  Orders' /\ RoundGoesOn' /\ Balanced'
<1> DEFINE new == [raids[p] EXCEPT !.arrived = TRUE, !.load = Nothing]
           rs == [raids EXCEPT ![p] = new]
<1>1. /\ TypeOK /\ Orders /\ RoundGoesOn /\ Balanced /\ Visiting(p)
      /\ UNCHANGED <<now, departed, walk, settled>>
  BY DEF PalleInv, ThrowAtHouse, Arriving, keeper, moment
<1>2. PICK v \in {p, raids[p].target} : Land(v, raids[p].load, rs)
  BY DEF ThrowAtHouse
<1>3. /\ p \in DOMAIN raids /\ raids[p] \in Raid /\ v \in Players /\ raids[p].order > walk
  BY <1>1, VisitingIs
<1>4. /\ new.order = raids[p].order /\ new.target = raids[p].target
      /\ new.loot = raids[p].loot /\ new.gift = raids[p].gift /\ new \in Raid
  BY <1>3, RaidUpdates DEF Raid
<1> HIDE DEF new
<1>5. CASE StartOver(v, rs)
  BY <1>1, <1>3, <1>4, <1>5, StartOverStep
<1>6. CASE raids' = rs /\ UNCHANGED <<scores, ledger>>
  <2>1. /\ Orders' /\ RoundGoesOn'
        /\ \A j \in Players : j # p => Riding(j)' = Riding(j)
        /\ Riding(p) = raids[p].loot + raids[p].gift /\ Riding(p)' = new.loot + new.gift
    BY <1>1, <1>3, <1>4, <1>6, OneRide
  <2>2. \A j \in Players : Riding(j)' = Riding(j)
    BY <1>4, <2>1
  <2> QED
    BY <1>1, <1>6, <2>1, <2>2, Unmoved
<1> QED
  BY <1>2, <1>5, <1>6 DEF Land

-----------------------------------------------------------------------------
(* The keeper's own steps, and the clock. *)

LEMMA RoundBeginsStep ==
  ASSUME PalleInv, TypeOK', RoundBegins
  PROVE  Orders' /\ RoundGoesOn' /\ Balanced'
<1>1. /\ TypeOK /\ Orders /\ RoundGoesOn /\ Balanced /\ settled = {} /\ walk' = 0
      /\ UNCHANGED <<raids, departed, settled>> /\ UNCHANGED <<scores, ledger>>
  BY DEF PalleInv, RoundBegins, RoundGoesOn
<1>2. \A j \in DOMAIN raids : ~(raids[j].order <= 0)
  BY <1>1 DEF TypeOK, Raid
<1>3. RoundGoesOn'
  BY <1>1, <1>2 DEF RoundGoesOn
<1>4. Orders'
  BY <1>1 DEF Orders
<1>5. \A j \in Players : Riding(j)' = Riding(j)
  BY <1>1 DEF Riding
<1> QED
  BY <1>1, <1>3, <1>4, <1>5, Unmoved

LEMMA RoundEndsStep ==
  ASSUME PalleInv, TypeOK', RoundEnds
  PROVE  Orders' /\ RoundGoesOn' /\ Balanced'
<1>1. /\ TypeOK /\ Orders /\ RoundGoesOn /\ Balanced /\ settled' = {} /\ walk' = Idle
      /\ UNCHANGED departed /\ UNCHANGED <<scores, ledger>>
      /\ \A j \in DOMAIN raids : raids[j].order <= walk
      /\ raids' = [p \in {r \in DOMAIN raids : ~Over(raids[r])} |-> raids[p]]
  BY DEF PalleInv, RoundEnds
<1>2. /\ \A j \in DOMAIN raids' : j \in DOMAIN raids /\ ~Over(raids[j]) /\ raids'[j] = raids[j]
      /\ \A j \in DOMAIN raids : j \notin DOMAIN raids' => Over(raids[j])
  BY <1>1
<1>3. Orders'
  BY <1>1, <1>2 DEF Orders
<1>4. RoundGoesOn'
  <2>1. \A j \in DOMAIN raids' : ~(raids'[j].order <= Idle)
    BY <1>1, <1>2 DEF TypeOK, Raid, Idle
  <2> QED
    BY <1>1, <2>1 DEF RoundGoesOn
<1>5. ASSUME NEW j \in Players PROVE Riding(j)' = Riding(j)
  <2>1. CASE j \in DOMAIN raids'
    <3>1. j \notin settled
      BY <1>1, <1>2, <2>1 DEF RoundGoesOn
    <3> QED
      BY <1>1, <1>2, <2>1, <3>1 DEF Riding
  <2>2. CASE j \notin DOMAIN raids'
    <3>1. Riding(j)' = 0
      BY <2>2 DEF Riding
    <3>2. j \in DOMAIN raids \ settled => raids[j].loot = 0 /\ raids[j].gift = 0
      BY <1>1, <1>2, <2>2 DEF RoundGoesOn
    <3> QED
      BY <3>1, <3>2 DEF Riding
  <2> QED
    BY <2>1, <2>2
<1> QED
  BY <1>1, <1>3, <1>4, <1>5, Unmoved

\* Outside of a round, whatever leaves the rides alone.
LEMMA OutsideARound ==
  ASSUME PalleInv, walk = Idle, UNCHANGED <<raids, departed, walk, settled>>
  PROVE  /\ Orders' /\ RoundGoesOn' /\ \A j \in Players : Riding(j)' = Riding(j)
         /\ UNCHANGED <<scores, ledger>> => Balanced'
<1>1. TypeOK /\ Orders /\ RoundGoesOn /\ Balanced /\ settled = {}
  BY DEF PalleInv, RoundGoesOn
<1>2. \A j \in DOMAIN raids : ~(raids[j].order <= Idle)
  BY <1>1 DEF TypeOK, Raid, Idle
<1>3. RoundGoesOn'
  BY <1>1, <1>2 DEF RoundGoesOn
<1>4. Orders'
  BY <1>1 DEF Orders
<1>5. \A j \in Players : Riding(j)' = Riding(j)
  BY <1>1 DEF Riding
<1> QED
  BY <1>1, <1>3, <1>4, <1>5, Unmoved

-----------------------------------------------------------------------------
(* The players' steps. *)

\* A hold is paid to whoever held.
LEMMA PaidStep ==
  ASSUME PalleInv, TypeOK', walk = Idle, UNCHANGED <<raids, departed, walk, settled>>,
         scores' = Paid, ledger' = ledger + Earned
  PROVE  Orders' /\ RoundGoesOn' /\ Balanced'
<1>1. /\ Orders' /\ RoundGoesOn' /\ \A j \in Players : Riding(j)' = Riding(j)
      /\ UNCHANGED <<scores, ledger>> => Balanced'
  BY OutsideARound
<1>2. TypeOK /\ Balanced /\ ledger \in Int
  BY DEF PalleInv, TypeOK
<1>3. CASE hold.who = Nobody
  BY <1>1, <1>2, <1>3 DEF Paid, Earned
<1>4. CASE hold.who # Nobody
  <2>1. PICK w \in Players : w = hold.who
    BY <1>2, <1>4 DEF TypeOK
  <2>2. /\ Earned \in Nat /\ scores'[w] = scores[w] + Earned
        /\ \A j \in Players : j # w => scores'[j] = scores[j]
    <3>1. Earned \in Nat
      BY <1>2, PaidType
    <3>2. Paid = [scores EXCEPT ![w] = @ + Earned]
      BY <1>4, <2>1 DEF Paid
    <3>3. scores \in [Players -> Nat]
      BY <1>2 DEF TypeOK
    <3> QED
      BY <3>1, <3>2, <3>3
  <2>3. Riding(w)' = Riding(w) /\ Riding(w) \in Nat
    BY <1>1, <1>2, <2>1, RidingType
  <2>4. ledger' = ledger + (scores'[w] - scores[w]) + (Riding(w)' - Riding(w))
    <3>1. scores[w] \in Nat
      BY <1>2 DEF TypeOK
    <3> QED
      BY <1>2, <2>2, <2>3, <3>1
  <2>5. Balanced'
    BY <1>1, <1>2, <2>1, <2>2, <2>4, Moved
  <2> QED
    BY <1>1, <2>5
<1> QED
  BY <1>3, <1>4

\* The palle he takes along leave his purse.
LEMMA SetOffStep ==
  ASSUME PalleInv, TypeOK', NEW p \in Players, NEW q \in Players, NEW leg \in Legs,
         NEW gift \in Gifts \cup {0}, NEW load, SetOff(p, q, leg, gift, load)
  PROVE  Orders' /\ RoundGoesOn' /\ Balanced'
<1> DEFINE new == [target |-> q, order |-> departed + 1, arrive |-> now + leg,
                   back |-> now + 2 * leg, arrived |-> FALSE, loot |-> 0, gift |-> gift,
                   load |-> load]
<1>1. /\ TypeOK /\ Orders /\ RoundGoesOn /\ Balanced /\ walk = Idle
      /\ UNCHANGED <<walk, settled>> /\ UNCHANGED ledger
      /\ p \notin DOMAIN raids /\ q # p /\ gift <= scores[p]
      /\ departed' = departed + 1
      /\ scores' = [scores EXCEPT ![p] = @ - gift]
      /\ raids' = [r \in DOMAIN raids \cup {p} |-> IF r = p THEN new ELSE raids[r]]
  BY DEF PalleInv, SetOff, Acts, OnTheRoad, keeper
<1>2. /\ new.order = departed + 1 /\ new.target = q /\ new.loot = 0 /\ new.gift = gift
      /\ ~new.arrived
  OBVIOUS
<1> HIDE DEF new
<1>3. settled = {} /\ departed \in Nat /\ gift \in Nat /\ ledger \in Int
  BY <1>1, ConstantsOK DEF RoundGoesOn, TypeOK
<1>4. /\ DOMAIN raids' = DOMAIN raids \cup {p} /\ raids'[p] = new
      /\ \A j \in DOMAIN raids : j # p /\ raids'[j] = raids[j]
  BY <1>1
<1>5. Orders'
  <2>1. \A j \in DOMAIN raids : raids[j].order \in Nat /\ raids[j].order <= departed
    BY <1>1 DEF Orders, TypeOK, Raid
  <2>2. ASSUME NEW j \in DOMAIN raids'
        PROVE  /\ raids'[j].order <= departed' /\ raids'[j].target # j
               /\ \A i \in DOMAIN raids' : raids'[i].order = raids'[j].order => i = j
    <3>1. CASE j = p
      BY <1>1, <1>2, <1>3, <1>4, <2>1, <3>1
    <3>2. CASE j # p
      <4>1. j \in DOMAIN raids /\ raids'[j] = raids[j]
        BY <1>4, <3>2
      <4>2. raids[j].order <= departed' /\ raids[j].target # j
        BY <1>1, <1>3, <2>1, <4>1 DEF Orders
      <4>3. ASSUME NEW i \in DOMAIN raids', raids'[i].order = raids'[j].order PROVE i = j
        <5>1. i # p
          BY <1>2, <1>3, <1>4, <2>1, <4>1, <4>3
        <5> QED
          BY <1>1, <1>4, <4>1, <4>3, <5>1 DEF Orders
      <4> QED
        BY <4>1, <4>2, <4>3
    <3> QED
      BY <3>1, <3>2
  <2> QED
    BY <2>2 DEF Orders
<1>6. RoundGoesOn'
  <2>1. \A j \in DOMAIN raids' : raids'[j].order \in Nat
    BY DEF TypeOK, Raid
  <2>2. walk' = Idle
    BY <1>1
  <2>3. \A j \in DOMAIN raids' : ~(raids'[j].order <= walk')
    BY <2>1, <2>2 DEF Idle
  <2> QED
    BY <1>1, <1>3, <2>3 DEF RoundGoesOn
<1>7. \A j \in Players : j # p => Riding(j)' = Riding(j)
  BY <1>1, <1>3, <1>4 DEF Riding
<1>8. Riding(p) = 0 /\ Riding(p)' = gift
  BY <1>1, <1>2, <1>3, <1>4 DEF Riding
<1>9. /\ scores[p] \in Nat /\ scores'[p] = scores[p] - gift
      /\ \A j \in Players : j # p => scores'[j] = scores[j]
  BY <1>1 DEF TypeOK
<1>10. ledger' = ledger + (scores'[p] - scores[p]) + (Riding(p)' - Riding(p))
  BY <1>1, <1>3, <1>8, <1>9
<1>11. Balanced'
  BY <1>1, <1>7, <1>9, <1>10, Moved
<1> QED
  BY <1>5, <1>6, <1>11

LEMMA TurnAroundStep ==
  ASSUME PalleInv, TypeOK', NEW p \in Players, TurnAround(p)
  PROVE  Orders' /\ RoundGoesOn' /\ Balanced'
<1> DEFINE new == TurnedHome(raids[p])
<1>1. /\ TypeOK /\ Orders /\ RoundGoesOn /\ Balanced /\ walk = Idle
      /\ UNCHANGED <<departed, walk, settled>> /\ UNCHANGED <<scores, ledger>>
      /\ p \in DOMAIN raids /\ raids' = [raids EXCEPT ![p] = new]
  BY DEF PalleInv, TurnAround, Acts, OnTheRoad, keeper
<1>2. raids[p] \in Raid /\ raids[p].order > walk
  BY <1>1 DEF TypeOK, Raid, Idle
<1>3. /\ new.order = raids[p].order /\ new.target = raids[p].target
      /\ new.loot = raids[p].loot /\ new.gift = raids[p].gift
  BY <1>2 DEF TurnedHome, Raid
<1> HIDE DEF new
<1>4. /\ Orders' /\ RoundGoesOn'
      /\ \A j \in Players : j # p => Riding(j)' = Riding(j)
      /\ Riding(p) = raids[p].loot + raids[p].gift /\ Riding(p)' = new.loot + new.gift
  BY <1>1, <1>2, <1>3, OneRide
<1>5. \A j \in Players : Riding(j)' = Riding(j)
  BY <1>3, <1>4
<1> QED
  BY <1>1, <1>4, <1>5, Unmoved

LEMMA StartAllOverStep ==
  ASSUME PalleInv, TypeOK', walk = Idle, StartAllOver, UNCHANGED <<departed, walk, settled>>
  PROVE  Orders' /\ RoundGoesOn' /\ Balanced'
<1>1. /\ settled = {} /\ DOMAIN raids' = {} /\ ledger' = 0
      /\ \A p \in Players : scores'[p] = 0
  BY DEF PalleInv, RoundGoesOn, StartAllOver
<1>2. Orders' /\ RoundGoesOn'
  BY <1>1 DEF Orders, RoundGoesOn
<1>3. HoldingsAre' /\ \A p \in Players : Riding(p)' = 0
  BY <1>1, HoldingsTypeNext DEF Riding
<1>4. Holdings' \in [Places -> Nat] /\ \A w \in Places : Holdings'[w] = 0
  <2>1. \A w \in Places : \E p \in Players : w = <<p, "purse">> \/ w = <<p, "ride">>
    BY DEF Places
  <2> QED
    BY <1>1, <1>3, <2>1 DEF HoldingsAre
<1> DEFINE g == Holdings'
<1> HIDE DEF g
<1>5. Counted(g, 0)
  <2>1. g \in [Places -> Nat] /\ \A w \in Places : g[w] = 0
    BY <1>4 DEF g
  <2> QED
    BY <2>1, NoCoins
<1> QED
  BY <1>1, <1>2, <1>5 DEF g, Balanced, Counted, CoinsOf

LEMMA PalleHandler ==
  ASSUME PalleInv, TypeOK', NEW p \in Players, Handler(p)
  PROVE  Orders' /\ RoundGoesOn' /\ Balanced'
<1>1. CASE ClaimDefended(p) \/ BurnBalloon(p) \/ PlayerSeen(p)
  <2>1. /\ walk = Idle /\ UNCHANGED <<raids, departed, walk, settled>>
        /\ UNCHANGED <<scores, ledger>>
    BY <1>1 DEF ClaimDefended, MayTry, BurnBalloon, PlayerSeen, Acts, keeper
  <2> QED
    BY <2>1, OutsideARound
<1>2. CASE ClaimTaken(p) \/ WalkOut(p)
  <2>1. /\ walk = Idle /\ UNCHANGED <<raids, departed, walk, settled>>
        /\ scores' = Paid /\ ledger' = ledger + Earned
    BY <1>2 DEF ClaimTaken, MayTry, WalkOut, LeavePlace, Acts, keeper
  <2> QED
    BY <2>1, PaidStep
<1>3. CASE GearErrand(p)
  <2>1. /\ walk = Idle /\ UNCHANGED <<raids, departed, walk, settled>>
        /\ UNCHANGED <<scores, ledger>> \/ (scores' = Paid /\ ledger' = ledger + Earned)
    BY <1>3 DEF GearErrand, LeavePlace, Acts, keeper
  <2> QED
    BY <2>1, OutsideARound, PaidStep
<1>4. CASE \E q \in Players, leg \in Legs, gift \in Gifts \cup {0}, load \in Loads \cup {Nothing} :
             SetOff(p, q, leg, gift, load)
  BY <1>4, SetOffStep
<1>5. CASE TurnAround(p)
  BY <1>5, TurnAroundStep
<1>6. CASE \E load \in Loads : ThrowAtPlace(p, load)
  <2>1. walk = Idle /\ UNCHANGED <<departed, walk, settled>>
    BY <1>6 DEF ThrowAtPlace, Acts, keeper
  <2>2. StartAllOver \/ UNCHANGED <<scores, ledger, raids>>
    BY <1>6 DEF ThrowAtPlace
  <2> QED
    BY <2>1, <2>2, StartAllOverStep, OutsideARound
<1> QED
  BY <1>1, <1>2, <1>3, <1>4, <1>5, <1>6 DEF Handler

LEMMA PalleStep ==
  ASSUME PalleInv, [Next]_vars
  PROVE  PalleInv'
<1>1. TypeOK' /\ NobodyBothGivesAndRobs'
  BY TypeStep, HonestStep DEF PalleInv
<1>2. Orders' /\ RoundGoesOn' /\ Balanced'
  <2>1. CASE \E p \in Players : Handler(p) /\ CallReturns
    BY <1>1, <2>1, PalleHandler
  <2>2. CASE \E p \in Players : Visit(p)
    BY <1>1, <2>2, DeliverPalleStep, DeliverPresentStep, ThrowAtHouseStep, HeldOffStep, RobStep,
       ComeHomeStep, PassByStep DEF Visit
  <2>3. CASE RoundBegins \/ RoundEnds
    BY <1>1, <2>3, RoundBeginsStep, RoundEndsStep
  <2>4. CASE Tick \/ LateCall \/ InVain
    BY <2>4, OutsideARound DEF Tick, LateCall, InVain, keeper
  <2>5. CASE UNCHANGED vars
    <3>1. UNCHANGED <<scores, ledger>> /\ UNCHANGED <<raids, settled, walk, departed, now>>
      BY <2>5 DEF vars, moment
    <3>2. \A j \in Players : Riding(j)' = Riding(j)
      BY <3>1 DEF Riding
    <3>3. Orders' /\ RoundGoesOn'
      BY <3>1 DEF PalleInv, Orders, RoundGoesOn, Over
    <3> QED
      BY <3>1, <3>2, <3>3, Unmoved DEF PalleInv
  <2> QED
    BY <2>1, <2>2, <2>3, <2>4, <2>5 DEF Next, Keeper
<1> QED
  BY <1>1, <1>2 DEF PalleInv

LEMMA PalleInit == Init => PalleInv
<1> SUFFICES ASSUME Init PROVE PalleInv
  OBVIOUS
<1>1. TypeOK
  BY TypeInit
<1>2. /\ DOMAIN raids = {} /\ settled = {} /\ ledger = 0
      /\ \A p \in Players : scores[p] = 0
  BY DEF Init
<1>3. NobodyBothGivesAndRobs /\ Orders /\ RoundGoesOn
  BY <1>2 DEF NobodyBothGivesAndRobs, Orders, RoundGoesOn
<1>4. Balanced
  <2>1. HoldingsAre /\ \A p \in Players : Riding(p) = 0
    BY <1>1, <1>2, HoldingsType DEF Riding
  <2>2. \A w \in Places : \E p \in Players : w = <<p, "purse">> \/ w = <<p, "ride">>
    BY DEF Places
  <2>3. Holdings \in [Places -> Nat] /\ \A w \in Places : Holdings[w] = 0
    BY <1>2, <2>1, <2>2 DEF HoldingsAre
  <2> QED
    BY <1>2, <2>3, NoCoins DEF Balanced
<1> QED
  BY <1>1, <1>3, <1>4 DEF PalleInv

\* Every palla that the place ever made, and no ☢️ destroyed, is in a purse or on a ride:
\* claims, departures, presents, robberies, the salt, rides called off and homecomings
\* (raid_start, raid_due, start_over) only move them.
THEOREM NoPalleMadeOrLost == Spec => []PalleAccounted
<1>1. PalleInv => PalleAccounted
  BY PalleAreHoldings DEF PalleInv, Balanced, Counted, PalleAccounted
<1>2. PalleInv /\ [Next]_vars => PalleInv'
  BY PalleStep
<1> QED
  BY <1>1, <1>2, PalleInit, PTL DEF Spec

=============================================================================
