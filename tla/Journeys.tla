------------------------------ MODULE Journeys ------------------------------
(***************************************************************************)
(* Who is where: the place (@TheConquister37) and its one holder, the rides *)
(* of the raiders, and the palle, the 🎈, the penalties and the ice that     *)
(* move with them.  From src/src/game.cpp: conquister_claim, raid_start,    *)
(* raid_due, gear_take/gear_store (go_home), furniture_burn, player_seen.   *)
(*                                                                         *)
(* Every handler runs inside Storage::transaction, under one mutex, so a    *)
(* handler is one action.  The keeper's raid_due walks the list of raids in *)
(* the order they set off; its loop body is one action per raid and branch, *)
(* and "walk" records that the keeper holds the mutex meanwhile.            *)
(*                                                                         *)
(* The caller reads the clock before it waits for that mutex, so a call may *)
(* be late: what it does, it does at the moment it brought along ("now"),   *)
(* which may be earlier than another call's that was let in before it.      *)
(*                                                                         *)
(* Dice, the emoji a player happens to own and the distance between two     *)
(* houses are choices; a player has one 🎈 at most; a hold is worth its      *)
(* seconds (the ⚡ share is not modelled here).                              *)
(***************************************************************************)
EXTENDS Integers, FiniteSets

CONSTANTS
  Players,         \* keys of the game state
  Newcomers,       \* the ones the bot has not seen yet
  Nobody,          \* the holder of an empty place
  Legs,            \* how long one way of a ride may take
  Loads,           \* the emoji that may be sent: see Presents and Thrown
  Gifts,           \* the palle that may be sent
  Road,            \* most palle a road lets a raider carry
  SaltShares,      \* percent of his palle the 🧂 may take from a raider
  BalloonAttempts, \* the attempt that always pops a 🎈
  CooldownSeconds, FrozenSeconds, NewcomerSeconds,
  MaxTime,         \* bound: the clock stops here, every ride ends before
  MaxLate,         \* bound: the seconds late calls may have waited, in all
  MaxRaids,        \* bound: how many rides may set off
  Movers           \* bound: the players who move or burn their 🎈

VARIABLES
  now,       \* the moment the call at hand has read; without one, the clock
  clock,     \* what seconds_now() returns
  seen,      \* players the bot knows
  hold,      \* state.current: who holds the place since when
  raids,     \* state.raids, by raider
  departed,  \* how many raids set off: their order in the list
  scores,    \* state.scores
  balloon,   \* where a player's 🎈 is: "carried", "house" or "none"
  wear,      \* state.balloons: the attempts it survived
  cooldown,  \* state.cooldowns: penalty until
  frozen,    \* state.frozen: until
  joined,    \* state.joined: when a newcomer was first seen
  entered,   \* state.entered
  walk,      \* the last raid the keeper visited in this round, or Idle
  settled,   \* raiders whose homecoming this round has settled
  ledger,    \* history: palle made in the place less those a ☢️ destroyed
  late       \* history: the seconds late calls waited, in all

moment == <<now, clock, late>>
guards == <<balloon, wear>>
people == <<seen, joined, entered>>
keeper == <<walk, settled>>
vars == <<moment, seen, hold, raids, departed, scores, balloon, wear, cooldown,
          frozen, joined, entered, walk, settled, ledger>>

Nothing == "nothing"
Thrown == Loads \cap {"ice", "nuke", "seed"}
Never == -1
Idle == -1
Empty == [who |-> Nobody, since |-> 0]

ASSUME ConstantsOK ==
  /\ Newcomers \subseteq Players
  /\ Nobody \notin Players
  /\ Legs \subseteq Nat \ {0}
  /\ Loads \subseteq {"present", "ice", "nuke", "seed"}
  /\ Gifts \subseteq Nat \ {0}
  /\ Road \in Nat
  /\ SaltShares \subseteq 0 .. 100
  /\ BalloonAttempts \in Nat \ {0}
  /\ CooldownSeconds \in Nat
  /\ FrozenSeconds \in Nat
  /\ NewcomerSeconds \in Nat
  /\ MaxTime \in Nat /\ MaxLate \in Nat
  /\ MaxRaids \in Nat
  /\ Movers \subseteq Players

Raid == [target : Players, order : Nat \ {0}, arrive : Nat, back : Nat,
         arrived : BOOLEAN, loot : Nat, gift : Nat, load : Loads \cup {Nothing}]

AtLeastZero(n) == IF n > 0 THEN n ELSE 0

-----------------------------------------------------------------------------
(* Where a player is, and what guards him there. *)

OnTheRoad(p) == p \in DOMAIN raids

Whereabouts(p) ==
  IF hold.who = p THEN "conquister" ELSE IF OnTheRoad(p) THEN "road" ELSE "home"

Frozen(p) == frozen[p] > now

NewAt(p, at) == joined[p] # Never /\ at - joined[p] < NewcomerSeconds

Newcomer(p) == NewAt(p, now)

\* Mutant: the 🎈 of whoever is away guards his house.
BalloonThereAnyway(p, site) == ~Frozen(p) /\ balloon[p] # "none"

\* A frozen owner's 🎈 guards nothing; one kept in the house guards the house.
BalloonThere(p, site) ==
  /\ ~Frozen(p)
  /\ \/ site = "home" /\ balloon[p] = "house"
     \/ balloon[p] = "carried" /\ Whereabouts(p) = site

\* Mutant: one attempt too many.
MayHoldOnceMore(p) == wear[p] < BalloonAttempts

\* The roll that decides an attempt: it may hold on all but the last.
MayHold(p) == wear[p] + 1 < BalloonAttempts

\* What the hold made until now, and the scores once it is paid.
Earned == IF hold.who = Nobody THEN 0 ELSE AtLeastZero(now - hold.since)
Paid == IF hold.who = Nobody THEN scores
        ELSE [scores EXCEPT ![hold.who] = @ + Earned]

\* The mutex is free and the player is one the bot knows.
Acts(p) == walk = Idle /\ p \in seen

\* The transaction is over; whoever comes next has the time of the clock, or is late.
CallReturns == now' = clock /\ UNCHANGED <<clock, late>>

-----------------------------------------------------------------------------
(* Claims. *)

\* Mutant: the place can be taken from the road.
MayTryFromTheRoad(p) == Acts(p) /\ cooldown[p] <= now /\ hold.who # p /\ ~Frozen(p)

MayTry(p) == /\ Acts(p)
             /\ ~OnTheRoad(p)
             /\ cooldown[p] <= now
             /\ hold.who # p
             /\ ~Frozen(p)

\* A newcomer's first time in, no 🎈 stops him.
FirstEntry(p) == Newcomer(p) /\ ~entered[p]

\* The holder's 🎈 holds: the ⏳ on the claimer may spare him any part of the wait.
ClaimDefended(p) ==
  /\ MayTry(p)
  /\ hold.who # Nobody
  /\ ~FirstEntry(p)
  /\ BalloonThere(hold.who, "conquister")
  /\ MayHold(hold.who)
  /\ wear' = [wear EXCEPT ![hold.who] = @ + 1]
  /\ \E wait \in 0 .. CooldownSeconds :
       cooldown' = IF wait > 0 THEN [cooldown EXCEPT ![p] = now + wait] ELSE cooldown
  /\ UNCHANGED <<people, hold, raids, departed, scores, balloon, frozen,
                 keeper, ledger>>

\* In: past no 🎈, past one that popped, or past one a 🥷 or a first entry left alone.
ClaimTaken(p) ==
  /\ MayTry(p)
  /\ \E spared \in IF hold.who = Nobody THEN {TRUE}
                   ELSE IF FirstEntry(p) THEN {TRUE}
                   ELSE IF BalloonThere(hold.who, "conquister") THEN BOOLEAN ELSE {FALSE} :
       wear' = IF spared THEN wear ELSE [wear EXCEPT ![hold.who] = 0]
  /\ scores' = Paid
  /\ ledger' = ledger + Earned
  /\ hold' = [who |-> p, since |-> now]
  /\ entered' = [entered EXCEPT ![p] = @ \/ joined[p] # Never]
  /\ UNCHANGED <<seen, joined, raids, departed, balloon, cooldown, frozen, keeper>>

-----------------------------------------------------------------------------
(* Leaving the place and moving the 🎈. *)

\* Mutant: paid, but still in the place.
LeavePlaceStillHeld(p) ==
  /\ hold.who = p
  /\ scores' = Paid
  /\ ledger' = ledger + Earned
  /\ UNCHANGED hold

LeavePlace(p) ==
  /\ hold.who = p
  /\ scores' = Paid
  /\ ledger' = ledger + Earned
  /\ hold' = Empty

\* "We @himself" while holding the place.
WalkOut(p) ==
  /\ Acts(p)
  /\ LeavePlace(p)
  /\ UNCHANGED <<people, raids, departed, guards, cooldown, frozen, keeper>>

\* Any errand at home, even a vain one, takes the holder there first; it may
\* move his 🎈 between the house and himself.
GearErrand(p) ==
  /\ Acts(p)
  /\ ~OnTheRoad(p)
  /\ \/ LeavePlace(p)
     \/ Whereabouts(p) = "home" /\ UNCHANGED <<hold, scores, ledger>>
  /\ \E where \in IF balloon[p] = "none" \/ p \notin Movers THEN {balloon[p]}
              ELSE {"carried", "house"} :
       balloon' = [balloon EXCEPT ![p] = where]
  /\ UNCHANGED <<people, raids, departed, wear, cooldown, frozen, keeper>>

\* His own 🎈 goes up in smoke; how worn it was stays on file.
BurnBalloon(p) ==
  /\ Acts(p)
  /\ ~OnTheRoad(p)
  /\ p \in Movers /\ balloon[p] # "none"
  /\ balloon' = [balloon EXCEPT ![p] = "none"]
  /\ UNCHANGED <<people, hold, raids, departed, scores, wear, cooldown,
                 frozen, keeper, ledger>>

-----------------------------------------------------------------------------
(* Rides. *)

\* Robbing, or throwing something: what a newcomer is spared.
Blow(gift, load) == gift = 0 /\ load \in Thrown \cup {Nothing}

\* Mutant: only robbers are turned away.
SparedRobbery(q, gift, load) == gift = 0 /\ load = Nothing /\ Newcomer(q)

\* "A newcomer's first day nobody robs him or throws anything at him".
Spared(q, gift, load) == Blow(gift, load) /\ Newcomer(q)

\* Both legs last the same; palle and emoji taken along leave as he does.
SetOff(p, q, leg, gift, load) ==
  /\ Acts(p)
  /\ q \in seen \ {p}
  /\ ~OnTheRoad(p)
  /\ ~Spared(q, gift, load)
  /\ ~Frozen(p)
  /\ hold.who # p
  /\ gift <= scores[p]
  /\ gift = 0 \/ load = Nothing
  /\ departed < MaxRaids
  /\ now + 2 * leg <= MaxTime
  /\ departed' = departed + 1
  /\ scores' = [scores EXCEPT ![p] = @ - gift]
  /\ raids' = [r \in DOMAIN raids \cup {p} |->
                 IF r = p
                 THEN [target |-> q, order |-> departed + 1, arrive |-> now + leg,
                       back |-> now + 2 * leg, arrived |-> FALSE, loot |-> 0,
                       gift |-> gift, load |-> load]
                 ELSE raids[r]]
  /\ UNCHANGED <<people, hold, guards, cooldown, frozen, keeper, ledger>>

\* Mutant: the road walked, even once he is past the target.
TurnedHomePastTarget(raid) ==
  LET leg == raid.back - raid.arrive
      left == AtLeastZero(now - (raid.arrive - leg))
  IN  [raid EXCEPT !.arrived = TRUE, !.back = now + left]

\* "We @himself" on the road: back the way he came, taking the legs for equal.
TurnedHome(raid) ==
  LET leg == raid.back - raid.arrive
      left == IF now < raid.arrive THEN AtLeastZero(now - (raid.arrive - leg))
              ELSE AtLeastZero(raid.back - now)
  IN  [raid EXCEPT !.arrived = TRUE, !.back = now + left]

TurnAround(p) ==
  /\ Acts(p)
  /\ OnTheRoad(p)
  /\ raids' = [raids EXCEPT ![p] = TurnedHome(@)]
  /\ UNCHANGED <<people, hold, departed, scores, guards, cooldown, frozen,
                 keeper, ledger>>

-----------------------------------------------------------------------------
(* What is thrown. *)

\* A ☢️ at a house: v starts over, and his ride, if any, is over now.  rs is the
\* list with the thrower's own entry brought up to date.
StartOver(v, rs) ==
  /\ scores' = [scores EXCEPT ![v] = 0]
  /\ ledger' = ledger - scores[v]
               - (IF v \in DOMAIN rs \ settled THEN rs[v].loot + rs[v].gift ELSE 0)
  /\ hold' = IF hold.who = v THEN Empty ELSE hold
  /\ raids' = IF v \in DOMAIN rs
              THEN [rs EXCEPT ![v] = [@ EXCEPT !.arrived = TRUE, !.back = now,
                                        !.loot = 0, !.gift = 0, !.load = Nothing]]
              ELSE rs
  /\ balloon' = [balloon EXCEPT ![v] = "carried"]
  /\ wear' = [wear EXCEPT ![v] = 0]
  /\ cooldown' = [cooldown EXCEPT ![v] = 0]
  /\ UNCHANGED frozen

\* A ☢️ at the place: the whole game starts over.
StartAllOver ==
  /\ scores' = [p \in Players |-> 0]
  /\ ledger' = 0
  /\ hold' = Empty
  /\ raids' = [p \in {} |-> 0]
  /\ balloon' = [p \in Players |-> IF p \in seen THEN "carried" ELSE "none"]
  /\ wear' = [p \in Players |-> 0]
  /\ cooldown' = [p \in Players |-> 0]
  /\ frozen' = [p \in Players |-> 0]

\* The 🔥 on the victim may melt any part of the time he stays frozen.
Freeze(v) ==
  \E time \in 0 .. FrozenSeconds :
    frozen' = IF time > 0 THEN [frozen EXCEPT ![v] = now + time] ELSE frozen

\* land(): a 💦 or a 💩 changes nothing this module keeps.
Land(v, load, rs) ==
  \/ load = "nuke" /\ StartOver(v, rs)
  \/ /\ load = "ice"
     /\ Freeze(v)
     /\ raids' = rs
     /\ UNCHANGED <<scores, ledger, hold, guards, cooldown>>
  \/ /\ load = "seed"
     /\ raids' = rs
     /\ UNCHANGED <<scores, ledger, hold, guards, cooldown, frozen>>

\* Thrown at the place: a ☢️ resets everything, a 🧊 lands on whoever else holds it.
ThrowAtPlace(p, load) ==
  /\ Acts(p)
  /\ ~OnTheRoad(p)
  /\ \/ load = "nuke" /\ StartAllOver
     \/ /\ load = "ice"
        /\ hold.who \notin {Nobody, p}
        /\ Freeze(hold.who)
        /\ UNCHANGED <<scores, ledger, hold, raids, guards, cooldown>>
  /\ UNCHANGED <<people, departed, keeper>>

-----------------------------------------------------------------------------
(* The keeper's round: raid_due. *)

\* What a round would do something about; an idle round changes nothing.
Due(p) == OnTheRoad(p) /\ now >= (IF raids[p].arrived THEN raids[p].back ELSE raids[p].arrive)

RoundBegins ==
  /\ walk = Idle
  /\ \E p \in Players : Due(p)
  /\ walk' = 0
  /\ UNCHANGED <<moment, people, hold, raids, departed, scores, guards, cooldown,
                 frozen, settled, ledger>>

\* The keeper stands at p's raid, the first one he has not visited.
Visiting(p) ==
  /\ walk # Idle
  /\ OnTheRoad(p)
  /\ raids[p].order > walk
  /\ \A q \in DOMAIN raids : raids[q].order > walk => raids[q].order >= raids[p].order

Arriving(p) == Visiting(p) /\ ~raids[p].arrived /\ now >= raids[p].arrive

\* Mutant: whoever carries palle robs too.
RobbingWithPalle(p) == Arriving(p) /\ raids[p].load = Nothing

Robbing(p) == Arriving(p) /\ raids[p].gift = 0 /\ raids[p].load = Nothing

\* The palle change hands, whether the target is in or out.
DeliverPalle(p) ==
  /\ Arriving(p)
  /\ raids[p].gift > 0
  /\ scores' = [scores EXCEPT ![raids[p].target] = @ + raids[p].gift]
  /\ raids' = [raids EXCEPT ![p] = [@ EXCEPT !.arrived = TRUE, !.gift = 0]]
  /\ UNCHANGED <<moment, people, hold, departed, guards, cooldown, frozen, keeper, ledger>>

\* A present nobody has room for, or a 💦 with nobody home, goes back with him.
DeliverPresent(p) ==
  /\ Arriving(p)
  /\ \/ raids[p].load = "present"
     \/ raids[p].load = "seed" /\ Whereabouts(raids[p].target) # "home"
  /\ \E left \in IF raids[p].load = "present" THEN {"present", Nothing} ELSE {"seed"} :
       raids' = [raids EXCEPT ![p] = [@ EXCEPT !.arrived = TRUE, !.load = left]]
  /\ UNCHANGED <<moment, people, hold, departed, scores, guards, cooldown, frozen,
                 keeper, ledger>>

\* It lands at the house, or a 📮 sends it to the thrower's own.
ThrowAtHouse(p) ==
  /\ Arriving(p)
  /\ raids[p].load \in Thrown
  /\ raids[p].load = "seed" => Whereabouts(raids[p].target) = "home"
  /\ \E v \in {p, raids[p].target} :
       Land(v, raids[p].load,
            [raids EXCEPT ![p] = [@ EXCEPT !.arrived = TRUE, !.load = Nothing]])
  /\ UNCHANGED <<moment, people, departed, keeper>>

\* The scores once the raider has paid the salt, if he owes any.
Salted(p, share) ==
  LET paid == (scores[p] * share) \div 100 IN
  [scores EXCEPT ![p] = @ - paid, ![raids[p].target] = @ + paid]

\* Mutant: the target's palle as they were before the salt.
RobbedStale(p, share, loot) ==
  [Salted(p, share) EXCEPT ![raids[p].target] = scores[raids[p].target] - loot]

\* And once the loot is taken too.
Robbed(p, share, loot) == [Salted(p, share) EXCEPT ![raids[p].target] = @ - loot]

\* The 🎈 at the house holds him off.
HeldOff(p) ==
  LET q == raids[p].target IN
  /\ Robbing(p)
  /\ BalloonThere(q, "home")
  /\ MayHold(q)
  /\ wear' = [wear EXCEPT ![q] = @ + 1]
  /\ \E share \in SaltShares : scores' = Salted(p, share)
  /\ raids' = [raids EXCEPT ![p] = [@ EXCEPT !.arrived = TRUE]]
  /\ UNCHANGED <<moment, people, hold, departed, balloon, cooldown, frozen, keeper, ledger>>

\* Past no 🎈, past one that pops, or past one his 🥷 leave alone; a 🐶 may still
\* send him away with nothing, the 🥺 may spare any part of what the road allows.
Rob(p) ==
  LET q == raids[p].target IN
  /\ Robbing(p)
  /\ wear' \in IF BalloonThere(q, "home") THEN {wear, [wear EXCEPT ![q] = 0]} ELSE {wear}
  /\ \E share \in SaltShares :
       LET theirs == Salted(p, share)[q] IN
       \E loot \in 0 .. (IF theirs < Road THEN theirs ELSE Road) :
         /\ scores' = Robbed(p, share, loot)
         /\ raids' = [raids EXCEPT ![p] = [@ EXCEPT !.arrived = TRUE, !.loot = loot]]
  /\ UNCHANGED <<moment, people, hold, departed, balloon, cooldown, frozen, keeper, ledger>>

\* The same visit settles a homecoming: the loot, and the palle nobody received.
ComeHome(p) ==
  /\ Visiting(p)
  /\ raids[p].arrived
  /\ now >= raids[p].back
  /\ scores' = [scores EXCEPT ![p] = @ + raids[p].loot + raids[p].gift]
  /\ settled' = settled \cup {p}
  /\ walk' = raids[p].order
  /\ UNCHANGED <<moment, people, hold, raids, departed, guards, cooldown, frozen, ledger>>

\* Neither arriving nor home yet.
PassBy(p) ==
  /\ Visiting(p)
  /\ ~Due(p)
  /\ walk' = raids[p].order
  /\ UNCHANGED <<moment, people, hold, raids, departed, scores, guards, cooldown,
                 frozen, settled, ledger>>

\* Mutant: only a keeper on time sees the ride end.
OverOnTheDot(raid) == raid.arrived /\ now = raid.back

Over(raid) == raid.arrived /\ now >= raid.back

\* Whoever is home by now is taken off the list, visited at home or not.
RoundEnds ==
  /\ walk # Idle
  /\ \A p \in DOMAIN raids : raids[p].order <= walk
  /\ raids' = [p \in {r \in DOMAIN raids : ~Over(raids[r])} |-> raids[p]]
  /\ walk' = Idle
  /\ settled' = {}
  /\ CallReturns
  /\ UNCHANGED <<people, hold, departed, scores, guards, cooldown, frozen, ledger>>

-----------------------------------------------------------------------------
(* Meeting the bot, and time. *)

PlayerSeen(p) ==
  /\ walk = Idle
  /\ p \notin seen
  /\ seen' = seen \cup {p}
  /\ joined' = [joined EXCEPT ![p] = now]
  /\ balloon' = [balloon EXCEPT ![p] = "carried"]
  /\ UNCHANGED <<entered, hold, raids, departed, scores, wear, cooldown,
                 frozen, keeper, ledger>>

\* A call, the keeper's or a player's, gets the mutex some time after it read the clock.
LateCall ==
  /\ walk = Idle /\ now = clock
  /\ \E at \in 0 .. clock - 1 :
       /\ late + (clock - at) <= MaxLate
       /\ now' = at
       /\ late' = late + (clock - at)
  /\ UNCHANGED <<clock, people, hold, raids, departed, scores, guards, cooldown, frozen,
                 keeper, ledger>>

\* It is refused, or there is nothing for it to do.
InVain ==
  /\ walk = Idle /\ now # clock
  /\ CallReturns
  /\ UNCHANGED <<people, hold, raids, departed, scores, guards, cooldown, frozen, keeper,
                 ledger>>

Tick ==
  /\ walk = Idle /\ now = clock
  /\ clock < MaxTime
  /\ clock' = clock + 1 /\ now' = clock + 1
  /\ UNCHANGED <<late, people, hold, raids, departed, scores, guards, cooldown, frozen,
                 keeper, ledger>>

Init ==
  /\ now = 0 /\ clock = 0 /\ late = 0
  /\ seen = Players \ Newcomers
  /\ hold = Empty
  /\ raids = [p \in {} |-> 0]
  /\ departed = 0
  /\ scores = [p \in Players |-> 0]
  /\ balloon = [p \in Players |-> IF p \in seen THEN "carried" ELSE "none"]
  /\ wear = [p \in Players |-> 0]
  /\ cooldown = [p \in Players |-> 0]
  /\ frozen = [p \in Players |-> 0]
  /\ joined = [p \in Players |-> Never]
  /\ entered = [p \in Players |-> FALSE]
  /\ walk = Idle
  /\ settled = {}
  /\ ledger = 0

Handler(p) ==
  \/ ClaimDefended(p) \/ ClaimTaken(p)
  \/ WalkOut(p) \/ GearErrand(p) \/ BurnBalloon(p)
  \/ \E q \in Players, leg \in Legs, gift \in Gifts \cup {0}, load \in Loads \cup {Nothing} :
       SetOff(p, q, leg, gift, load)
  \/ TurnAround(p)
  \/ \E load \in Loads : ThrowAtPlace(p, load)
  \/ PlayerSeen(p)

Visit(p) ==
  \/ DeliverPalle(p) \/ DeliverPresent(p) \/ ThrowAtHouse(p)
  \/ HeldOff(p) \/ Rob(p)
  \/ ComeHome(p) \/ PassBy(p)

Keeper == RoundBegins \/ (\E p \in Players : Visit(p)) \/ RoundEnds

Next == \/ Keeper \/ Tick \/ LateCall \/ InVain
        \/ \E p \in Players : Handler(p) /\ CallReturns

Spec == Init /\ [][Next]_vars

\* raids_run never stops looking, the clock goes on, and so does a call with the mutex.
FairSpec == Spec /\ WF_vars(Keeper) /\ WF_vars(Tick \/ InVain)

-----------------------------------------------------------------------------
(* Properties. *)

\* The variables keep their types; a 🎈 never survives its last attempt
\* (balloon_attempt's counter stays below balloon_attempts).
TypeOK ==
  /\ now \in 0 .. clock /\ clock \in Nat /\ late \in Nat
  /\ seen \subseteq Players
  /\ hold \in [who : Players \cup {Nobody}, since : Nat]
  /\ DOMAIN raids \subseteq Players
  /\ raids \in [DOMAIN raids -> Raid]
  /\ departed \in Nat
  /\ scores \in [Players -> Nat]
  /\ balloon \in [Players -> {"carried", "house", "none"}]
  /\ wear \in [Players -> 0 .. BalloonAttempts - 1]
  /\ cooldown \in [Players -> Nat]
  /\ frozen \in [Players -> Nat]
  /\ joined \in [Players -> Nat \cup {Never}]
  /\ entered \in [Players -> BOOLEAN]
  /\ walk \in Nat \cup {Idle}
  /\ settled \subseteq Players
  /\ ledger \in Int

\* "A place is held by standing in it, not from the road" (conquister_claim): no
\* interleaving of claims, departures, turns and resets has the holder riding.
HolderIsNotAway == hold.who \notin DOMAIN raids

\* A second in the place is paid twice only by a call that was late: what was paid and
\* what the hold in progress is worth exceed the time gone by at most by the seconds
\* late calls waited (settle_hold, leave_place; a claim that waited for the mutex begins
\* its hold at the moment it read, though the last holder may be paid past it).
NoSecondPaidTwice == ledger + Earned <= clock + late

\* The palle p brings home, until this round has settled his homecoming.
Riding(p) == IF p \in DOMAIN raids \ settled THEN raids[p].loot + raids[p].gift ELSE 0

\* All the palle there are, one by one: in a purse or on a ride.
Palle ==
  (UNION {{<<p, "purse">>} \X (1 .. scores[p]) : p \in Players})
  \cup (UNION {{<<p, "ride">>} \X (1 .. Riding(p)) : p \in Players})

\* Every palla is in a purse or on a ride: robberies, presents, the salt, rides
\* called off and the keeper's bookkeeping move palle, they never make or lose any.
PalleAccounted == Cardinality(Palle) = ledger

\* Nothing that robs or hits is on its way to a newcomer (raid_start's protection
\* is checked once, at the departure, and never again).
NoBlowOnItsWayToANewcomer ==
  \A p \in DOMAIN raids :
    ~raids[p].arrived /\ Blow(raids[p].gift, raids[p].load) =>
      ~NewAt(raids[p].target, clock)

\* A ride brings back either loot or what he set off with, never both: whoever
\* comes to give robs nothing, whoever turned back robs nothing either (raid_due).
NobodyBothGivesAndRobs ==
  \A p \in DOMAIN raids :
    raids[p].loot > 0 => raids[p].arrived /\ raids[p].gift = 0 /\ raids[p].load = Nothing

\* Whatever happens on the road, nobody gets home later than he was due, or than
\* now if the keeper is late (raid_start's turn, start_over).
NobodyComesHomeLater ==
  [][\A p \in DOMAIN raids \cap DOMAIN raids' :
       raids'[p].back <= raids[p].back \/ raids'[p].back <= now]_vars

\* A 🎈 wears only where it guards: claims wear the one the holder has on him,
\* raids the one kept in the house or on an owner who is in; one on a traveller
\* or on a frozen owner guards nothing (balloon_there, balloon_attempt).
BalloonWearsWhereItGuards ==
  [][\A p \in Players :
       wear'[p] > wear[p] =>
         /\ ~Frozen(p)
         /\ IF walk = Idle THEN balloon[p] = "carried" /\ hold.who = p
            ELSE \/ balloon[p] = "house"
                 \/ balloon[p] = "carried" /\ hold.who # p /\ ~OnTheRoad(p)]_vars

\* Every ride ends: the keeper takes the rider home (raid_due).
EveryRideEnds == \A p \in Players : OnTheRoad(p) ~> ~OnTheRoad(p)

\* "What is left is the road already walked" (raid_start): somebody already on his
\* way home does not get home sooner by naming himself again.
HomewardRideKeepsItsEnd ==
  [][\A p \in DOMAIN raids \cap DOMAIN raids' :
       raids[p].arrived /\ raids[p].back > now => raids'[p].back = raids[p].back]_vars

\* "It is over now and the keeper settles it as a homecoming" (start_over): a ride
\* the keeper takes off the list is one whose homecoming the same round has settled.
EndedRideIsSettled ==
  [][walk # Idle => (DOMAIN raids \ DOMAIN raids') \subseteq settled]_vars

=============================================================================
