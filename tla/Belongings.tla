----------------------------- MODULE Belongings -----------------------------
(***************************************************************************)
(* What the players own: the emoji hung in their houses and on them, the    *)
(* ones on the road, the children that live in the houses, and the ⚡ the    *)
(* holder of the place came in with.  From src/src/game.cpp: furniture_buy, *)
(* furniture_move, furniture_burn, gear_take, gear_store, raid_start,       *)
(* raid_due with land, board, births and grow, welcome, conquister_claim,   *)
(* equipment_sort_out.                                                     *)
(*                                                                         *)
(* Every handler is one transaction, hence one action.  An emoji is its     *)
(* power.  Prices are left out: any purchase may be too dear.  So is time,  *)
(* which Journeys has: a ride arrives and a child grows when the model      *)
(* likes.  Dice are choices, and so are the emoji that only weigh on them   *)
(* (🥷 🔊 🐶 📮 🦖).                                                           *)
(*                                                                         *)
(* The visits of one keeper's round come in any order; a rider whose        *)
(* homecoming is settled is on the road until the round ends, and nobody    *)
(* else acts before that.                                                   *)
(***************************************************************************)
EXTENDS Integers, FiniteSets

CONSTANTS
  Players,      \* keys of the game state
  Nobody,       \* the holder of an empty place
  Kinds,        \* the emoji: see Carried, Thrown and Untouchable
  ForSale,      \* bound: the ones bought from now on
  Dowries,      \* what everybody may already have
  HouseLimit,   \* furniture_limit: slots of a house
  Room,         \* bound: slots a house could ever have, more than the limit
  CarriedLimit, \* slots on a player
  BoltPercent,  \* what a ⚡ adds to a hold; it may be nothing
  MaxActs,      \* bound: commands that move emoji
  MaxBorn       \* bound: children, born or expected

VARIABLES
  house,     \* state.furniture: the slots of each house
  gear,      \* state.equipped: the slots on each player
  rides,     \* state.raids, by raider: whom to, how far along, what with
  hold,      \* state.current: who, ⚡ counted, percent, what his 🦞 became
  expecting, \* state.pregnancies: how many, by mother
  children,  \* state.children
  welcomed,  \* state.welcomed
  split,     \* state.split: what works on a player has been told from his furniture
  acts,      \* history: commands that move emoji, for the bound
  born       \* history: children conceived, for the bound and their names

things == <<house, gear>>
family == <<expecting, children, born>>
vars == <<house, gear, rides, hold, family, welcomed, split, acts>>

\* They are the ones of one saved document.
ASSUME PlayersOK == IsFiniteSet(Players)

ASSUME ConstantsOK ==
  /\ Nobody \notin Players
  /\ Kinds \subseteq {"balloon", "bolt", "lobster", "pirate", "bomb", "nuke", "seed", "toy"}
  /\ "balloon" \in Kinds
  /\ ForSale \subseteq Kinds
  /\ HouseLimit \in Nat /\ Room \in Nat /\ HouseLimit < Room
  /\ CarriedLimit \in Nat \ {0}
  /\ BoltPercent \in Nat
  /\ MaxActs \in Nat /\ MaxBorn \in Nat

None == "none"
Kid == "kid"
Palle == "palle"
Vacant == [who |-> Nobody, bolts |-> 0, percent |-> 0, lobsters |-> [i \in {} |-> None]]

Carried == Kinds \cap {"balloon", "bolt", "lobster", "pirate"}
Thrown == Kinds \cap {"bomb", "nuke", "seed"}
Powers == Kinds \ {"toy"}

\* Mutant: the 🎈 is an emoji like the others.
NothingUntouchable == {}

\* What no explosion, no 🏴‍☠️ and no newborn takes.
Untouchable == {"balloon"}

\* furniture_slots, furniture_stored: a slot is where it is, with or without holes before
\* it, however much of the house is saved.
HouseSlots == 1 .. Room
GearSlots == 1 .. CarriedLimit

Ages == 0 .. 3
GrownUp == 2

-----------------------------------------------------------------------------
(* Slots. *)

Least(S) == CHOOSE i \in S : \A j \in S : i <= j

Free(slots, limit) == {i \in DOMAIN slots : i <= limit /\ slots[i] = None}

IsChild(p, i) == \E c \in children : c.owner = p /\ c.slot = i

\* slot_holding: where the house has one he can part with.
SlotsHolding(p, kind) == {i \in HouseSlots : house[p][i] = kind /\ ~IsChild(p, i)}
GearHolding(p, kind) == {i \in GearSlots : gear[p][i] = kind}

Owns(p, kind) == GearHolding(p, kind) # {} \/ SlotsHolding(p, kind) # {}

\* The belongings of everybody, as a value the helpers below turn into another.
Now == [house |-> house, gear |-> gear]

Become(after) == house' = after.house /\ gear' = after.gear

InHouse(t, p, i, kind) == [t EXCEPT !.house[p][i] = kind]
OnHim(t, p, i, kind) == [t EXCEPT !.gear[p][i] = kind]

\* take_emoji: on him before the house, leaving a hole where it was.
Taken(p, kind) ==
  IF GearHolding(p, kind) # {} THEN OnHim(Now, p, Least(GearHolding(p, kind)), None)
  ELSE InHouse(Now, p, Least(SlotsHolding(p, kind)), None)

PutOn(t, p, kind) == OnHim(t, p, Least(Free(t.gear[p], CarriedLimit)), kind)
PutInHouse(t, p, kind, limit) == InHouse(t, p, Least(Free(t.house[p], limit)), kind)

-----------------------------------------------------------------------------
(* Who is where, and what the holder shows. *)

OnTheRoad(p) == p \in DOMAIN rides
AtHome(p) == ~OnTheRoad(p) /\ hold.who # p

\* shown_gear: in the place, a 🦞 still on him shows what it became.
Shown(slots, h, p) ==
  [i \in GearSlots |-> IF h.who = p /\ i \in DOMAIN h.lobsters /\ slots[i] = "lobster"
                       THEN h.lobsters[i] ELSE slots[i]]

ShownCopies(slots, h, p, kind) == Cardinality({i \in GearSlots : Shown(slots, h, p)[i] = kind})

\* Where a ⚡ adds nothing none is counted.
Worthwhile(shown) == IF BoltPercent = 0 THEN 0 ELSE shown

Percent(bolts) == IF bolts = 0 THEN 0 ELSE 100 + bolts * BoltPercent

\* Mutant: what he came in with counts, burnt or not.
KeepBolts(after) == hold

\* lose_bolts: every ⚡ the holder lost takes its share of the percent with it.
LoseBolts(after) ==
  IF hold.who = Nobody \/ hold.bolts = 0 THEN hold
  ELSE LET left == ShownCopies(after.gear[hold.who], hold, hold.who, "bolt")
           share == (hold.percent - 100) \div hold.bolts
       IN  IF left >= hold.bolts THEN hold
           ELSE [hold EXCEPT !.bolts = left,
                             !.percent = IF left > 0 THEN 100 + left * share ELSE 0]

\* A command of a player the bot knows, with no keeper's round going on.
Acts(p) == p \in welcomed /\ \A r \in DOMAIN rides : rides[r].stage # "done"

Counted == acts < MaxActs /\ acts' = acts + 1

\* go_home: an errand at home takes the holder out of the place.
GoesHome(p) == hold' = IF hold.who = p THEN Vacant ELSE hold

-----------------------------------------------------------------------------
(* Errands at home. *)

\* furniture_buy: where it works, or in the slot he named, over what hung there.
Buy(p, kind, at) ==
  /\ Acts(p) /\ Counted
  /\ ~OnTheRoad(p)
  /\ GoesHome(p)
  /\ LET worn == kind \in Carried /\ Free(gear[p], CarriedLimit) # {} IN
     \/ at = 0 /\ worn /\ Become(PutOn(Now, p, kind))
     \/ /\ at = 0 /\ ~worn /\ Free(house[p], HouseLimit) # {}
        /\ Become(PutInHouse(Now, p, kind, HouseLimit))
     \/ /\ at \in 1 .. HouseLimit /\ ~IsChild(p, at) /\ house[p][at] # kind
        /\ Become(InHouse(Now, p, at, kind))
  /\ UNCHANGED <<rides, family, welcomed>>

\* Mutant: the child in the slot he fills is left behind.
MovedOneWay(c, p, from, to) == IF c.owner = p /\ c.slot = from THEN [c EXCEPT !.slot = to] ELSE c

\* Where a child is once the two slots of its house are swapped.
Moved(c, p, from, to) ==
  IF c.owner # p THEN c
  ELSE [c EXCEPT !.slot = IF @ = from THEN to ELSE IF @ = to THEN from ELSE @]

\* furniture_move: a child moves with its emoji.
FurnitureMove(p, from, to) ==
  /\ Acts(p) /\ Counted
  /\ ~OnTheRoad(p)
  /\ from # to
  /\ house[p][from] # None
  /\ GoesHome(p)
  /\ house' = [house EXCEPT ![p][from] = house[p][to], ![p][to] = house[p][from]]
  /\ children' = {Moved(c, p, from, to) : c \in children}
  /\ UNCHANGED <<gear, rides, expecting, born, welcomed>>

\* Mutant: what made room is gone.
SwappedAway(p, from, to) == OnHim(InHouse(Now, p, from, None), p, to, house[p][from])

\* What made room takes the slot in the house of what it made room for.
Swapped(p, from, to) == OnHim(InHouse(Now, p, from, gear[p][to]), p, to, house[p][from])

\* gear_take: into a free slot on him, or in the place of what he names.
GearTake(p, kind, swap) ==
  /\ Acts(p) /\ Counted
  /\ ~OnTheRoad(p)
  /\ SlotsHolding(p, kind) # {}
  /\ LET slots == IF swap = None THEN Free(gear[p], CarriedLimit) ELSE GearHolding(p, swap) IN
     slots # {} /\ Become(Swapped(p, Least(SlotsHolding(p, kind)), Least(slots)))
  /\ GoesHome(p)
  /\ UNCHANGED <<rides, family, welcomed>>

\* gear_store.
GearStore(p, kind) ==
  /\ Acts(p) /\ Counted
  /\ ~OnTheRoad(p)
  /\ GearHolding(p, kind) # {}
  /\ Free(house[p], HouseLimit) # {}
  /\ Become(PutInHouse(Taken(p, kind), p, kind, HouseLimit))
  /\ GoesHome(p)
  /\ UNCHANGED <<rides, family, welcomed>>

-----------------------------------------------------------------------------
(* The place. *)

\* lobsters_copying: every 🦞 on the claimer, and what it faces on the kicked holder.
Copied(p) ==
  LET q == hold.who
      facing == IF q = Nobody THEN {}
                ELSE {i \in GearSlots : gear[p][i] = "lobster" /\ gear[q][i] \notin {None, "lobster"}}
  IN  [i \in facing |-> gear[q][i]]

\* conquister_claim, once past the 🎈: the ⚡ he shows set what the hold is worth.
Claim(p) ==
  LET entered == [who |-> p, bolts |-> 0, percent |-> 0, lobsters |-> Copied(p)]
      bolts == Worthwhile(ShownCopies(gear[p], entered, p, "bolt"))
  IN
  /\ Acts(p)
  /\ AtHome(p)
  /\ hold' = [entered EXCEPT !.bolts = bolts, !.percent = Percent(bolts)]
  /\ UNCHANGED <<things, rides, family, welcomed, acts>>

\* leave_place: naming himself, or an errand at home that comes to nothing.
Leave(p) ==
  /\ Acts(p)
  /\ hold.who = p
  /\ hold' = Vacant
  /\ UNCHANGED <<things, rides, family, welcomed, acts>>

-----------------------------------------------------------------------------
(* Explosions and resets. *)

Exposed(slots) == {i \in DOMAIN slots : slots[i] \in Powers \ Untouchable}

\* blow_up: one emoji with a power, if there is any: on him, or in his house.
BlownOnHim(t, p) ==
  IF Exposed(t.gear[p]) = {} THEN {t} ELSE {OnHim(t, p, i, None) : i \in Exposed(t.gear[p])}
BlownInHouse(t, p) ==
  IF Exposed(t.house[p]) = {} THEN {t} ELSE {InHouse(t, p, i, None) : i \in Exposed(t.house[p])}

NoHouse == [i \in HouseSlots |-> None]
NoGear == [i \in GearSlots |-> None]
FirstGear == [NoGear EXCEPT ![1] = "balloon"]

\* start_over: he turns back, with nothing.
EmptyHanded(ride) ==
  [ride EXCEPT !.stage = IF ride.stage = "out" THEN "back" ELSE ride.stage, !.load = None]

\* A ☢️ on a house: what hangs there and on its owner is gone, and so is what he
\* carries to somebody.  rs is the list with the thrower's entry brought up to date.
StartOver(v, rs) ==
  /\ house' = [house EXCEPT ![v] = NoHouse]
  /\ gear' = [gear EXCEPT ![v] = FirstGear]
  /\ hold' = IF hold.who = v THEN Vacant ELSE hold
  /\ rides' = IF v \notin DOMAIN rs THEN rs ELSE [rs EXCEPT ![v] = EmptyHanded(@)]
  /\ expecting' = [expecting EXCEPT ![v] = 0]
  /\ children' = {c \in children : c.owner # v}
  /\ UNCHANGED born

\* A ☢️ on the place: everybody starts again as he first started, with a 🎈.
StartAllOver ==
  /\ house' = [p \in Players |-> NoHouse]
  /\ gear' = [p \in Players |-> IF p \in welcomed THEN FirstGear ELSE NoGear]
  /\ rides' = [p \in {} |-> None]
  /\ hold' = Vacant
  /\ expecting' = [p \in Players |-> 0]
  /\ children' = {}
  /\ UNCHANGED born

\* furniture_burn, to destroy: it goes up in smoke and touches nobody.
Burn(p, kind) ==
  /\ Acts(p) /\ Counted
  /\ ~OnTheRoad(p)
  /\ Owns(p, kind)
  /\ Become(Taken(p, kind))
  /\ hold' = LoseBolts(Taken(p, kind))
  /\ UNCHANGED <<rides, family, welcomed>>

\* burn_child: it is gone, and its slot is free.
BurnChild(p, c) ==
  /\ Acts(p) /\ Counted
  /\ ~OnTheRoad(p)
  /\ c.owner = p
  /\ house' = [house EXCEPT ![p][c.slot] = None]
  /\ children' = children \ {c}
  /\ UNCHANGED <<gear, rides, hold, expecting, born, welcomed>>

\* furniture_burn, at the place: what is thrown lands on whoever else holds it.
ThrowAtPlace(p, kind) ==
  LET left == Taken(p, kind)
      hit == hold.who \notin {Nobody, p} /\ kind \in Thrown
  IN
  /\ Acts(p) /\ Counted
  /\ ~OnTheRoad(p)
  /\ Owns(p, kind)
  /\ \/ kind = "nuke" /\ StartAllOver
     \/ /\ kind # "nuke"
        /\ \E after \in IF hit /\ kind = "bomb"
                        THEN BlownOnHim(left, p) \cup BlownOnHim(left, hold.who) ELSE {left} :
             Become(after) /\ hold' = LoseBolts(after)
        /\ IF hit /\ kind = "seed"
           THEN /\ born < MaxBorn
                /\ expecting' = [expecting EXCEPT ![hold.who] = @ + 1]
                /\ born' = born + 1
           ELSE UNCHANGED <<expecting, born>>
        /\ UNCHANGED <<children, rides>>
  /\ UNCHANGED welcomed

-----------------------------------------------------------------------------
(* Rides. *)

\* can_receive.
CanReceive(q, kind) ==
  \/ Free(house[q], HouseLimit) # {}
  \/ kind \in Carried /\ AtHome(q) /\ Free(gear[q], CarriedLimit) # {}

\* Mutant: one from the house needs no hand free.
HandsForAnything(p, kind) == Owns(p, kind)

\* It travels on him, in a slot of its own: one from the house needs a free one.
HandsFor(p, kind) ==
  Owns(p, kind) /\ (GearHolding(p, kind) # {} \/ Free(gear[p], CarriedLimit) # {})

\* raid_start: an emoji leaves as he does, if the target has somewhere to put it;
\* what is thrown needs no room there.
SetOff(p, q, load, intact) ==
  /\ Acts(p) /\ Counted
  /\ AtHome(p)
  /\ q \in welcomed \ {p}
  /\ IF load \in Kinds
     THEN /\ HandsFor(p, load)
          /\ (intact \/ load \notin Thrown) => CanReceive(q, load)
          /\ Become(Taken(p, load))
     ELSE UNCHANGED things
  /\ rides' = [r \in DOMAIN rides \cup {p} |->
                 IF r = p THEN [to |-> q, stage |-> "out", load |-> load, intact |-> intact]
                 ELSE rides[r]]
  /\ UNCHANGED <<hold, family, welcomed>>

\* raid_start, naming himself on the road.
TurnBack(p) ==
  /\ Acts(p)
  /\ OnTheRoad(p)
  /\ rides' = [rides EXCEPT ![p].stage = "back"]
  /\ UNCHANGED <<things, hold, family, welcomed, acts>>

Arriving(p) == OnTheRoad(p) /\ rides[p].stage = "out"
Blow(p) == rides[p].load \in Thrown /\ ~rides[p].intact

\* The list once p has been where he was going, with what he still carries.
Arrived(p, load) == [rides EXCEPT ![p].stage = "back", ![p].load = load]

\* receive: on him if it works there and he is in, else in the house, else nowhere.
Deliver(p) ==
  LET q == rides[p].to
      kind == rides[p].load
      worn == kind \in Carried /\ AtHome(q) /\ Free(gear[q], CarriedLimit) # {}
      hung == ~worn /\ Free(house[q], HouseLimit) # {}
  IN
  /\ Arriving(p)
  /\ kind \in Kinds
  /\ ~Blow(p)
  /\ \/ worn /\ Become(PutOn(Now, q, kind))
     \/ hung /\ Become(PutInHouse(Now, q, kind, HouseLimit))
     \/ ~worn /\ ~hung /\ UNCHANGED things
  /\ rides' = Arrived(p, IF worn \/ hung THEN None ELSE kind)
  /\ UNCHANGED <<hold, family, welcomed, acts>>

\* Palle change hands, or a 💦 finds nobody home and goes back as it came.
NothingHung(p) ==
  /\ Arriving(p)
  /\ \/ rides[p].load = Palle /\ rides' = Arrived(p, None)
     \/ /\ rides[p].load = "seed" /\ Blow(p) /\ ~AtHome(rides[p].to)
        /\ rides' = Arrived(p, "seed")
  /\ UNCHANGED <<things, hold, family, welcomed, acts>>

\* It lands on the house, or the 📮 send it back to the thrower's own; a 💣 may be
\* a dud and go off in his hand, but not once it is sent back.
ThrowAtHouse(p) ==
  LET q == rides[p].to
      kind == rides[p].load
      done == Arrived(p, None)
  IN
  /\ Arriving(p)
  /\ Blow(p)
  /\ kind = "seed" => AtHome(q)
  /\ \E v \in {p, q} :
       \/ kind = "nuke" /\ StartOver(v, done)
       \/ /\ kind = "bomb"
          /\ \E after \in BlownInHouse(Now, v) \cup (IF v = q THEN BlownOnHim(Now, p) ELSE {}) :
               Become(after)
          /\ rides' = done
          /\ UNCHANGED <<hold, family>>
       \/ /\ kind = "seed"
          /\ born < MaxBorn
          /\ expecting' = [expecting EXCEPT ![v] = @ + 1]
          /\ born' = born + 1
          /\ rides' = done
          /\ UNCHANGED <<things, hold, children>>
  /\ UNCHANGED <<welcomed, acts>>

\* What a 🏴‍☠️ may carry off.
Boardable(q) ==
  {i \in HouseSlots : house[q][i] \notin {None} \cup Untouchable /\ ~IsChild(q, i)}

\* board: only with a 🏴‍☠️ still on him and room to take it away.
Boarded(t, p, q) ==
  IF "pirate" \notin {t.gear[p][i] : i \in GearSlots} \/ Free(t.gear[p], CarriedLimit) = {} THEN {t}
  ELSE {t} \cup {PutOn(InHouse(t, q, i, None), p, house[q][i]) : i \in Boardable(q)}

\* Whoever comes to rob may leave an emoji to the 🦖 and carry one off.
Rob(p) ==
  /\ Arriving(p)
  /\ rides[p].load = None
  /\ \E fed \in {Now} \cup BlownOnHim(Now, p) :
       \E after \in Boarded(fed, p, rides[p].to) : Become(after)
  /\ rides' = Arrived(p, None)
  /\ UNCHANGED <<hold, family, welcomed, acts>>

\* What nobody took comes back on him, or in the house with no limit.
ComeHome(p) ==
  /\ OnTheRoad(p)
  /\ rides[p].stage = "back"
  /\ IF rides[p].load \notin Kinds THEN UNCHANGED things
     ELSE Become(IF Free(gear[p], CarriedLimit) # {} THEN PutOn(Now, p, rides[p].load)
                 ELSE PutInHouse(Now, p, rides[p].load, Room))
  /\ rides' = [rides EXCEPT ![p].stage = "done", ![p].load = None]
  /\ UNCHANGED <<hold, family, welcomed, acts>>

\* The round is over: whoever is home leaves the list.
RoundEnds ==
  LET still == {p \in DOMAIN rides : rides[p].stage # "done"} IN
  /\ still # DOMAIN rides
  /\ rides' = [p \in still |-> rides[p]]
  /\ UNCHANGED <<things, hold, family, welcomed, acts>>

-----------------------------------------------------------------------------
(* Children, who come and grow as the keeper's round begins. *)

RoundStarts == \A r \in DOMAIN rides : rides[r].stage # "done"

\* Mutant: a newborn has one more slot than the house.
CradleBeyond(p) == Free(house[p], HouseLimit + 1)

Cradle(p) == Free(house[p], HouseLimit)

\* The ones a newborn may take the place of, in a house with no free slot.
Others(p) ==
  {i \in HouseSlots : /\ \E j \in HouseSlots : j >= i /\ house[p][j] # None
                      /\ house[p][i] \notin Untouchable
                      /\ ~IsChild(p, i)}

\* births: with nowhere to be born, there is no child.
Birth(p) ==
  LET places == IF Cradle(p) # {} THEN {Least(Cradle(p))} ELSE Others(p) IN
  /\ RoundStarts
  /\ expecting[p] > 0
  /\ expecting' = [expecting EXCEPT ![p] = @ - 1]
  /\ \/ places = {} /\ UNCHANGED <<house, children>>
     \/ \E i \in places, male \in BOOLEAN :
          /\ house' = [house EXCEPT ![p][i] = Kid]
          /\ children' = children \cup
               {[owner |-> p, slot |-> i, male |-> male, age |-> 0, courted |-> FALSE]}
  /\ UNCHANGED <<gear, rides, hold, born, welcomed, acts>>

\* Mutant: an age too many.
LeavesLate(age) == age > 4

\* child_emoji: what comes after the last age.
Leaves(age) == age \notin Ages

\* grow: one whose slot is empty is forgotten, one past the last age leaves; a
\* grown girl has one chance, the first time there is a grown boy in the house.
Grow ==
  /\ RoundStarts
  /\ \E age \in [children -> Ages \cup {4}] :
       LET here == {c \in children : house[c.owner][c.slot] # None}
           gone == {c \in here : Leaves(age[c])}
           stay == {[c EXCEPT !.age = age[c]] : c \in here \ gone}
           girls == {g \in stay : /\ ~g.male /\ ~g.courted /\ g.age = GrownUp
                                  /\ \E b \in stay : b.male /\ b.owner = g.owner /\ b.age = GrownUp}
       IN
       /\ \A c \in children : age[c] >= c.age
       /\ \E c \in children : age[c] > c.age
       /\ house' = [p \in Players |-> [i \in HouseSlots |->
            IF \E c \in gone : c.owner = p /\ c.slot = i THEN None
            ELSE IF \E c \in stay : c.owner = p /\ c.slot = i THEN Kid ELSE house[p][i]]]
       /\ children' = (stay \ girls) \cup {[g EXCEPT !.courted = TRUE] : g \in girls}
       /\ \E mated \in SUBSET girls :
            /\ born + Cardinality(mated) <= MaxBorn
            /\ born' = born + Cardinality(mated)
            /\ expecting' = [p \in Players |->
                 expecting[p] + Cardinality({g \in mated : g.owner = p})]
  /\ UNCHANGED <<gear, rides, hold, welcomed, acts>>

-----------------------------------------------------------------------------

\* player_seen, welcome: the 🎈 everybody starts with.
Welcome(p) ==
  /\ RoundStarts
  /\ p \notin welcomed
  /\ welcomed' = welcomed \cup {p}
  /\ Become(PutOn(Now, p, "balloon"))
  /\ UNCHANGED <<rides, hold, family, acts>>

\* Of the slots in S, how many come up to i.
Place(S, i) == Cardinality({j \in S : j <= i})

\* What works on him and hangs in the house of a save from before there was the gear.
Misplaced(p) == {i \in HouseSlots : house[p][i] \in Carried /\ ~IsChild(p, i)}

\* One by one, until there is no room on him.
Moves(p, i) == Place(Misplaced(p), i) <= Cardinality(Free(gear[p], CarriedLimit))

\* equipment_sort_out, as the bot starts: each goes where it works, in order.
SortOut ==
  /\ ~split
  /\ split' = TRUE
  /\ gear' = [p \in Players |-> [j \in GearSlots |->
       IF gear[p][j] # None THEN gear[p][j]
       ELSE LET next == {i \in Misplaced(p) :
                           Place(Misplaced(p), i) = Place(Free(gear[p], CarriedLimit), j)}
            IN  IF next = {} THEN None ELSE house[p][Least(next)]]]
  /\ house' = [p \in Players |-> [i \in HouseSlots |->
       IF i \in Misplaced(p) /\ Moves(p, i) THEN None ELSE house[p][i]]]
  /\ UNCHANGED <<rides, hold, family, welcomed, acts>>

Slot == Kinds \cup {None, Kid}

Child == [owner : Players, slot : HouseSlots, male : BOOLEAN, age : Ages, courted : BOOLEAN]

\* Each of the children has a slot of its own, which shows it, and no slot shows a child
\* that is not there.
EachInItsSlot(h, kids) ==
  /\ \A c \in kids : h[c.owner][c.slot] = Kid
  /\ \A c, d \in kids : c.owner = d.owner /\ c.slot = d.slot => c = d
  /\ \A p \in Players, i \in HouseSlots : h[p][i] = Kid => \E c \in kids : c.owner = p /\ c.slot = i

WithinTheLimit(h) == \A p \in Players, i \in HouseSlots : i > HouseLimit => h[p][i] = None

\* What a game that was played may have saved.
ASSUME DowriesOK ==
  \A d \in Dowries :
    /\ d.house \in [Players -> [HouseSlots -> Slot]]
    /\ d.gear \in [Players -> [GearSlots -> Kinds \cup {None}]]
    /\ d.children \subseteq Child
    /\ d.split \in BOOLEAN
    /\ EachInItsSlot(d.house, d.children)
    /\ WithinTheLimit(d.house)

\* A game that starts, or one in which everybody has something already: in an old one,
\* with nobody on the road or in the place.
Init ==
  /\ \/ /\ house = [p \in Players |-> NoHouse]
        /\ gear = [p \in Players |-> NoGear]
        /\ children = {}
        /\ welcomed = {}
        /\ split = FALSE
     \/ \E d \in Dowries :
          /\ house = d.house
          /\ gear = d.gear
          /\ children = d.children
          /\ split = d.split
          /\ welcomed = Players
  /\ rides = [p \in {} |-> None]
  /\ hold = Vacant
  /\ expecting = [p \in Players |-> 0]
  /\ acts = 0
  /\ born = 0

AtHomeErrand(p) ==
  \/ \E kind \in ForSale, at \in 0 .. HouseLimit : Buy(p, kind, at)
  \/ \E from, to \in 1 .. HouseLimit : FurnitureMove(p, from, to)
  \/ \E kind \in Kinds, swap \in Kinds \cup {None} : GearTake(p, kind, swap)
  \/ \E kind \in Kinds : GearStore(p, kind)

Handler(p) ==
  \/ AtHomeErrand(p)
  \/ Claim(p) \/ Leave(p)
  \/ \E kind \in Kinds : Burn(p, kind) \/ ThrowAtPlace(p, kind)
  \/ \E c \in children : BurnChild(p, c)
  \/ \E q \in Players, load \in Kinds \cup {None, Palle}, intact \in BOOLEAN :
       (intact => load \in Thrown) /\ SetOff(p, q, load, intact)
  \/ TurnBack(p)

Visit(p) == Deliver(p) \/ NothingHung(p) \/ ThrowAtHouse(p) \/ Rob(p) \/ ComeHome(p)

Keeper == Grow \/ RoundEnds \/ \E p \in Players : Birth(p) \/ Visit(p)

Plays == Keeper \/ \E p \in Players : Welcome(p) \/ Handler(p)

Next == (split /\ Plays /\ UNCHANGED split) \/ SortOut

Spec == Init /\ [][Next]_vars

-----------------------------------------------------------------------------
(* Properties. *)

\* The variables keep their types; nobody has a child on him.
TypeOK ==
  /\ house \in [Players -> [HouseSlots -> Slot]]
  /\ gear \in [Players -> [GearSlots -> Kinds \cup {None}]]
  /\ DOMAIN rides \subseteq Players
  /\ rides \in [DOMAIN rides -> [to : Players, stage : {"out", "back", "done"},
                                 load : Kinds \cup {None, Palle}, intact : BOOLEAN]]
  /\ hold.who \in Players \cup {Nobody}
  /\ hold.bolts \in 0 .. CarriedLimit
  /\ hold.percent \in Nat
  /\ expecting \in [Players -> Nat]
  /\ children \subseteq Child
  /\ welcomed \subseteq Players /\ split \in BOOLEAN
  /\ acts \in Nat /\ born \in Nat

\* Each child has a slot of its own, which shows it, and no slot shows a child that
\* is not there: births, moves, purchases, fires, growth and resets agree on it.
ChildrenInTheirSlots == EachInItsSlot(house, children)

\* Whoever carries an emoji always has a slot on him to bring it home in: the one
\* it travelled in is never "taken meanwhile" (raid_due's homecoming).
RoomToComeHome ==
  \A p \in DOMAIN rides :
    rides[p].stage # "done" /\ rides[p].load \in Kinds => Free(gear[p], CarriedLimit) # {}

\* So no house ever has more slots than furniture_limit, although a homecoming
\* hangs with no limit (put_in_house), a newborn and a present with it.
HousesWithinTheLimit == WithinTheLimit(house)

\* The hold counts the ⚡ its holder shows, no more and no less, whatever burns, goes
\* off or is copied by a 🦞 while he is in; none of them where the settings have a ⚡
\* add nothing (conquister_claim, lose_bolts).
HoldCountsItsBolts ==
  hold.who # Nobody =>
    /\ hold.bolts = Worthwhile(ShownCopies(gear[hold.who], hold, hold.who, "bolt"))
    /\ hold.percent = Percent(hold.bolts)

Balloons(p) == Cardinality({i \in HouseSlots : house[p][i] = "balloon"})
               + Cardinality({i \in GearSlots : gear[p][i] = "balloon"})

\* "Nothing takes it off a name against its owner's will: no explosion, no theft, no
\* newborn" (game.hpp, untouchable): a 🎈 leaves a player by his own command, or
\* with everything else under a ☢️.
BalloonsStay ==
  [][\A p \in Players :
       Balloons(p)' < Balloons(p) =>
         Handler(p) \/ (house'[p] = NoHouse /\ gear'[p] = FirstGear)]_vars

\* How many of a kind there are in the game, the ones on the road included.
Copies(kind) ==
  Cardinality({s \in Players \X HouseSlots : house[s[1]][s[2]] = kind})
  + Cardinality({s \in Players \X GearSlots : gear[s[1]][s[2]] = kind})
  + Cardinality({p \in DOMAIN rides : rides[p].load = kind})

\* What may make an emoji or do away with one.
MakesOrDestroys ==
  \/ \E p \in Players :
       \/ Welcome(p)
       \/ \E kind \in Kinds : Burn(p, kind) \/ ThrowAtPlace(p, kind)
       \/ \E kind \in ForSale, at \in 0 .. HouseLimit : Buy(p, kind, at)
       \/ Birth(p) \/ ThrowAtHouse(p) \/ (Rob(p) /\ \A kind \in Kinds : Copies(kind)' <= Copies(kind))

\* Everything else only moves emoji from one slot to another: errands, rides,
\* presents, boardings and homecomings never double one and never lose one.
EmojiOnlyChangeHands ==
  [][\/ UNCHANGED <<things, rides>>
     \/ \A kind \in Kinds : Copies(kind)' = Copies(kind)
     \/ MakesOrDestroys]_vars

=============================================================================
