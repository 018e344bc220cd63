-------------------------- MODULE BelongingsProofs --------------------------
(***************************************************************************)
(* That each child keeps a slot of its own, that whoever carries an emoji   *)
(* has room to bring it home in, and that no house ever has more in it than *)
(* furniture_limit allows: for any players, emoji, limits and bounds.       *)
(***************************************************************************)
EXTENDS Belongings, WellFoundedInduction, TLAPS

-----------------------------------------------------------------------------
(* Slots. *)

\* The first of some slots is one of them.
LEMMA LeastOf == ASSUME NEW S \in SUBSET Nat, S # {} PROVE Least(S) \in S
<1>1. PICK i \in S : \A j \in S : ~ (<<j, i>> \in OpToRel(<, Nat))
  BY NatLessThanWellFounded, WFMin
<1>2. \A j \in S : ~ (j < i)
  BY <1>1 DEF OpToRel
<1>3. \A j \in S : i <= j
  BY <1>2
<1> QED
  BY <1>3 DEF Least

\* A child is no emoji, and what some emoji do is of the emoji.
LEMMA KindFacts ==
  /\ Kid \notin Kinds \cup {None} /\ None \notin Kinds /\ Palle \notin Kinds /\ "balloon" \in Kinds
  /\ Carried \subseteq Kinds /\ Thrown \subseteq Kinds /\ Powers \subseteq Kinds
  /\ HouseSlots \subseteq Nat /\ GearSlots \subseteq Nat
BY ConstantsOK DEF Kid, None, Palle, Carried, Thrown, Powers, HouseSlots, GearSlots

Houses == [Players -> [HouseSlots -> Slot]]
Gears == [Players -> [GearSlots -> Kinds \cup {None}]]
Things == [house : Houses, gear : Gears]

Ride == [to : Players, stage : {"out", "back", "done"}, load : Kinds \cup {None, Palle},
         intact : BOOLEAN]

\* What every step finds of the houses: the two things to prove of them, and the types.
Furnished ==
  /\ Now \in Things /\ children \subseteq Child
  /\ ChildrenInTheirSlots /\ HousesWithinTheLimit

\* The list of rides; nobody is on it before the belongings are sorted out.
Riding ==
  /\ DOMAIN rides \subseteq welcomed /\ welcomed \subseteq Players
  /\ rides \in [DOMAIN rides -> Ride]
  /\ ~split => DOMAIN rides = {}

Inv == Furnished /\ Riding /\ RoomToComeHome

\* The same children in the same slots, and nothing past the limit.
Sound(t) ==
  /\ t \in Things
  /\ \A p \in Players, i \in HouseSlots : t.house[p][i] = Kid <=> house[p][i] = Kid
  /\ WithinTheLimit(t.house)

\* No less room on anybody than there is.
Roomy(t) ==
  \A p \in Players : Free(gear[p], CarriedLimit) # {} => Free(t.gear[p], CarriedLimit) # {}

LEMMA NowSound == Furnished => Sound(Now) /\ Roomy(Now)
BY DEF Furnished, Sound, Roomy, Now, HousesWithinTheLimit

\* Hanging an emoji where there is no child, or taking one away.
LEMMA InHouseSound ==
  ASSUME NEW t, Sound(t), NEW p \in Players, NEW i \in HouseSlots, NEW kind \in Kinds \cup {None},
         t.house[p][i] # Kid, i <= HouseLimit \/ kind = None
  PROVE  Sound(InHouse(t, p, i, kind)) /\ InHouse(t, p, i, kind).gear = t.gear
<1> DEFINE u == InHouse(t, p, i, kind)
<1>1. t.house \in Houses /\ t.gear \in Gears
  BY DEF Sound, Things
<1>2. u.house = [t.house EXCEPT ![p][i] = kind] /\ u.gear = t.gear /\ u = [t EXCEPT !.house = u.house]
  BY DEF InHouse, Sound, Things
<1>3. u.house \in Houses
  BY <1>1, <1>2 DEF Houses, Slot
<1>4. u \in Things
  BY <1>1, <1>2, <1>3 DEF Sound, Things
<1>5. kind # Kid
  BY KindFacts
<1>6. \A q \in Players, j \in HouseSlots :
        u.house[q][j] = IF q = p /\ j = i THEN kind ELSE t.house[q][j]
  BY <1>1, <1>2 DEF Houses
<1>7. \A q \in Players, j \in HouseSlots : u.house[q][j] = Kid <=> house[q][j] = Kid
  BY <1>5, <1>6 DEF Sound
<1>8. WithinTheLimit(u.house)
  <2> SUFFICES ASSUME NEW q \in Players, NEW j \in HouseSlots, j > HouseLimit
               PROVE  u.house[q][j] = None
    BY DEF WithinTheLimit
  <2>1. i \in Nat /\ j \in Nat /\ HouseLimit \in Nat
    BY KindFacts, ConstantsOK
  <2> QED
    BY <1>6, <2>1 DEF Sound, WithinTheLimit
<1> QED
  BY <1>2, <1>4, <1>7, <1>8 DEF Sound

\* What happens on a player leaves the houses alone.
LEMMA OnHimSound ==
  ASSUME NEW t, Sound(t), NEW p, NEW i, NEW kind \in Kinds \cup {None}
  PROVE  /\ Sound(OnHim(t, p, i, kind)) /\ OnHim(t, p, i, kind).house = t.house
         /\ \A q \in Players \ {p} : OnHim(t, p, i, kind).gear[q] = t.gear[q]
<1> DEFINE u == OnHim(t, p, i, kind)
<1>1. t.house \in Houses /\ t.gear \in Gears
  BY DEF Sound, Things
<1>2. u.gear = [t.gear EXCEPT ![p][i] = kind] /\ u.house = t.house /\ u = [t EXCEPT !.gear = u.gear]
  BY DEF OnHim, Sound, Things
<1> HIDE DEF u
<1>3. u.gear \in Gears /\ \A q \in Players \ {p} : u.gear[q] = t.gear[q]
  <2>1. CASE p \in Players
    <3>1. [t.gear[p] EXCEPT ![i] = kind] \in [GearSlots -> Kinds \cup {None}]
      BY <1>1, <2>1 DEF Gears
    <3> QED
      BY <1>1, <1>2, <2>1, <3>1 DEF Gears
  <2>2. CASE p \notin Players
    BY <1>1, <1>2, <2>2 DEF Gears
  <2> QED
    BY <2>1, <2>2
<1>4. u \in Things
  BY <1>1, <1>2, <1>3 DEF Sound, Things
<1>5. Sound(u)
  BY <1>2, <1>4 DEF Sound
<1> QED
  BY <1>2, <1>3, <1>5 DEF u

\* Taking something off somebody makes room.
LEMMA OffHimRoomy ==
  ASSUME NEW t, t \in Things, NEW p, NEW i
  PROVE  /\ \A q \in Players : Free(t.gear[q], CarriedLimit) # {} =>
                                  Free(OnHim(t, p, i, None).gear[q], CarriedLimit) # {}
         /\ p \in Players /\ i \in GearSlots => Free(OnHim(t, p, i, None).gear[p], CarriedLimit) # {}
<1> DEFINE u == OnHim(t, p, i, None)
<1>1. t.gear \in Gears
  BY DEF Things
<1>2. u.gear = [t.gear EXCEPT ![p][i] = None]
  BY DEF OnHim, Things
<1>3. \A q \in Players : DOMAIN u.gear[q] = GearSlots /\ DOMAIN t.gear[q] = GearSlots
  BY <1>1, <1>2 DEF Gears
<1>4. \A q \in Players, j \in GearSlots : t.gear[q][j] = None => u.gear[q][j] = None
  BY <1>1, <1>2 DEF Gears
<1>5. \A q \in Players : Free(t.gear[q], CarriedLimit) # {} => Free(u.gear[q], CarriedLimit) # {}
  BY <1>3, <1>4 DEF Free
<1>6. ASSUME p \in Players, i \in GearSlots PROVE Free(u.gear[p], CarriedLimit) # {}
  <2>1. u.gear[p][i] = None
    BY <1>1, <1>2, <1>6 DEF Gears
  <2>2. i <= CarriedLimit
    BY <1>6 DEF GearSlots
  <2> QED
    BY <1>3, <1>6, <2>1, <2>2 DEF Free
<1> QED
  BY <1>5, <1>6

\* The first free slot of a house is one where nothing hangs.
LEMMA FreeSlot ==
  ASSUME NEW t \in Things, NEW p \in Players, NEW limit, Free(t.house[p], limit) # {}
  PROVE  /\ Least(Free(t.house[p], limit)) \in HouseSlots
         /\ Least(Free(t.house[p], limit)) <= limit
         /\ t.house[p][Least(Free(t.house[p], limit))] = None
<1>1. DOMAIN t.house[p] = HouseSlots
  BY DEF Things, Houses
<1>2. Free(t.house[p], limit) \in SUBSET Nat
  BY <1>1, KindFacts DEF Free
<1>3. Least(Free(t.house[p], limit)) \in Free(t.house[p], limit)
  BY <1>2, LeastOf
<1> QED
  BY <1>1, <1>3 DEF Free

LEMMA PutInHouseSound ==
  ASSUME NEW t, Sound(t), NEW p \in Players, NEW kind \in Kinds, Free(t.house[p], HouseLimit) # {}
  PROVE  Sound(PutInHouse(t, p, kind, HouseLimit)) /\ PutInHouse(t, p, kind, HouseLimit).gear = t.gear
<1> DEFINE i == Least(Free(t.house[p], HouseLimit))
<1>1. i \in HouseSlots /\ i <= HouseLimit /\ t.house[p][i] = None
  BY FreeSlot DEF Sound
<1>2. t.house[p][i] # Kid
  BY <1>1, KindFacts
<1> HIDE DEF i
<1>3. Sound(InHouse(t, p, i, kind)) /\ InHouse(t, p, i, kind).gear = t.gear
  BY <1>1, <1>2, InHouseSound
<1> QED
  BY <1>3 DEF PutInHouse, i

LEMMA PutOnSound ==
  ASSUME NEW t, Sound(t), NEW p, NEW kind \in Kinds
  PROVE  /\ Sound(PutOn(t, p, kind)) /\ PutOn(t, p, kind).house = t.house
         /\ \A q \in Players \ {p} : PutOn(t, p, kind).gear[q] = t.gear[q]
<1> DEFINE i == Least(Free(t.gear[p], CarriedLimit))
<1>1. PutOn(t, p, kind) = OnHim(t, p, i, kind) /\ kind \in Kinds \cup {None}
  BY DEF PutOn
<1> HIDE DEF i
<1> QED
  BY <1>1, OnHimSound

\* Whatever he owns can be taken, and frees a slot, on him if it was there.
LEMMA TakenSound ==
  ASSUME Furnished, NEW p \in Players, NEW kind \in Kinds, Owns(p, kind)
  PROVE  /\ Sound(Taken(p, kind)) /\ Roomy(Taken(p, kind))
         /\ HandsFor(p, kind) => Free(Taken(p, kind).gear[p], CarriedLimit) # {}
<1>0. Sound(Now) /\ Roomy(Now) /\ Now.house = house /\ Now.gear = gear /\ Now \in Things
  BY NowSound DEF Now, Furnished
<1>1. CASE GearHolding(p, kind) # {}
  <2> DEFINE i == Least(GearHolding(p, kind))
  <2>1. GearHolding(p, kind) \in SUBSET Nat /\ GearHolding(p, kind) \subseteq GearSlots
    BY KindFacts DEF GearHolding
  <2>2. i \in GearSlots
    BY <1>1, <2>1, LeastOf
  <2>3. Taken(p, kind) = OnHim(Now, p, i, None)
    BY <1>1 DEF Taken
  <2> HIDE DEF i
  <2>4. Sound(OnHim(Now, p, i, None))
    BY <1>0, OnHimSound
  <2>5. /\ \A q \in Players : Free(gear[q], CarriedLimit) # {} =>
                                 Free(OnHim(Now, p, i, None).gear[q], CarriedLimit) # {}
        /\ Free(OnHim(Now, p, i, None).gear[p], CarriedLimit) # {}
    BY <1>0, <2>2, OffHimRoomy
  <2> QED
    BY <2>3, <2>4, <2>5 DEF Roomy
<1>2. CASE GearHolding(p, kind) = {}
  <2> DEFINE i == Least(SlotsHolding(p, kind))
  <2>1. SlotsHolding(p, kind) \in SUBSET Nat /\ SlotsHolding(p, kind) # {}
    BY <1>2, KindFacts DEF SlotsHolding, Owns
  <2>2. i \in SlotsHolding(p, kind)
    BY <2>1, LeastOf
  <2>3. Taken(p, kind) = InHouse(Now, p, i, None)
    BY <1>2 DEF Taken
  <2>4. i \in HouseSlots /\ house[p][i] # Kid
    BY <2>2, KindFacts DEF SlotsHolding
  <2> HIDE DEF i
  <2>5. Sound(InHouse(Now, p, i, None)) /\ InHouse(Now, p, i, None).gear = gear
    BY <1>0, <2>4, InHouseSound
  <2> QED
    BY <1>2, <2>3, <2>5 DEF Roomy, HandsFor
<1> QED
  BY <1>1, <1>2

\* An explosion leaves the children and makes room.
LEMMA BlownOnHimSound ==
  ASSUME NEW t, Sound(t), Roomy(t), NEW p, NEW u \in BlownOnHim(t, p)
  PROVE  Sound(u) /\ Roomy(u) /\ u.house = t.house
<1>1. CASE u = t
  BY <1>1
<1>2. CASE u # t
  <2>1. PICK i \in Exposed(t.gear[p]) : u = OnHim(t, p, i, None)
    BY <1>2 DEF BlownOnHim
  <2>2. Sound(u) /\ u.house = t.house
    <3>1. None \in Kinds \cup {None}
      OBVIOUS
    <3>2. Sound(OnHim(t, p, i, None)) /\ OnHim(t, p, i, None).house = t.house
      BY <3>1, OnHimSound
    <3> QED
      BY <2>1, <3>2
  <2>3. Roomy(u)
    BY <2>1, OffHimRoomy DEF Roomy, Sound
  <2> QED
    BY <2>2, <2>3
<1> QED
  BY <1>1, <1>2

LEMMA BlownInHouseSound ==
  ASSUME NEW t, Sound(t), Roomy(t), NEW p \in Players, NEW u \in BlownInHouse(t, p)
  PROVE  Sound(u) /\ Roomy(u)
<1>1. CASE u = t
  BY <1>1
<1>2. CASE u # t
  <2>1. PICK i \in Exposed(t.house[p]) : u = InHouse(t, p, i, None)
    BY <1>2 DEF BlownInHouse
  <2>2. i \in HouseSlots /\ t.house[p][i] \in Kinds
    BY KindFacts DEF Exposed, Sound, Things, Houses
  <2>3. t.house[p][i] # Kid
    BY <2>2, KindFacts
  <2>4. Sound(u) /\ u.gear = t.gear
    BY <2>1, <2>2, <2>3, InHouseSound
  <2> QED
    BY <2>4 DEF Roomy
<1> QED
  BY <1>1, <1>2

\* So does a 🏴‍☠️, but that its owner has less room.
LEMMA BoardedSound ==
  ASSUME NEW t, Sound(t), Roomy(t), t.house = house, Furnished, NEW p, NEW q \in Players,
         NEW u \in Boarded(t, p, q)
  PROVE  /\ Sound(u)
         /\ \A r \in Players \ {p} : Free(gear[r], CarriedLimit) # {} => Free(u.gear[r], CarriedLimit) # {}
<1>1. CASE u = t
  BY <1>1 DEF Roomy
<1>2. CASE u # t
  <2>1. PICK i \in Boardable(q) : u = PutOn(InHouse(t, q, i, None), p, house[q][i])
    BY <1>2 DEF Boarded
  <2>2. i \in HouseSlots /\ ~IsChild(q, i) /\ house[q][i] # None /\ house[q][i] \in Slot
    BY DEF Boardable, Furnished, Now, Things, Houses
  <2>3. house[q][i] # Kid
    BY <2>2 DEF Furnished, ChildrenInTheirSlots, EachInItsSlot, IsChild
  <2>4. house[q][i] \in Kinds
    BY <2>2, <2>3 DEF Slot
  <2>5. Sound(InHouse(t, q, i, None)) /\ InHouse(t, q, i, None).gear = t.gear
    BY <2>2, <2>3, InHouseSound
  <2>6. Sound(u) /\ \A r \in Players \ {p} : u.gear[r] = t.gear[r]
    BY <2>1, <2>4, <2>5, PutOnSound
  <2> QED
    BY <2>6 DEF Roomy
<1> QED
  BY <1>1, <1>2

-----------------------------------------------------------------------------
(* The steps that leave the children alone. *)

LEMMA SoundStep ==
  ASSUME Furnished, NEW t, Sound(t), Become(t), children' = children
  PROVE  Furnished'
<1>1. house' = t.house /\ gear' = t.gear
  BY DEF Become
<1>2. Now' \in Things
  BY <1>1 DEF Now, Sound, Things
<1>3. \A p \in Players, i \in HouseSlots : house'[p][i] = Kid <=> house[p][i] = Kid
  BY <1>1 DEF Sound
<1>4. ChildrenInTheirSlots'
  <2>1. \A c \in children : c.owner \in Players /\ c.slot \in HouseSlots
    BY DEF Furnished, Child
  <2> QED
    BY <1>3, <2>1 DEF Furnished, ChildrenInTheirSlots, EachInItsSlot
<1>5. HousesWithinTheLimit'
  BY <1>1 DEF Sound, HousesWithinTheLimit, WithinTheLimit
<1> QED
  BY <1>2, <1>4, <1>5 DEF Furnished

LEMMA SameThings == ASSUME Furnished, UNCHANGED <<things, children>> PROVE Furnished'
BY DEF things, Furnished, Now, ChildrenInTheirSlots, EachInItsSlot, HousesWithinTheLimit, WithinTheLimit

-----------------------------------------------------------------------------
(* The list of rides. *)

\* Nobody sets off or arrives, and nobody on the road has less room.
LEMMA SameRides ==
  ASSUME Inv, split, split', rides' = rides, welcomed' = welcomed,
         \A p \in DOMAIN rides : Free(gear[p], CarriedLimit) # {} => Free(gear'[p], CarriedLimit) # {}
  PROVE  Riding' /\ RoomToComeHome'
BY DEF Inv, Riding, RoomToComeHome

\* One of them arrives, and the others have no less room.
LEMMA ArrivedRides ==
  ASSUME Inv, split, split', NEW p \in DOMAIN rides, NEW load \in Kinds \cup {None, Palle},
         rides' = Arrived(p, load), welcomed' = welcomed,
         \A r \in DOMAIN rides \ {p} :
           Free(gear[r], CarriedLimit) # {} => Free(gear'[r], CarriedLimit) # {},
         load \in Kinds => Free(gear'[p], CarriedLimit) # {}
  PROVE  Riding' /\ RoomToComeHome'
<1> DEFINE ride == [rides[p] EXCEPT !.stage = "back", !.load = load]
<1>1. rides[p] \in Ride
  BY DEF Inv, Riding
<1>2. ride \in Ride /\ ride.load = load /\ ride.stage = "back"
  BY <1>1 DEF Ride
<1>3. rides' = [rides EXCEPT ![p] = ride]
  BY DEF Arrived
<1> HIDE DEF ride
<1>4. DOMAIN rides' = DOMAIN rides /\ rides'[p] = ride
      /\ \A r \in DOMAIN rides \ {p} : rides'[r] = rides[r]
  BY <1>3
<1>5. rides' \in [DOMAIN rides' -> Ride]
  BY <1>2, <1>3 DEF Inv, Riding
<1>6. Riding'
  BY <1>4, <1>5 DEF Inv, Riding
<1> QED
  BY <1>2, <1>4, <1>6 DEF Inv, RoomToComeHome

\* Who is on the list, and with what.
LEMMA OnTheList ==
  ASSUME Inv, NEW p, OnTheRoad(p)
  PROVE  /\ p \in DOMAIN rides /\ p \in Players /\ rides[p] \in Ride /\ rides[p].to \in Players
         /\ rides[p].load \in Kinds \cup {None, Palle}
BY DEF OnTheRoad, Inv, Riding, Ride

-----------------------------------------------------------------------------
(* One step at a time.  First the errands. *)

LEMMA BuyInv ==
  ASSUME Inv, split, split', NEW p \in Players, NEW kind \in Kinds, NEW at \in 0 .. HouseLimit,
         Buy(p, kind, at)
  PROVE  Inv'
<1>1. Furnished /\ Sound(Now) /\ Now.house = house /\ Now.gear = gear
  BY NowSound DEF Inv, Now
<1>2. \E t : Sound(t) /\ Become(t) /\ \A r \in Players \ {p} : t.gear[r] = gear[r]
  <2>1. CASE Become(PutOn(Now, p, kind))
    BY <1>1, <2>1, PutOnSound
  <2>2. CASE Free(house[p], HouseLimit) # {} /\ Become(PutInHouse(Now, p, kind, HouseLimit))
    BY <1>1, <2>2, PutInHouseSound
  <2>3. CASE at \in 1 .. HouseLimit /\ ~IsChild(p, at) /\ Become(InHouse(Now, p, at, kind))
    <3>1. at \in HouseSlots /\ at <= HouseLimit
      BY <2>3, ConstantsOK DEF HouseSlots
    <3>2. house[p][at] # Kid
      BY <1>1, <2>3, <3>1 DEF Furnished, ChildrenInTheirSlots, EachInItsSlot, IsChild
    <3>3. Sound(InHouse(Now, p, at, kind)) /\ InHouse(Now, p, at, kind).gear = gear
      BY <1>1, <3>1, <3>2, InHouseSound
    <3> QED
      BY <2>3, <3>3
  <2> QED
    BY <2>1, <2>2, <2>3 DEF Buy
<1>3. children' = children /\ rides' = rides /\ welcomed' = welcomed /\ p \notin DOMAIN rides
  BY DEF Buy, family, OnTheRoad
<1>4. PICK t : Sound(t) /\ Become(t) /\ \A r \in Players \ {p} : t.gear[r] = gear[r]
  BY <1>2
<1>5. Furnished'
  BY <1>1, <1>3, <1>4, SoundStep
<1>6. \A r \in DOMAIN rides : gear'[r] = gear[r]
  BY <1>3, <1>4 DEF Become, Inv, Riding
<1> QED
  BY <1>3, <1>5, <1>6, SameRides DEF Inv

\* The two slots change places, and a child with its own.
LEMMA FurnitureMoveInv ==
  ASSUME Inv, split, split', NEW p \in Players, NEW from \in 1 .. HouseLimit,
         NEW to \in 1 .. HouseLimit, FurnitureMove(p, from, to)
  PROVE  Inv'
<1>1. Furnished /\ house \in Houses /\ gear \in Gears
  BY DEF Inv, Furnished, Now, Things
<1>2. /\ from \in HouseSlots /\ to \in HouseSlots /\ from # to
      /\ gear' = gear /\ rides' = rides /\ welcomed' = welcomed
      /\ house' = [house EXCEPT ![p][from] = house[p][to], ![p][to] = house[p][from]]
      /\ children' = {Moved(c, p, from, to) : c \in children}
  BY ConstantsOK DEF FurnitureMove, HouseSlots
<1> DEFINE At(q, i) == IF q = p THEN IF i = from THEN to ELSE IF i = to THEN from ELSE i ELSE i
<1>3. \A q \in Players, i \in HouseSlots : house'[q][i] = house[q][At(q, i)]
  BY <1>1, <1>2 DEF Houses
<1>4. house' \in Houses
  <2>1. [house[p] EXCEPT ![from] = house[p][to], ![to] = house[p][from]] \in [HouseSlots -> Slot]
    BY <1>1, <1>2 DEF Houses
  <2> QED
    BY <1>1, <1>2, <2>1 DEF Houses
<1>5. ASSUME NEW c \in children
      PROVE  /\ Moved(c, p, from, to) \in Child
             /\ Moved(c, p, from, to).owner = c.owner
             /\ Moved(c, p, from, to).slot = At(c.owner, c.slot)
             /\ c \in Child /\ c.owner \in Players /\ c.slot \in HouseSlots
  <2>1. c \in Child
    BY <1>1 DEF Furnished
  <2>2. CASE c.owner # p
    BY <2>1, <2>2 DEF Moved, Child
  <2>3. CASE c.owner = p
    <3> DEFINE slot == IF c.slot = from THEN to ELSE IF c.slot = to THEN from ELSE c.slot
    <3>1. slot \in HouseSlots /\ slot = At(c.owner, c.slot)
      BY <1>2, <2>1, <2>3 DEF Child
    <3>2. Moved(c, p, from, to) = [c EXCEPT !.slot = slot]
      BY <2>3 DEF Moved
    <3> HIDE DEF slot, At
    <3> QED
      BY <2>1, <3>1, <3>2 DEF Child
  <2> QED
    BY <2>1, <2>2, <2>3 DEF Child
<1>6. \A q, i, j : /\ At(q, At(q, i)) = i
                   /\ At(q, i) = At(q, j) => i = j
  BY <1>2
<1>7. \A q, i : i \in HouseSlots => At(q, i) \in HouseSlots
  BY <1>2
<1>8. \A q, i : i \in HouseSlots /\ i > HouseLimit => At(q, i) = i
  BY ConstantsOK DEF HouseSlots
<1> HIDE DEF At
<1>9. ChildrenInTheirSlots'
  <2>1. \A c \in children' : house'[c.owner][c.slot] = Kid
    <3> SUFFICES ASSUME NEW c \in children
                 PROVE  house'[c.owner][At(c.owner, c.slot)] = Kid
      BY <1>2, <1>5
    <3>1. house'[c.owner][At(c.owner, c.slot)] = house[c.owner][At(c.owner, At(c.owner, c.slot))]
      BY <1>3, <1>5, <1>7
    <3> QED
      BY <1>1, <1>6, <3>1 DEF Furnished, ChildrenInTheirSlots, EachInItsSlot
  <2>2. \A c, d \in children' : c.owner = d.owner /\ c.slot = d.slot => c = d
    <3> SUFFICES ASSUME NEW c \in children, NEW d \in children,
                        Moved(c, p, from, to).owner = Moved(d, p, from, to).owner,
                        Moved(c, p, from, to).slot = Moved(d, p, from, to).slot
                 PROVE  Moved(c, p, from, to) = Moved(d, p, from, to)
      BY <1>2
    <3>1. c.owner = d.owner /\ c.slot = d.slot
      BY <1>5, <1>6
    <3> QED
      BY <1>1, <3>1 DEF Furnished, ChildrenInTheirSlots, EachInItsSlot
  <2>3. ASSUME NEW q \in Players, NEW i \in HouseSlots, house'[q][i] = Kid
        PROVE  \E c \in children' : c.owner = q /\ c.slot = i
    <3>1. house[q][At(q, i)] = Kid /\ At(q, i) \in HouseSlots
      BY <1>3, <1>7, <2>3
    <3>2. PICK c \in children : c.owner = q /\ c.slot = At(q, i)
      BY <1>1, <3>1 DEF Furnished, ChildrenInTheirSlots, EachInItsSlot
    <3> QED
      BY <1>2, <1>5, <1>6, <3>2
  <2> QED
    BY <2>1, <2>2, <2>3 DEF ChildrenInTheirSlots, EachInItsSlot
<1>10. HousesWithinTheLimit'
  BY <1>1, <1>3, <1>8 DEF Furnished, HousesWithinTheLimit, WithinTheLimit
<1>11. Now' \in Things /\ children' \subseteq Child
  BY <1>1, <1>2, <1>4, <1>5 DEF Now, Things
<1>12. Furnished'
  BY <1>9, <1>10, <1>11 DEF Furnished
<1> QED
  BY <1>2, <1>12, SameRides DEF Inv

LEMMA GearTakeInv ==
  ASSUME Inv, split, split', NEW p \in Players, NEW kind \in Kinds, NEW swap \in Kinds \cup {None},
         GearTake(p, kind, swap)
  PROVE  Inv'
<1>1. Furnished /\ Sound(Now) /\ Now.house = house /\ Now.gear = gear /\ gear \in Gears
  BY NowSound DEF Inv, Now, Furnished, Things
<1> DEFINE slots == IF swap = None THEN Free(gear[p], CarriedLimit) ELSE GearHolding(p, swap)
           from == Least(SlotsHolding(p, kind))
           to == Least(slots)
<1>2. slots # {} /\ Become(Swapped(p, from, to)) /\ SlotsHolding(p, kind) # {}
  BY DEF GearTake
<1>3. from \in SlotsHolding(p, kind)
  <2>1. SlotsHolding(p, kind) \in SUBSET Nat
    BY KindFacts DEF SlotsHolding
  <2> QED
    BY <1>2, <2>1, LeastOf
<1>4. to \in GearSlots
  <2>1. slots \in SUBSET GearSlots
    <3>1. DOMAIN gear[p] = GearSlots
      BY <1>1 DEF Gears
    <3>2. Free(gear[p], CarriedLimit) \in SUBSET GearSlots
      BY <3>1 DEF Free
    <3>3. GearHolding(p, swap) \in SUBSET GearSlots
      BY DEF GearHolding
    <3> QED
      BY <3>2, <3>3
  <2>2. slots \in SUBSET Nat
    BY <2>1, KindFacts
  <2> HIDE DEF slots
  <2> QED
    BY <1>2, <2>1, <2>2, LeastOf
<1>5. from \in HouseSlots /\ house[p][from] = kind
  BY <1>3 DEF SlotsHolding
<1> HIDE DEF from, to
<1>6. gear[p][to] \in Kinds \cup {None}
  BY <1>1, <1>4 DEF Gears
<1>7. from <= HouseLimit
  BY <1>1, <1>5, KindFacts, ConstantsOK DEF Furnished, HousesWithinTheLimit, WithinTheLimit
<1> DEFINE t == InHouse(Now, p, from, gear[p][to])
<1>8. Sound(t) /\ t.gear = gear
  BY <1>1, <1>5, <1>6, <1>7, InHouseSound, KindFacts
<1>9. Swapped(p, from, to) = OnHim(t, p, to, kind)
  BY <1>5 DEF Swapped
<1> HIDE DEF t
<1>10. Sound(OnHim(t, p, to, kind)) /\ \A r \in Players \ {p} : OnHim(t, p, to, kind).gear[r] = gear[r]
  BY <1>8, OnHimSound
<1>11. children' = children /\ rides' = rides /\ welcomed' = welcomed /\ p \notin DOMAIN rides
  BY DEF GearTake, family, OnTheRoad
<1>12. Furnished'
  BY <1>1, <1>2, <1>9, <1>10, <1>11, SoundStep
<1>13. \A r \in DOMAIN rides : gear'[r] = gear[r]
  BY <1>2, <1>9, <1>10, <1>11 DEF Become, Inv, Riding
<1> QED
  BY <1>11, <1>12, <1>13, SameRides DEF Inv

\* What is on him has a place in the house before it is taken off, and still has.
LEMMA GearStoreInv ==
  ASSUME Inv, split, split', NEW p \in Players, NEW kind \in Kinds, GearStore(p, kind)
  PROVE  Inv'
<1> DEFINE t == Taken(p, kind)
<1>1. Furnished /\ Owns(p, kind) /\ GearHolding(p, kind) # {} /\ house \in Houses
  BY DEF Inv, GearStore, Owns, Furnished, Now, Things
<1>2. Sound(t) /\ Roomy(t)
  BY <1>1, TakenSound
<1>3. t.house = house
  <2>1. t = OnHim(Now, p, Least(GearHolding(p, kind)), None) /\ Sound(Now) /\ Now.house = house
    BY <1>1, NowSound DEF Taken, Now
  <2> QED
    BY <2>1, OnHimSound
<1> HIDE DEF t
<1>4. Free(t.house[p], HouseLimit) # {} /\ Become(PutInHouse(t, p, kind, HouseLimit))
  BY <1>3 DEF GearStore, t
<1>5. Sound(PutInHouse(t, p, kind, HouseLimit)) /\ PutInHouse(t, p, kind, HouseLimit).gear = t.gear
  BY <1>2, <1>4, PutInHouseSound
<1>6. children' = children /\ rides' = rides /\ welcomed' = welcomed /\ DOMAIN rides \subseteq Players
  BY DEF GearStore, family, Inv, Riding
<1>7. Furnished'
  BY <1>1, <1>4, <1>5, <1>6, SoundStep
<1> QED
  BY <1>2, <1>4, <1>5, <1>6, <1>7, SameRides DEF Inv, Become, Roomy

-----------------------------------------------------------------------------
(* At the place. *)

\* Whoever owns nothing any more has no child in a slot and no ride to come home from.
LEMMA NoHouseType == NoHouse \in [HouseSlots -> Slot] /\ \A i \in HouseSlots : NoHouse[i] = None
BY DEF NoHouse, Slot

LEMMA FirstGearType ==
  /\ NoGear \in [GearSlots -> Kinds \cup {None}] /\ FirstGear \in [GearSlots -> Kinds \cup {None}]
BY KindFacts DEF NoGear, FirstGear

LEMMA BurnInv ==
  ASSUME Inv, split, split', NEW p \in Players, NEW kind \in Kinds, Burn(p, kind)
  PROVE  Inv'
<1> DEFINE t == Taken(p, kind)
<1>1. Furnished /\ Owns(p, kind) /\ Become(t)
  BY DEF Inv, Burn
<1>2. Sound(t) /\ Roomy(t)
  BY <1>1, TakenSound
<1> HIDE DEF t
<1>3. children' = children /\ rides' = rides /\ welcomed' = welcomed /\ DOMAIN rides \subseteq Players
  BY DEF Burn, family, Inv, Riding
<1>4. Furnished'
  BY <1>1, <1>2, <1>3, SoundStep
<1> QED
  BY <1>1, <1>2, <1>3, <1>4, SameRides DEF Inv, Become, Roomy

\* A child that is burnt leaves its slot, which is nobody else's.
LEMMA BurnChildInv ==
  ASSUME Inv, split, split', NEW p \in Players, NEW c \in children, BurnChild(p, c)
  PROVE  Inv'
<1>1. Furnished /\ house \in Houses /\ gear \in Gears
  BY DEF Inv, Furnished, Now, Things
<1>2. /\ c.owner = p /\ c.slot \in HouseSlots
      /\ house' = [house EXCEPT ![p][c.slot] = None] /\ children' = children \ {c}
      /\ gear' = gear /\ rides' = rides /\ welcomed' = welcomed
  BY <1>1 DEF BurnChild, Furnished, Child
<1>3. house' \in Houses
  <2>1. [house[p] EXCEPT ![c.slot] = None] \in [HouseSlots -> Slot]
    BY <1>1 DEF Houses, Slot
  <2> QED
    BY <1>1, <1>2, <2>1 DEF Houses
<1>4. \A q \in Players, i \in HouseSlots :
        house'[q][i] = IF q = p /\ i = c.slot THEN None ELSE house[q][i]
  BY <1>1, <1>2 DEF Houses
<1>5. \A d \in children : d.owner \in Players /\ d.slot \in HouseSlots
  BY <1>1 DEF Furnished, Child
<1>6. None # Kid
  BY KindFacts
<1>7. \A d, e \in children : /\ house[d.owner][d.slot] = Kid
                             /\ d.owner = e.owner /\ d.slot = e.slot => d = e
  BY <1>1 DEF Furnished, ChildrenInTheirSlots, EachInItsSlot
<1>8. \A q \in Players, i \in HouseSlots :
        house[q][i] = Kid => \E d \in children : d.owner = q /\ d.slot = i
  BY <1>1 DEF Furnished, ChildrenInTheirSlots, EachInItsSlot
<1>9. \A d \in children' : house'[d.owner][d.slot] = Kid
  BY <1>2, <1>4, <1>5, <1>7
<1>10. \A q \in Players, i \in HouseSlots :
         house'[q][i] = Kid => \E d \in children' : d.owner = q /\ d.slot = i
  BY <1>2, <1>4, <1>6, <1>8
<1>11. ChildrenInTheirSlots'
  BY <1>2, <1>7, <1>9, <1>10 DEF ChildrenInTheirSlots, EachInItsSlot
<1>12. HousesWithinTheLimit'
  BY <1>1, <1>4 DEF Furnished, HousesWithinTheLimit, WithinTheLimit
<1>13. Furnished'
  BY <1>1, <1>2, <1>3, <1>11, <1>12 DEF Furnished, Now, Things
<1> QED
  BY <1>2, <1>13, SameRides DEF Inv

\* A ☢️ on the place takes everything, and everybody home.
LEMMA StartAllOverInv == ASSUME Inv, split', StartAllOver, welcomed' = welcomed PROVE Inv'
<1>1. house' = [p \in Players |-> NoHouse] /\ children' = {} /\ rides' = [p \in {} |-> None]
      /\ gear' = [p \in Players |-> IF p \in welcomed THEN FirstGear ELSE NoGear]
  BY DEF StartAllOver
<1>2. Now' \in Things
  BY <1>1, NoHouseType, FirstGearType DEF Now, Things, Houses, Gears
<1>3. \A p \in Players, i \in HouseSlots : house'[p][i] = None
  BY <1>1, NoHouseType
<1>4. Furnished'
  BY <1>1, <1>2, <1>3, KindFacts
     DEF Furnished, ChildrenInTheirSlots, EachInItsSlot, HousesWithinTheLimit, WithinTheLimit
<1>5. DOMAIN rides' = {} /\ rides' \in [DOMAIN rides' -> Ride]
  BY <1>1
<1> QED
  BY <1>4, <1>5 DEF Inv, Riding, RoomToComeHome

LEMMA ThrowAtPlaceInv ==
  ASSUME Inv, split, split', NEW p \in Players, NEW kind \in Kinds, ThrowAtPlace(p, kind)
  PROVE  Inv'
<1> DEFINE left == Taken(p, kind)
<1>1. Furnished /\ Owns(p, kind) /\ welcomed' = welcomed
  BY DEF Inv, ThrowAtPlace
<1>2. Sound(left) /\ Roomy(left)
  BY <1>1, TakenSound
<1>3. CASE StartAllOver
  BY <1>1, <1>3, StartAllOverInv
<1>4. CASE kind # "nuke"
  <2>1. /\ \E after \in BlownOnHim(left, p) \cup BlownOnHim(left, hold.who) \cup {left} : Become(after)
        /\ children' = children /\ rides' = rides
    BY <1>4 DEF ThrowAtPlace
  <2> HIDE DEF left
  <2>2. PICK after \in BlownOnHim(left, p) \cup BlownOnHim(left, hold.who) \cup {left} : Become(after)
    BY <2>1
  <2>3. Sound(after) /\ Roomy(after)
    BY <1>2, <2>2, BlownOnHimSound
  <2>4. Furnished'
    BY <1>1, <2>1, <2>2, <2>3, SoundStep
  <2>5. DOMAIN rides \subseteq Players
    BY DEF Inv, Riding
  <2> QED
    BY <1>1, <2>1, <2>2, <2>3, <2>4, <2>5, SameRides DEF Inv, Become, Roomy
<1> QED
  BY <1>3, <1>4 DEF ThrowAtPlace

-----------------------------------------------------------------------------
(* Rides. *)

\* Whoever sets off with an emoji has just freed the slot it was in, or had one free.
LEMMA SetOffInv ==
  ASSUME Inv, split, split', NEW p \in Players, NEW q \in Players,
         NEW load \in Kinds \cup {None, Palle}, NEW intact \in BOOLEAN, SetOff(p, q, load, intact)
  PROVE  Inv'
<1> DEFINE ride == [to |-> q, stage |-> "out", load |-> load, intact |-> intact]
<1>1. /\ Furnished /\ p \in welcomed /\ p \notin DOMAIN rides /\ children' = children
      /\ welcomed' = welcomed
      /\ rides' = [r \in DOMAIN rides \cup {p} |-> IF r = p THEN ride ELSE rides[r]]
  BY DEF Inv, SetOff, Acts, AtHome, OnTheRoad, family
<1>2. ride \in Ride /\ ride.load = load
  BY DEF Ride
<1> HIDE DEF ride
<1>3. /\ DOMAIN rides' = DOMAIN rides \cup {p} /\ rides'[p] = ride
      /\ \A r \in DOMAIN rides : rides'[r] = rides[r]
  BY <1>1
<1>4. rides' \in [DOMAIN rides' -> Ride]
  BY <1>1, <1>2, <1>3 DEF Inv, Riding
<1>5. Riding'
  BY <1>1, <1>3, <1>4 DEF Inv, Riding
<1>6. /\ Furnished'
      /\ \A r \in Players : Free(gear[r], CarriedLimit) # {} => Free(gear'[r], CarriedLimit) # {}
      /\ load \in Kinds => Free(gear'[p], CarriedLimit) # {}
  <2>1. CASE load \in Kinds
    <3> DEFINE t == Taken(p, load)
    <3>1. HandsFor(p, load) /\ Owns(p, load) /\ Become(t)
      BY <2>1 DEF SetOff, HandsFor
    <3>2. Sound(t) /\ Roomy(t) /\ Free(t.gear[p], CarriedLimit) # {}
      BY <1>1, <2>1, <3>1, TakenSound
    <3> HIDE DEF t
    <3> QED
      BY <1>1, <3>1, <3>2, SoundStep DEF Become, Roomy
  <2>2. CASE load \notin Kinds
    BY <1>1, <2>2, SameThings DEF SetOff, things
  <2> QED
    BY <2>1, <2>2
<1>7. RoomToComeHome'
  BY <1>2, <1>3, <1>6 DEF Inv, Riding, RoomToComeHome
<1> QED
  BY <1>5, <1>6, <1>7 DEF Inv

LEMMA TurnBackInv ==
  ASSUME Inv, split, split', NEW p \in Players, TurnBack(p)
  PROVE  Inv'
<1>0. \A r \in DOMAIN rides : rides[r].stage # "done"
  BY DEF TurnBack, Acts
<1>1. /\ Furnished /\ p \in DOMAIN rides /\ rides' = [rides EXCEPT ![p].stage = "back"]
      /\ UNCHANGED <<things, children, welcomed>>
  BY DEF Inv, TurnBack, OnTheRoad, family
<1>2. rides[p] \in Ride
  BY <1>1 DEF Inv, Riding
<1> DEFINE ride == [rides[p] EXCEPT !.stage = "back"]
<1>3. ride \in Ride /\ ride.load = rides[p].load /\ rides' = [rides EXCEPT ![p] = ride]
  BY <1>1, <1>2 DEF Ride
<1> HIDE DEF ride
<1>4. Riding'
  BY <1>1, <1>3 DEF Inv, Riding
<1>5. gear' = gear /\ DOMAIN rides' = DOMAIN rides
      /\ \A r \in DOMAIN rides : rides'[r].load = rides[r].load
  BY <1>1, <1>3 DEF things
<1>6. RoomToComeHome'
  BY <1>0, <1>5 DEF Inv, RoomToComeHome
<1> QED
  BY <1>1, <1>4, <1>6, SameThings DEF Inv

LEMMA DeliverInv == ASSUME Inv, split, split', NEW p, Deliver(p) PROVE Inv'
<1> DEFINE q == rides[p].to
           kind == rides[p].load
           worn == kind \in Carried /\ AtHome(q) /\ Free(gear[q], CarriedLimit) # {}
           hung == ~worn /\ Free(house[q], HouseLimit) # {}
           load == IF worn \/ hung THEN None ELSE kind
<1>1. /\ OnTheRoad(p) /\ rides[p].stage = "out" /\ kind \in Kinds
      /\ rides' = Arrived(p, load) /\ children' = children /\ welcomed' = welcomed
  BY DEF Deliver, Arriving, family
<1>2. p \in DOMAIN rides /\ p \in Players /\ q \in Players /\ load \in Kinds \cup {None, Palle}
  BY <1>1, OnTheList
<1>3. Furnished /\ Sound(Now) /\ Now.house = house /\ Now.gear = gear
  BY NowSound DEF Inv, Now
<1>4. Free(gear[p], CarriedLimit) # {}
  BY <1>1, <1>2 DEF Inv, RoomToComeHome
<1>5. CASE worn /\ Become(PutOn(Now, q, kind))
  <2>1. Sound(PutOn(Now, q, kind)) /\ \A r \in Players \ {q} : PutOn(Now, q, kind).gear[r] = gear[r]
    BY <1>1, <1>3, PutOnSound
  <2>2. q \notin DOMAIN rides /\ load = None
    BY <1>5 DEF AtHome, OnTheRoad
  <2>3. \A r \in DOMAIN rides : gear'[r] = gear[r]
    BY <1>5, <2>1, <2>2 DEF Become, Inv, Riding
  <2>4. Furnished'
    BY <1>1, <1>3, <1>5, <2>1, SoundStep
  <2> HIDE DEF load
  <2> QED
    BY <1>1, <1>2, <1>4, <2>3, <2>4, ArrivedRides DEF Inv
<1>6. CASE hung /\ Become(PutInHouse(Now, q, kind, HouseLimit))
  <2>1. Sound(PutInHouse(Now, q, kind, HouseLimit)) /\ PutInHouse(Now, q, kind, HouseLimit).gear = gear
    BY <1>1, <1>2, <1>3, <1>6, PutInHouseSound
  <2>2. Furnished'
    BY <1>1, <1>3, <1>6, <2>1, SoundStep
  <2>3. gear' = gear
    BY <1>6, <2>1 DEF Become
  <2> HIDE DEF load
  <2> QED
    BY <1>1, <1>2, <1>4, <2>2, <2>3, ArrivedRides DEF Inv
<1>7. CASE UNCHANGED things
  <2>1. Furnished' /\ gear' = gear
    BY <1>1, <1>3, <1>7, SameThings DEF things
  <2> HIDE DEF load
  <2> QED
    BY <1>1, <1>2, <1>4, <2>1, ArrivedRides DEF Inv
<1> QED
  BY <1>5, <1>6, <1>7 DEF Deliver

LEMMA NothingHungInv == ASSUME Inv, split, split', NEW p, NothingHung(p) PROVE Inv'
<1>1. /\ OnTheRoad(p) /\ rides[p].stage = "out" /\ UNCHANGED <<things, children, welcomed>>
      /\ \/ rides' = Arrived(p, None)
         \/ rides[p].load = "seed" /\ rides[p].load \in Thrown /\ rides' = Arrived(p, "seed")
  BY DEF NothingHung, Arriving, Blow, family
<1>2. p \in DOMAIN rides /\ p \in Players /\ gear' = gear /\ Furnished'
  BY <1>1, OnTheList, SameThings DEF things, Inv
<1>3. CASE rides' = Arrived(p, None)
  BY <1>1, <1>2, <1>3, ArrivedRides, KindFacts DEF Inv
<1>4. CASE rides[p].load = "seed" /\ rides[p].load \in Thrown /\ rides' = Arrived(p, "seed")
  <2>1. "seed" \in Kinds \cup {None, Palle} /\ rides[p].load \in Kinds
    BY <1>4, KindFacts
  <2>2. Free(gear[p], CarriedLimit) # {}
    BY <1>1, <1>2, <2>1 DEF Inv, RoomToComeHome
  <2> QED
    BY <1>1, <1>2, <1>4, <2>1, <2>2, ArrivedRides DEF Inv
<1> QED
  BY <1>1, <1>3, <1>4

\* A ☢️ on a house takes what hangs there, its children and what its owner was carrying.
LEMMA StartOverInv ==
  ASSUME Inv, split, split', NEW p \in DOMAIN rides, NEW v \in Players, StartOver(v, Arrived(p, None)),
         rides[p].stage = "out", welcomed' = welcomed
  PROVE  Inv'
<1> DEFINE done == Arrived(p, None)
           riding == EmptyHanded(done[v])
<1>1. Furnished /\ house \in Houses /\ gear \in Gears
  BY DEF Inv, Furnished, Now, Things
<1>2. /\ house' = [house EXCEPT ![v] = NoHouse] /\ gear' = [gear EXCEPT ![v] = FirstGear]
      /\ children' = {c \in children : c.owner # v}
      /\ rides' = IF v \notin DOMAIN done THEN done ELSE [done EXCEPT ![v] = riding]
  <2>1. /\ house' = [house EXCEPT ![v] = NoHouse] /\ gear' = [gear EXCEPT ![v] = FirstGear]
        /\ children' = {c \in children : c.owner # v}
    BY DEF StartOver
  <2>2. rides' = IF v \notin DOMAIN done THEN done ELSE [done EXCEPT ![v] = riding]
    BY DEF StartOver
  <2> QED
    BY <2>1, <2>2
<1>3. \A q \in Players, i \in HouseSlots : house'[q][i] = IF q = v THEN None ELSE house[q][i]
  BY <1>1, <1>2, NoHouseType DEF Houses
<1>4. house' \in Houses /\ gear' \in Gears
  BY <1>1, <1>2, NoHouseType, FirstGearType DEF Houses, Gears
<1>5. ChildrenInTheirSlots'
  <2>1. \A c \in children : c.owner \in Players /\ c.slot \in HouseSlots
    BY <1>1 DEF Furnished, Child
  <2> QED
    BY <1>1, <1>2, <1>3, <2>1, KindFacts DEF Furnished, ChildrenInTheirSlots, EachInItsSlot
<1>6. HousesWithinTheLimit'
  BY <1>1, <1>3 DEF Furnished, HousesWithinTheLimit, WithinTheLimit
<1>7. Furnished'
  BY <1>1, <1>2, <1>4, <1>5, <1>6 DEF Furnished, Now, Things
<1> DEFINE arrived == [rides[p] EXCEPT !.stage = "back", !.load = None]
<1>8. arrived \in Ride /\ arrived.load = None /\ done = [rides EXCEPT ![p] = arrived]
  BY DEF Inv, Riding, Ride, Arrived
<1> HIDE DEF arrived, done
<1>9. /\ DOMAIN done = DOMAIN rides /\ done \in [DOMAIN rides -> Ride] /\ done[p].load = None
      /\ \A r \in DOMAIN rides \ {p} : done[r] = rides[r]
  BY <1>8 DEF Inv, Riding
<1>10. v \in DOMAIN rides => riding \in Ride /\ riding.load = None
  BY <1>9, ZenonT(30) DEF Ride, EmptyHanded
<1> HIDE DEF riding
<1>11. /\ DOMAIN rides' = DOMAIN rides /\ rides' \in [DOMAIN rides' -> Ride]
       /\ \A r \in DOMAIN rides : r \in {p, v} => rides'[r].load = None
       /\ \A r \in DOMAIN rides \ {p, v} : rides'[r] = rides[r] /\ gear'[r] = gear[r]
  <2>1. DOMAIN rides \subseteq Players
    BY DEF Inv, Riding
  <2>2. \A r \in Players \ {v} : gear'[r] = gear[r]
    BY <1>1, <1>2 DEF Gears
  <2>3. CASE v \in DOMAIN rides
    <3>1. rides' = [done EXCEPT ![v] = riding]
      BY <1>2, <1>9, <2>3
    <3> QED
      BY <1>9, <1>10, <2>1, <2>2, <2>3, <3>1
  <2>4. CASE v \notin DOMAIN rides
    BY <1>2, <1>9, <2>1, <2>2, <2>4
  <2> QED
    BY <2>3, <2>4
<1>12. Riding'
  BY <1>11 DEF Inv, Riding
<1>13. RoomToComeHome'
  BY <1>11, KindFacts DEF Inv, RoomToComeHome
<1> QED
  BY <1>7, <1>12, <1>13 DEF Inv

LEMMA ThrowAtHouseInv == ASSUME Inv, split, split', NEW p, ThrowAtHouse(p) PROVE Inv'
<1> DEFINE q == rides[p].to
           kind == rides[p].load
<1>1. OnTheRoad(p) /\ rides[p].stage = "out" /\ welcomed' = welcomed
  BY DEF ThrowAtHouse, Arriving
<1>2. p \in DOMAIN rides /\ p \in Players /\ q \in Players /\ DOMAIN rides \subseteq Players
  BY <1>1, OnTheList DEF Inv, Riding
<1>3. Furnished /\ Sound(Now) /\ Roomy(Now) /\ Now.house = house /\ Now.gear = gear
  BY NowSound DEF Inv, Now
<1>4. PICK v \in {p, q} :
        \/ StartOver(v, Arrived(p, None))
        \/ /\ \E after \in BlownInHouse(Now, v) \cup (IF v = q THEN BlownOnHim(Now, p) ELSE {}) :
                Become(after)
           /\ rides' = Arrived(p, None) /\ children' = children
        \/ rides' = Arrived(p, None) /\ UNCHANGED <<things, children>>
  BY DEF ThrowAtHouse, family
<1>5. v \in Players
  BY <1>2
<1>6. CASE StartOver(v, Arrived(p, None))
  BY <1>1, <1>2, <1>5, <1>6, StartOverInv
<1>7. ASSUME NEW after \in BlownInHouse(Now, v) \cup BlownOnHim(Now, p), Become(after),
             rides' = Arrived(p, None), children' = children
      PROVE  Inv'
  <2>1. Sound(after) /\ Roomy(after)
    BY <1>3, <1>5, BlownInHouseSound, BlownOnHimSound
  <2>2. Furnished'
    BY <1>3, <1>7, <2>1, SoundStep
  <2>3. \A r \in DOMAIN rides : Free(gear[r], CarriedLimit) # {} => Free(gear'[r], CarriedLimit) # {}
    BY <1>2, <1>7, <2>1 DEF Roomy, Become
  <2> QED
    BY <1>1, <1>2, <1>7, <2>2, <2>3, ArrivedRides, KindFacts DEF Inv
<1>8. CASE rides' = Arrived(p, None) /\ UNCHANGED <<things, children>>
  <2>1. Furnished' /\ gear' = gear
    BY <1>3, <1>8, SameThings DEF things
  <2> QED
    BY <1>1, <1>2, <1>8, <2>1, ArrivedRides, KindFacts DEF Inv
<1> QED
  BY <1>4, <1>6, <1>7, <1>8

\* A 🏴‍☠️ fills a slot of its owner, who has nothing else to bring home.
LEMMA RobInv == ASSUME Inv, split, split', NEW p, Rob(p) PROVE Inv'
<1> DEFINE q == rides[p].to
<1>1. OnTheRoad(p) /\ children' = children /\ welcomed' = welcomed /\ rides' = Arrived(p, None)
  BY DEF Rob, Arriving, family
<1>2. p \in DOMAIN rides /\ p \in Players /\ q \in Players /\ DOMAIN rides \subseteq Players
  BY <1>1, OnTheList DEF Inv, Riding
<1>3. Furnished /\ Sound(Now) /\ Roomy(Now) /\ Now.house = house
  BY NowSound DEF Inv, Now
<1>4. PICK fed \in {Now} \cup BlownOnHim(Now, p) : \E after \in Boarded(fed, p, q) : Become(after)
  BY DEF Rob
<1>5. Sound(fed) /\ Roomy(fed) /\ fed.house = house
  BY <1>3, BlownOnHimSound
<1>6. PICK after \in Boarded(fed, p, q) : Become(after)
  BY <1>4
<1>7. /\ Sound(after)
      /\ \A r \in Players \ {p} : Free(gear[r], CarriedLimit) # {} => Free(after.gear[r], CarriedLimit) # {}
  BY <1>2, <1>3, <1>5, BoardedSound
<1>8. Furnished'
  BY <1>1, <1>3, <1>6, <1>7, SoundStep
<1>9. \A r \in DOMAIN rides \ {p} :
        Free(gear[r], CarriedLimit) # {} => Free(gear'[r], CarriedLimit) # {}
  BY <1>2, <1>6, <1>7 DEF Become
<1> QED
  BY <1>1, <1>2, <1>8, <1>9, ArrivedRides, KindFacts DEF Inv

\* There is room on whoever comes home: what he brings never goes to the house.
LEMMA ComeHomeInv == ASSUME Inv, split, split', NEW p, ComeHome(p) PROVE Inv'
<1>1. /\ OnTheRoad(p) /\ rides[p].stage = "back" /\ children' = children /\ welcomed' = welcomed
      /\ rides' = [rides EXCEPT ![p].stage = "done", ![p].load = None]
  BY DEF ComeHome, family
<1>2. p \in DOMAIN rides /\ p \in Players /\ DOMAIN rides \subseteq Players /\ rides[p] \in Ride
  BY <1>1, OnTheList DEF Inv, Riding
<1>3. Furnished /\ Sound(Now) /\ Now.house = house /\ Now.gear = gear
  BY NowSound DEF Inv, Now
<1>4. Furnished' /\ \A r \in DOMAIN rides \ {p} : gear'[r] = gear[r]
  <2>1. CASE rides[p].load \in Kinds
    <3>1. Free(gear[p], CarriedLimit) # {}
      BY <1>1, <1>2, <2>1 DEF Inv, RoomToComeHome
    <3>2. Become(PutOn(Now, p, rides[p].load))
      BY <2>1, <3>1 DEF ComeHome
    <3>3. /\ Sound(PutOn(Now, p, rides[p].load))
          /\ \A r \in Players \ {p} : PutOn(Now, p, rides[p].load).gear[r] = gear[r]
      BY <1>3, <2>1, PutOnSound
    <3> QED
      BY <1>1, <1>2, <1>3, <3>2, <3>3, SoundStep DEF Become
  <2>2. CASE rides[p].load \notin Kinds
    BY <1>1, <1>3, <2>2, SameThings DEF ComeHome, things
  <2> QED
    BY <2>1, <2>2
<1> DEFINE ride == [rides[p] EXCEPT !.stage = "done", !.load = None]
<1>5. ride \in Ride /\ ride.load = None /\ rides' = [rides EXCEPT ![p] = ride]
  BY <1>1, <1>2 DEF Ride
<1> HIDE DEF ride
<1>6. Riding'
  BY <1>1, <1>5 DEF Inv, Riding
<1>7. DOMAIN rides' = DOMAIN rides /\ rides'[p] = ride /\ \A r \in DOMAIN rides \ {p} : rides'[r] = rides[r]
  BY <1>2, <1>5
<1>8. RoomToComeHome'
  BY <1>4, <1>5, <1>7, KindFacts DEF Inv, RoomToComeHome
<1> QED
  BY <1>4, <1>6, <1>8 DEF Inv

LEMMA RoundEndsInv == ASSUME Inv, split, split', RoundEnds PROVE Inv'
<1>1. /\ rides' = [p \in {q \in DOMAIN rides : rides[q].stage # "done"} |-> rides[p]]
      /\ UNCHANGED <<things, children, welcomed>>
  BY DEF RoundEnds, family
<1>2. Furnished' /\ gear' = gear
  BY <1>1, SameThings DEF Inv, things
<1>3. Riding'
  BY <1>1 DEF Inv, Riding
<1> QED
  BY <1>1, <1>2, <1>3 DEF Inv, RoomToComeHome

LEMMA WelcomeInv == ASSUME Inv, split, split', NEW p \in Players, Welcome(p) PROVE Inv'
<1>1. /\ p \notin welcomed /\ welcomed' = welcomed \cup {p} /\ Become(PutOn(Now, p, "balloon"))
      /\ rides' = rides /\ children' = children
  BY DEF Welcome, family
<1>2. Furnished /\ Sound(Now) /\ Now.gear = gear
  BY NowSound DEF Inv, Now
<1>3. /\ Sound(PutOn(Now, p, "balloon"))
      /\ \A r \in Players \ {p} : PutOn(Now, p, "balloon").gear[r] = gear[r]
  BY <1>2, PutOnSound, KindFacts
<1>4. Furnished'
  BY <1>1, <1>2, <1>3, SoundStep
<1>5. \A r \in DOMAIN rides : gear'[r] = gear[r]
  BY <1>1, <1>3 DEF Become, Inv, Riding
<1>6. Riding'
  BY <1>1 DEF Inv, Riding
<1> QED
  BY <1>1, <1>4, <1>5, <1>6 DEF Inv, RoomToComeHome

LEMMA ClaimInv ==
  ASSUME Inv, split, split', NEW p, Claim(p) \/ Leave(p)
  PROVE  Inv'
<1>1. UNCHANGED <<things, children, rides, welcomed>> /\ gear' = gear
  BY DEF Claim, Leave, family, things
<1> QED
  BY <1>1, SameThings, SameRides DEF Inv

-----------------------------------------------------------------------------
(* The children. *)

\* A newborn's slot is within the limit, and nobody else's.
LEMMA CradleFacts ==
  ASSUME Furnished, NEW p \in Players,
         NEW i \in IF Cradle(p) # {} THEN {Least(Cradle(p))} ELSE Others(p)
  PROVE  i \in HouseSlots /\ i <= HouseLimit /\ house[p][i] # Kid
<1>1. Now \in Things /\ Now.house = house
  BY DEF Furnished, Now
<1>2. CASE Cradle(p) # {}
  <2>1. i = Least(Free(Now.house[p], HouseLimit)) /\ Free(Now.house[p], HouseLimit) # {}
    BY <1>1, <1>2 DEF Cradle
  <2>2. i \in HouseSlots /\ i <= HouseLimit /\ house[p][i] = None
    BY <1>1, <2>1, FreeSlot
  <2> QED
    BY <2>2, KindFacts
<1>3. CASE Cradle(p) = {}
  <2>1. i \in HouseSlots /\ ~IsChild(p, i) /\ \E j \in HouseSlots : j >= i /\ house[p][j] # None
    BY <1>3 DEF Others
  <2>2. PICK j \in HouseSlots : j >= i /\ house[p][j] # None
    BY <2>1
  <2>3. ~ (j > HouseLimit)
    BY <2>2 DEF Furnished, HousesWithinTheLimit, WithinTheLimit
  <2>4. i <= HouseLimit
    BY <2>1, <2>2, <2>3, KindFacts, ConstantsOK
  <2>5. house[p][i] # Kid
    BY <2>1 DEF Furnished, ChildrenInTheirSlots, EachInItsSlot, IsChild
  <2> QED
    BY <2>1, <2>4, <2>5
<1> QED
  BY <1>2, <1>3

LEMMA BirthInv == ASSUME Inv, split, split', NEW p \in Players, Birth(p) PROVE Inv'
<1> DEFINE places == IF Cradle(p) # {} THEN {Least(Cradle(p))} ELSE Others(p)
<1>1. /\ Furnished /\ house \in Houses /\ gear \in Gears
      /\ gear' = gear /\ rides' = rides /\ welcomed' = welcomed
  BY DEF Inv, Furnished, Now, Things, Birth
<1>2. CASE UNCHANGED <<house, children>>
  BY <1>1, <1>2, SameThings, SameRides DEF Inv, things
<1>3. ASSUME NEW i \in places, NEW male \in BOOLEAN,
             house' = [house EXCEPT ![p][i] = Kid],
             children' = children \cup
               {[owner |-> p, slot |-> i, male |-> male, age |-> 0, courted |-> FALSE]}
      PROVE  Inv'
  <2> DEFINE newborn == [owner |-> p, slot |-> i, male |-> male, age |-> 0, courted |-> FALSE]
  <2>1. i \in HouseSlots /\ i <= HouseLimit /\ house[p][i] # Kid
    BY <1>1, CradleFacts
  <2>2. newborn \in Child /\ newborn.owner = p /\ newborn.slot = i /\ children' = children \cup {newborn}
    BY <1>3, <2>1 DEF Child, Ages
  <2> HIDE DEF newborn
  <2>3. house' \in Houses
    <3>1. [house[p] EXCEPT ![i] = Kid] \in [HouseSlots -> Slot]
      BY <1>1 DEF Houses, Slot
    <3> QED
      BY <1>1, <1>3, <3>1 DEF Houses
  <2>4. \A q \in Players, j \in HouseSlots :
          house'[q][j] = IF q = p /\ j = i THEN Kid ELSE house[q][j]
    BY <1>1, <1>3, <2>1 DEF Houses
  <2>5. \A c \in children : c.owner \in Players /\ c.slot \in HouseSlots
    BY <1>1 DEF Furnished, Child
  <2>6. /\ \A c \in children : house[c.owner][c.slot] = Kid
        /\ \A c, d \in children : c.owner = d.owner /\ c.slot = d.slot => c = d
        /\ \A q \in Players, j \in HouseSlots :
             house[q][j] = Kid => \E c \in children : c.owner = q /\ c.slot = j
    BY <1>1 DEF Furnished, ChildrenInTheirSlots, EachInItsSlot
  <2>7. \A c \in children' : house'[c.owner][c.slot] = Kid
    BY <2>1, <2>2, <2>4, <2>5, <2>6
  <2>8. \A c \in children : ~ (c.owner = p /\ c.slot = i)
    BY <2>1, <2>6
  <2>9. \A c, d \in children' : c.owner = d.owner /\ c.slot = d.slot => c = d
    BY <2>2, <2>6, <2>8
  <2>10. \A q \in Players, j \in HouseSlots :
           house'[q][j] = Kid => \E c \in children' : c.owner = q /\ c.slot = j
    BY <2>2, <2>4, <2>6
  <2>11. ChildrenInTheirSlots'
    BY <2>7, <2>9, <2>10 DEF ChildrenInTheirSlots, EachInItsSlot
  <2>12. HousesWithinTheLimit'
    <3> SUFFICES ASSUME NEW q \in Players, NEW j \in HouseSlots, j > HouseLimit
                 PROVE  house'[q][j] = None
      BY DEF HousesWithinTheLimit, WithinTheLimit
    <3>1. i \in Nat /\ j \in Nat /\ HouseLimit \in Nat
      BY <2>1, KindFacts, ConstantsOK
    <3> QED
      BY <1>1, <2>1, <2>4, <3>1 DEF Furnished, HousesWithinTheLimit, WithinTheLimit
  <2>13. Furnished'
    BY <1>1, <2>2, <2>3, <2>11, <2>12 DEF Furnished, Now, Things
  <2> QED
    BY <1>1, <2>13, SameRides DEF Inv
<1> QED
  BY <1>2, <1>3 DEF Birth

\* Whoever grows keeps the slot, which is empty once the child is gone.
LEMMA GrowInv == ASSUME Inv, split, split', Grow PROVE Inv'
<1>1. /\ Furnished /\ house \in Houses /\ gear \in Gears
      /\ gear' = gear /\ rides' = rides /\ welcomed' = welcomed
  BY DEF Inv, Furnished, Now, Things, Grow
<1>2. /\ \A c \in children : c \in Child /\ c.owner \in Players /\ c.slot \in HouseSlots
      /\ \A c \in children : house[c.owner][c.slot] = Kid
      /\ \A c, d \in children : c.owner = d.owner /\ c.slot = d.slot => c = d
      /\ \A q \in Players, j \in HouseSlots :
           house[q][j] = Kid => \E c \in children : c.owner = q /\ c.slot = j
  BY <1>1 DEF Furnished, Child, ChildrenInTheirSlots, EachInItsSlot
<1>3. \A c \in children : house[c.owner][c.slot] # None
  BY <1>2, KindFacts
<1> DEFINE Gone(age) == {c \in children : Leaves(age[c])}
           Stay(age) == {[c EXCEPT !.age = age[c]] : c \in children \ Gone(age)}
<1>4. PICK age \in [children -> Ages \cup {4}] :
        /\ house' = [p \in Players |-> [i \in HouseSlots |->
             IF \E c \in Gone(age) : c.owner = p /\ c.slot = i THEN None
             ELSE IF \E c \in Stay(age) : c.owner = p /\ c.slot = i THEN Kid ELSE house[p][i]]]
        /\ \E girls \in SUBSET Stay(age) :
             children' = (Stay(age) \ girls) \cup {[g EXCEPT !.courted = TRUE] : g \in girls}
  <2> DEFINE Here == {c \in children : house[c.owner][c.slot] # None}
             GoneOf(here, age) == {c \in here : Leaves(age[c])}
             StayOf(here, age) == {[c EXCEPT !.age = age[c]] : c \in here \ GoneOf(here, age)}
             Girls(stay) == {g \in stay : /\ ~g.male /\ ~g.courted /\ g.age = GrownUp
                               /\ \E b \in stay : b.male /\ b.owner = g.owner /\ b.age = GrownUp}
             Grown(here, age) ==
               /\ house' = [p \in Players |-> [i \in HouseSlots |->
                    IF \E c \in GoneOf(here, age) : c.owner = p /\ c.slot = i THEN None
                    ELSE IF \E c \in StayOf(here, age) : c.owner = p /\ c.slot = i THEN Kid
                    ELSE house[p][i]]]
               /\ children' = (StayOf(here, age) \ Girls(StayOf(here, age)))
                              \cup {[g EXCEPT !.courted = TRUE] : g \in Girls(StayOf(here, age))}
  <2>1. \E age \in [children -> Ages \cup {4}] : Grown(Here, age)
    BY DEF Grow
  <2>2. Here = children
    BY <1>3
  <2>3. \A stay : Girls(stay) \in SUBSET stay
    OBVIOUS
  <2>4. PICK age \in [children -> Ages \cup {4}] : Grown(children, age)
    <3> HIDE DEF Here, Grown
    <3> QED
      BY <2>1, <2>2
  <2>5. Gone(age) = GoneOf(children, age) /\ Stay(age) = StayOf(children, age)
    OBVIOUS
  <2>6. Girls(Stay(age)) \in SUBSET Stay(age)
    BY <2>3
  <2> HIDE DEF Gone, Stay, GoneOf, StayOf, Girls
  <2>7. /\ house' = [p \in Players |-> [i \in HouseSlots |->
             IF \E c \in Gone(age) : c.owner = p /\ c.slot = i THEN None
             ELSE IF \E c \in Stay(age) : c.owner = p /\ c.slot = i THEN Kid ELSE house[p][i]]]
        /\ children' = (Stay(age) \ Girls(Stay(age)))
                       \cup {[g EXCEPT !.courted = TRUE] : g \in Girls(Stay(age))}
    BY <2>4, <2>5
  <2> QED
    BY <2>6, <2>7
<1>5. PICK girls \in SUBSET Stay(age) :
        children' = (Stay(age) \ girls) \cup {[g EXCEPT !.courted = TRUE] : g \in girls}
  BY <1>4
<1> DEFINE Older(c) == [c EXCEPT !.age = age[c]]
<1>6. \A c \in children \ Gone(age) :
        /\ Older(c) \in Child /\ Older(c) \in Stay(age)
        /\ Older(c).owner = c.owner /\ Older(c).slot = c.slot
  <2> SUFFICES ASSUME NEW c \in children \ Gone(age)
               PROVE  /\ Older(c) \in Child
                      /\ Older(c).owner = c.owner /\ Older(c).slot = c.slot
    OBVIOUS
  <2>1. c \in Child /\ age[c] \in Ages
    BY <1>2 DEF Leaves
  <2> QED
    BY <2>1 DEF Child
<1>7. \A s \in Stay(age) : s \in Child
        /\ \E c \in children \ Gone(age) : s = Older(c) /\ s.owner = c.owner /\ s.slot = c.slot
  <2>1. \A s \in Stay(age) : \E c \in children \ Gone(age) : s = Older(c)
    OBVIOUS
  <2> HIDE DEF Older, Stay
  <2> QED
    BY <1>6, <2>1
<1> HIDE DEF Stay, Older
<1>8. \A s, t \in Stay(age) : s.owner = t.owner /\ s.slot = t.slot => s = t
  BY <1>2, <1>7
<1> HIDE DEF Gone
<1> DEFINE Courted(g) == [g EXCEPT !.courted = TRUE]
<1>9. \A s \in Stay(age) :
        Courted(s) \in Child /\ Courted(s).owner = s.owner /\ Courted(s).slot = s.slot
  <2> SUFFICES ASSUME NEW s \in Stay(age)
               PROVE  /\ Courted(s) \in Child
                      /\ Courted(s).owner = s.owner /\ Courted(s).slot = s.slot
    OBVIOUS
  <2>1. s \in Child
    BY <1>7
  <2> QED
    BY <2>1 DEF Child
<1>10. \A c \in children' : c \in Child
         /\ \E s \in Stay(age) : /\ c = (IF s \in girls THEN Courted(s) ELSE s)
                                 /\ c.owner = s.owner /\ c.slot = s.slot
  <2> SUFFICES ASSUME NEW c \in children'
               PROVE  c \in Child
                      /\ \E s \in Stay(age) : /\ c = (IF s \in girls THEN Courted(s) ELSE s)
                                              /\ c.owner = s.owner /\ c.slot = s.slot
    OBVIOUS
  <2>1. CASE c \in Stay(age) \ girls
    BY <1>7, <2>1
  <2>2. CASE c \notin Stay(age) \ girls
    <3>1. PICK s \in girls : c = Courted(s)
      BY <1>5, <2>2
    <3> HIDE DEF Courted
    <3> QED
      BY <1>9, <3>1
  <2> QED
    BY <2>1, <2>2
<1>11. \A s \in Stay(age) : \E c \in children' : c.owner = s.owner /\ c.slot = s.slot
  <2>1. \A s \in girls : Courted(s) \in children'
    BY <1>5
  <2>2. \A s \in Stay(age) \ girls : s \in children'
    BY <1>5
  <2> HIDE DEF Courted
  <2> QED
    BY <1>9, <2>1, <2>2
<1> HIDE DEF Courted
<1>12. \A p \in Players, i \in HouseSlots : house'[p][i] =
         IF \E c \in Gone(age) : c.owner = p /\ c.slot = i THEN None
         ELSE IF \E c \in Stay(age) : c.owner = p /\ c.slot = i THEN Kid ELSE house[p][i]
  BY <1>4
<1>13. house' \in Houses
  <2>1. \A p \in Players, i \in HouseSlots :
          (IF \E c \in Gone(age) : c.owner = p /\ c.slot = i THEN None
           ELSE IF \E c \in Stay(age) : c.owner = p /\ c.slot = i THEN Kid ELSE house[p][i]) \in Slot
    BY <1>1 DEF Houses, Slot
  <2> QED
    BY <1>4, <2>1 DEF Houses
<1>14. Gone(age) \subseteq children
  BY DEF Gone
<1>15. \A c \in children' : house'[c.owner][c.slot] = Kid
  <2> SUFFICES ASSUME NEW c \in children' PROVE house'[c.owner][c.slot] = Kid
    OBVIOUS
  <2>1. PICK s \in Stay(age) : c.owner = s.owner /\ c.slot = s.slot
    BY <1>10
  <2>2. PICK b \in children \ Gone(age) : s.owner = b.owner /\ s.slot = b.slot
    BY <1>7
  <2>3. b.owner \in Players /\ b.slot \in HouseSlots
    BY <1>2
  <2>4. ~ \E d \in Gone(age) : d.owner = b.owner /\ d.slot = b.slot
    BY <1>2, <1>14
  <2> QED
    BY <1>12, <2>1, <2>2, <2>3, <2>4
<1>16. \A c, d \in children' : c.owner = d.owner /\ c.slot = d.slot => c = d
  <2> SUFFICES ASSUME NEW c \in children', NEW d \in children', c.owner = d.owner, c.slot = d.slot
               PROVE  c = d
    OBVIOUS
  <2>1. PICK s \in Stay(age) : /\ c = (IF s \in girls THEN Courted(s) ELSE s)
                               /\ c.owner = s.owner /\ c.slot = s.slot
    BY <1>10
  <2>2. PICK t \in Stay(age) : /\ d = (IF t \in girls THEN Courted(t) ELSE t)
                               /\ d.owner = t.owner /\ d.slot = t.slot
    BY <1>10
  <2>3. s = t
    BY <1>8, <2>1, <2>2
  <2> QED
    BY <2>1, <2>2, <2>3
<1>17. \A p \in Players, i \in HouseSlots :
         house'[p][i] = Kid => \E c \in children' : c.owner = p /\ c.slot = i
  <2> SUFFICES ASSUME NEW p \in Players, NEW i \in HouseSlots, house'[p][i] = Kid
               PROVE  \E s \in Stay(age) : s.owner = p /\ s.slot = i
    BY <1>11
  <2>1. ~ \E c \in Gone(age) : c.owner = p /\ c.slot = i
    BY <1>12, KindFacts
  <2>2. CASE house[p][i] = Kid
    <3>1. PICK c \in children : c.owner = p /\ c.slot = i
      BY <1>2, <2>2
    <3>2. c \in children \ Gone(age)
      BY <2>1, <3>1
    <3> QED
      BY <1>6, <3>1, <3>2
  <2>3. CASE house[p][i] # Kid
    BY <1>12, <2>1, <2>3
  <2> QED
    BY <2>2, <2>3
<1>18. HousesWithinTheLimit'
  <2> SUFFICES ASSUME NEW p \in Players, NEW i \in HouseSlots, i > HouseLimit
               PROVE  house'[p][i] = None
    BY DEF HousesWithinTheLimit, WithinTheLimit
  <2>1. house[p][i] = None
    BY <1>1 DEF Furnished, HousesWithinTheLimit, WithinTheLimit
  <2>2. ~ \E s \in Stay(age) : s.owner = p /\ s.slot = i
    BY <1>2, <1>7, <2>1, KindFacts
  <2> QED
    BY <1>12, <2>1, <2>2
<1>19. ChildrenInTheirSlots'
  BY <1>15, <1>16, <1>17 DEF ChildrenInTheirSlots, EachInItsSlot
<1>20. Furnished'
  BY <1>1, <1>10, <1>13, <1>18, <1>19 DEF Furnished, Now, Things
<1> QED
  BY <1>1, <1>20, SameRides DEF Inv

-----------------------------------------------------------------------------

\* What is sorted out is no child, and nobody is on the road yet.
LEMMA SortOutInv == ASSUME Inv, SortOut PROVE Inv'
<1>1. /\ Furnished /\ house \in Houses /\ gear \in Gears /\ DOMAIN rides = {} /\ split'
      /\ children' = children /\ rides' = rides /\ welcomed' = welcomed
  BY DEF Inv, Furnished, Now, Things, SortOut, Riding, family
<1> DEFINE next(p, j) == {i \in Misplaced(p) :
             Place(Misplaced(p), i) = Place(Free(gear[p], CarriedLimit), j)}
           worn(p, j) == IF gear[p][j] # None THEN gear[p][j]
                         ELSE IF next(p, j) = {} THEN None ELSE house[p][Least(next(p, j))]
           left(p, i) == IF i \in Misplaced(p) /\ Moves(p, i) THEN None ELSE house[p][i]
<1>2. /\ gear' = [p \in Players |-> [j \in GearSlots |-> worn(p, j)]]
      /\ house' = [p \in Players |-> [i \in HouseSlots |-> left(p, i)]]
  BY DEF SortOut
<1>3. \A p, i : i \in Misplaced(p) => i \in HouseSlots /\ house[p][i] \in Kinds
  BY KindFacts DEF Misplaced
<1>4. ASSUME NEW p \in Players, NEW j \in GearSlots PROVE worn(p, j) \in Kinds \cup {None}
  <2>1. gear[p][j] \in Kinds \cup {None}
    BY <1>1 DEF Gears
  <2>2. next(p, j) \in SUBSET Nat /\ next(p, j) \subseteq Misplaced(p)
    BY <1>3, KindFacts
  <2> HIDE DEF next
  <2>3. next(p, j) # {} => Least(next(p, j)) \in Misplaced(p)
    BY <2>2, LeastOf
  <2> QED
    BY <1>3, <2>1, <2>3
<1>5. ASSUME NEW p \in Players, NEW i \in HouseSlots
      PROVE  /\ left(p, i) \in Slot
             /\ left(p, i) = Kid <=> house[p][i] = Kid
             /\ house[p][i] = None => left(p, i) = None
  <2>1. house[p][i] \in Slot
    BY <1>1 DEF Houses
  <2> QED
    BY <1>3, <2>1, KindFacts DEF Slot
<1> HIDE DEF worn, left
<1>6. house' \in Houses /\ gear' \in Gears
  BY <1>2, <1>4, <1>5 DEF Houses, Gears
<1>7. \A p \in Players, i \in HouseSlots : house'[p][i] = left(p, i)
  BY <1>2
<1>8. \A c \in children : c.owner \in Players /\ c.slot \in HouseSlots
  BY <1>1 DEF Furnished, Child
<1>9. ChildrenInTheirSlots' /\ HousesWithinTheLimit'
  BY <1>1, <1>5, <1>7, <1>8
     DEF Furnished, ChildrenInTheirSlots, EachInItsSlot, HousesWithinTheLimit, WithinTheLimit
<1>10. Furnished'
  BY <1>1, <1>6, <1>9 DEF Furnished, Now, Things
<1> QED
  BY <1>1, <1>10 DEF Inv, Riding, RoomToComeHome

LEMMA InitInv == Init => Inv
<1> SUFFICES ASSUME Init PROVE Inv
  OBVIOUS
<1>1. rides = [p \in {} |-> None]
  BY DEF Init
<1>2. Furnished /\ welcomed \subseteq Players
  <2>1. CASE /\ house = [p \in Players |-> NoHouse]
             /\ gear = [p \in Players |-> NoGear]
             /\ children = {} /\ welcomed = {}
    <3>1. Now \in Things
      BY <2>1, NoHouseType, FirstGearType DEF Now, Things, Houses, Gears
    <3>2. \A p \in Players, i \in HouseSlots : house[p][i] = None
      BY <2>1, NoHouseType
    <3> QED
      BY <2>1, <3>1, <3>2, KindFacts
         DEF Furnished, ChildrenInTheirSlots, EachInItsSlot, HousesWithinTheLimit, WithinTheLimit
  <2>2. ASSUME NEW d \in Dowries, house = d.house, gear = d.gear, children = d.children,
               welcomed = Players
        PROVE  Furnished /\ welcomed \subseteq Players
    BY <2>2, DowriesOK
       DEF Furnished, Now, Things, Houses, Gears, ChildrenInTheirSlots, HousesWithinTheLimit
  <2> QED
    BY <2>1, <2>2 DEF Init
<1> QED
  BY <1>1, <1>2 DEF Inv, Riding, RoomToComeHome

LEMMA NextInv == Inv /\ [Next]_vars => Inv'
<1> SUFFICES ASSUME Inv, [Next]_vars PROVE Inv'
  OBVIOUS
<1>1. CASE split /\ Plays /\ UNCHANGED split
  <2>1. split /\ split'
    BY <1>1
  <2>2. CASE Grow
    BY <2>1, <2>2, GrowInv
  <2>3. CASE RoundEnds
    BY <2>1, <2>3, RoundEndsInv
  <2>4. ASSUME NEW p \in Players, Birth(p) PROVE Inv'
    BY <2>1, <2>4, BirthInv
  <2>5. ASSUME NEW p \in Players, Visit(p) PROVE Inv'
    BY <2>1, <2>5, DeliverInv, NothingHungInv, ThrowAtHouseInv, RobInv, ComeHomeInv DEF Visit
  <2>6. ASSUME NEW p \in Players, Welcome(p) PROVE Inv'
    BY <2>1, <2>6, WelcomeInv
  <2>7. ASSUME NEW p \in Players, Handler(p) PROVE Inv'
    <3>1. ASSUME NEW kind \in ForSale, NEW at \in 0 .. HouseLimit, Buy(p, kind, at) PROVE Inv'
      BY <2>1, <3>1, BuyInv, ConstantsOK
    <3>2. ASSUME NEW from \in 1 .. HouseLimit, NEW to \in 1 .. HouseLimit, FurnitureMove(p, from, to)
          PROVE  Inv'
      BY <2>1, <3>2, FurnitureMoveInv
    <3>3. ASSUME NEW kind \in Kinds, NEW swap \in Kinds \cup {None}, GearTake(p, kind, swap)
          PROVE  Inv'
      BY <2>1, <3>3, GearTakeInv
    <3>4. ASSUME NEW kind \in Kinds, GearStore(p, kind) \/ Burn(p, kind) \/ ThrowAtPlace(p, kind)
          PROVE  Inv'
      BY <2>1, <3>4, GearStoreInv, BurnInv, ThrowAtPlaceInv
    <3>5. ASSUME NEW c \in children, BurnChild(p, c) PROVE Inv'
      BY <2>1, <3>5, BurnChildInv
    <3>6. ASSUME NEW q \in Players, NEW load \in Kinds \cup {None, Palle}, NEW intact \in BOOLEAN,
                 SetOff(p, q, load, intact)
          PROVE  Inv'
      BY <2>1, <3>6, SetOffInv
    <3>7. CASE TurnBack(p)
      BY <2>1, <3>7, TurnBackInv
    <3>8. CASE Claim(p) \/ Leave(p)
      BY <2>1, <3>8, ClaimInv
    <3> QED
      BY <2>7, <3>1, <3>2, <3>3, <3>4, <3>5, <3>6, <3>7, <3>8 DEF Handler, AtHomeErrand
  <2> QED
    BY <1>1, <2>2, <2>3, <2>4, <2>5, <2>6, <2>7 DEF Plays, Keeper
<1>2. CASE SortOut
  BY <1>2, SortOutInv
<1>3. CASE UNCHANGED vars
  <2>1. UNCHANGED <<house, gear, rides, children, welcomed, split>>
    BY <1>3 DEF vars, family
  <2>2. Furnished'
    BY <2>1, SameThings DEF Inv, things
  <2> QED
    BY <2>1, <2>2 DEF Inv, Riding, RoomToComeHome
<1> QED
  BY <1>1, <1>2, <1>3 DEF Next

LEMMA SpecInv == Spec => []Inv
BY InitInv, NextInv, PTL DEF Spec

-----------------------------------------------------------------------------

\* Births, moves, purchases, fires, presents, thefts, growth, ☢️ and the sorting out of an
\* old save never leave a child without its slot, two in the same one, or a slot that
\* shows a child who is gone.
THEOREM ChildrenKeepTheirSlots == Spec => []ChildrenInTheirSlots
<1>1. Inv => ChildrenInTheirSlots
  BY DEF Inv, Furnished
<1> QED
  BY <1>1, SpecInv, PTL

\* Whoever rides with an emoji frees a slot on him as he sets off, or has one already,
\* and nothing fills it until he is home: the homecoming of raid_due always has a slot
\* for what nobody took.
THEOREM RoomIsKept == Spec => []RoomToComeHome
<1>1. Inv => RoomToComeHome
  BY DEF Inv
<1> QED
  BY <1>1, SpecInv, PTL

\* Hence the homecoming that would hang in the house with no limit never does, and no
\* house outgrows furniture_limit, however much was saved and whatever is born.
THEOREM LimitHolds == Spec => []HousesWithinTheLimit
<1>1. Inv => HousesWithinTheLimit
  BY DEF Inv, Furnished
<1> QED
  BY <1>1, SpecInv, PTL

=============================================================================
