---------------------------- MODULE EmojiProofs ----------------------------
(***************************************************************************)
(* Where the emoji go, for any emoji, limits and bounds: a hold counts the  *)
(* ⚡ its holder shows, no more and no less; a 🎈 stays its owner's; among   *)
(* any finite number of players, emoji are neither doubled nor lost on the  *)
(* way; and the types.                                                     *)
(***************************************************************************)
EXTENDS BelongingsProofs, FiniteSetTheorems

\* The hold is somebody's who is at the place, and counts what he shows.
Holding ==
  /\ \E who, bolts, percent, lobsters :
       hold = [who |-> who, bolts |-> bolts, percent |-> percent, lobsters |-> lobsters]
  /\ hold.who \in welcomed \cup {Nobody}
  /\ hold.who \notin DOMAIN rides
  /\ ~split => hold = Vacant
  /\ HoldCountsItsBolts

-----------------------------------------------------------------------------
(* What is shown. *)

Showing(slots, h, p, kind) == {i \in GearSlots : Shown(slots, h, p)[i] = kind}

LEMMA ShownIsFinite ==
  ASSUME NEW slots, NEW h, NEW p, NEW kind
  PROVE  /\ IsFiniteSet(Showing(slots, h, p, kind))
         /\ ShownCopies(slots, h, p, kind) = Cardinality(Showing(slots, h, p, kind))
         /\ ShownCopies(slots, h, p, kind) \in Nat
<1>1. IsFiniteSet(GearSlots)
  BY ConstantsOK, FS_Interval DEF GearSlots
<1>2. Showing(slots, h, p, kind) \subseteq GearSlots
  BY DEF Showing
<1>3. IsFiniteSet(Showing(slots, h, p, kind))
  BY <1>1, <1>2, FS_Subset
<1>4. ShownCopies(slots, h, p, kind) = Cardinality(Showing(slots, h, p, kind))
  BY DEF ShownCopies, Showing
<1> QED
  BY <1>3, <1>4, FS_CardinalityType

\* What is taken off him shows no ⚡ that was not shown.
LEMMA FewerShown ==
  ASSUME NEW slots, NEW left, NEW h, NEW p, \A i \in GearSlots : left[i] \in {slots[i], None}
  PROVE  ShownCopies(left, h, p, "bolt") <= ShownCopies(slots, h, p, "bolt")
<1>1. ASSUME NEW i \in GearSlots, Shown(left, h, p)[i] = "bolt"
      PROVE  Shown(slots, h, p)[i] = "bolt"
  <2>1. left[i] = slots[i] \/ left[i] = "none"
    BY <1>1 DEF None
  <2> QED
    BY <1>1, <2>1 DEF Shown
<1>2. Showing(left, h, p, "bolt") \subseteq Showing(slots, h, p, "bolt")
  BY <1>1 DEF Showing
<1> QED
  BY <1>2, ShownIsFinite, FS_Subset

-----------------------------------------------------------------------------
(* On whom the helpers change what. *)

\* Some belongings, sound or not.
Owned(t) == \E h, g : t = [house |-> h, gear |-> g] /\ g \in Gears

LEMMA NowOwned == Inv => Owned(Now) /\ Now.gear = gear
BY DEF Inv, Furnished, Now, Things, Owned

LEMMA InHouseGear ==
  ASSUME NEW t, Owned(t), NEW p, NEW i, NEW kind
  PROVE  Owned(InHouse(t, p, i, kind)) /\ InHouse(t, p, i, kind).gear = t.gear
<1>1. PICK h, g : t = [house |-> h, gear |-> g] /\ g \in Gears
  BY DEF Owned
<1> DEFINE after == [h EXCEPT ![p][i] = kind]
<1>2. InHouse(t, p, i, kind) = [house |-> after, gear |-> g]
  BY <1>1 DEF InHouse
<1> HIDE DEF after
<1>3. Owned(InHouse(t, p, i, kind))
  BY <1>1, <1>2 DEF Owned
<1>4. t.gear = g /\ InHouse(t, p, i, kind).gear = g
  BY <1>1, <1>2
<1> QED
  BY <1>3, <1>4

LEMMA OnHimGear ==
  ASSUME NEW t, Owned(t), NEW p \in Players, NEW i, NEW kind \in Kinds \cup {None}
  PROVE  /\ Owned(OnHim(t, p, i, kind))
         /\ \A q \in Players \ {p} : OnHim(t, p, i, kind).gear[q] = t.gear[q]
         /\ \A j \in GearSlots : OnHim(t, p, i, kind).gear[p][j] \in {t.gear[p][j], kind}
<1>1. PICK h, g : t = [house |-> h, gear |-> g] /\ g \in Gears
  BY DEF Owned
<1> DEFINE after == [g EXCEPT ![p][i] = kind]
<1>2. OnHim(t, p, i, kind) = [house |-> h, gear |-> after]
  BY <1>1 DEF OnHim
<1>3. [g[p] EXCEPT ![i] = kind] \in [GearSlots -> Kinds \cup {None}]
  BY <1>1 DEF Gears
<1>4. /\ after \in Gears
      /\ \A q \in Players \ {p} : after[q] = g[q]
      /\ \A j \in GearSlots : after[p][j] \in {g[p][j], kind}
  BY <1>1, <1>3 DEF Gears
<1> HIDE DEF after
<1>5. t.gear = g /\ OnHim(t, p, i, kind).gear = after
  BY <1>1, <1>2
<1>6. Owned(OnHim(t, p, i, kind))
  BY <1>2, <1>4 DEF Owned
<1> QED
  BY <1>4, <1>5, <1>6

\* Nobody has anything on him that he had not.
Less(t) ==
  Owned(t) /\ \A q \in Players, i \in GearSlots : t.gear[q][i] \in {gear[q][i], None}

LEMMA TakenLess ==
  ASSUME Inv, NEW p \in Players, NEW kind
  PROVE  Less(Taken(p, kind)) /\ \A q \in Players \ {p} : Taken(p, kind).gear[q] = gear[q]
<1>1. Owned(Now) /\ Now.gear = gear
  BY NowOwned
<1>2. CASE GearHolding(p, kind) # {}
  <2> DEFINE i == Least(GearHolding(p, kind))
  <2>1. Taken(p, kind) = OnHim(Now, p, i, None)
    BY <1>2 DEF Taken
  <2> HIDE DEF i
  <2>2. /\ Owned(OnHim(Now, p, i, None))
        /\ \A q \in Players \ {p} : OnHim(Now, p, i, None).gear[q] = gear[q]
        /\ \A j \in GearSlots : OnHim(Now, p, i, None).gear[p][j] \in {gear[p][j], None}
    BY <1>1, OnHimGear
  <2> QED
    BY <2>1, <2>2 DEF Less
<1>3. CASE GearHolding(p, kind) = {}
  <2> DEFINE i == Least(SlotsHolding(p, kind))
  <2>1. Taken(p, kind) = InHouse(Now, p, i, None)
    BY <1>3 DEF Taken
  <2> HIDE DEF i
  <2>2. Owned(InHouse(Now, p, i, None)) /\ InHouse(Now, p, i, None).gear = gear
    BY <1>1, InHouseGear
  <2> QED
    BY <2>1, <2>2 DEF Less
<1> QED
  BY <1>2, <1>3

LEMMA BlownLess ==
  ASSUME NEW t, Less(t), NEW p \in Players, NEW u \in BlownOnHim(t, p)
  PROVE  Less(u) /\ \A q \in Players \ {p} : u.gear[q] = t.gear[q]
<1>1. CASE u = t
  BY <1>1
<1>2. CASE u # t
  <2>1. PICK i \in Exposed(t.gear[p]) : u = OnHim(t, p, i, None)
    BY <1>2 DEF BlownOnHim
  <2>2. /\ Owned(u)
        /\ \A q \in Players \ {p} : u.gear[q] = t.gear[q]
        /\ \A j \in GearSlots : u.gear[p][j] \in {t.gear[p][j], None}
    BY <2>1, OnHimGear DEF Less
  <2> QED
    BY <2>2 DEF Less
<1> QED
  BY <1>1, <1>2

LEMMA PutOnGear ==
  ASSUME NEW t, Owned(t), NEW p \in Players, NEW kind \in Kinds
  PROVE  \A q \in Players \ {p} : PutOn(t, p, kind).gear[q] = t.gear[q]
<1> DEFINE i == Least(Free(t.gear[p], CarriedLimit))
<1>1. PutOn(t, p, kind) = OnHim(t, p, i, kind) /\ kind \in Kinds \cup {None}
  BY DEF PutOn
<1> HIDE DEF i
<1> QED
  BY <1>1, OnHimGear

LEMMA PutInHouseGear ==
  ASSUME NEW t, Owned(t), NEW p, NEW kind, NEW limit
  PROVE  PutInHouse(t, p, kind, limit).gear = t.gear
BY InHouseGear DEF PutInHouse

-----------------------------------------------------------------------------
(* What happens to a hold. *)

\* It goes on, with its holder as he was, or it is over.
LEMMA GoesOn ==
  ASSUME Holding, split', hold' \in {hold, Vacant},
         hold' = hold /\ hold.who \in Players => gear'[hold.who] = gear[hold.who],
         hold' = hold => hold.who \notin DOMAIN rides',
         Nobody \notin DOMAIN rides', welcomed \subseteq welcomed', welcomed \subseteq Players
  PROVE  Holding'
<1>1. CASE hold' = Vacant
  BY <1>1 DEF Holding, Vacant, HoldCountsItsBolts
<1>2. CASE hold' = hold
  <2>1. hold.who # Nobody => gear'[hold.who] = gear[hold.who]
    BY <1>2 DEF Holding
  <2>2. HoldCountsItsBolts'
    BY <1>2, <2>1 DEF Holding, HoldCountsItsBolts, ShownCopies, Shown
  <2> QED
    BY <1>2, <2>2 DEF Holding
<1> QED
  BY <1>1, <1>2

\* An errand at home of whoever holds the place ends his hold; another's leaves it.
LEMMA ErrandHold ==
  ASSUME Inv, Holding, split', NEW p \in Players, GoesHome(p), rides' = rides, welcomed' = welcomed,
         \A q \in Players \ {p} : gear'[q] = gear[q]
  PROVE  Holding'
<1>1. hold' \in {hold, Vacant} /\ (hold.who = p => hold' = Vacant)
  BY DEF GoesHome
<1>2. hold.who = p /\ hold' = hold => hold.who \notin Players
  BY <1>1, ConstantsOK DEF Vacant
<1>3. DOMAIN rides \subseteq Players /\ welcomed \subseteq Players
  BY DEF Inv, Riding
<1> QED
  BY <1>1, <1>2, <1>3, GoesOn, ConstantsOK DEF Holding

\* What he loses takes its share of the percent with it: what is left is what the ⚡
\* left are worth.
LEMMA LoseBoltsHold ==
  ASSUME Inv, Holding, split', NEW after, Less(after), Become(after), hold' = LoseBolts(after),
         rides' = rides, welcomed' = welcomed
  PROVE  Holding'
<1>0. DOMAIN rides \subseteq Players /\ welcomed \subseteq Players /\ gear' = after.gear
  BY DEF Inv, Riding, Become
<1>1. CASE hold.who = Nobody
  BY <1>0, <1>1, GoesOn, ConstantsOK DEF LoseBolts
<1>2. CASE BoltPercent = 0
  <2>1. hold.who # Nobody => hold.bolts = 0 /\ hold.percent = 0
    BY <1>2 DEF Holding, HoldCountsItsBolts, Worthwhile, Percent
  <2>2. hold' = hold
    BY <2>1 DEF LoseBolts
  <2>3. HoldCountsItsBolts'
    BY <1>2, <2>1, <2>2 DEF HoldCountsItsBolts, Worthwhile, Percent
  <2> QED
    BY <2>2, <2>3 DEF Holding
<1>3. CASE hold.who # Nobody /\ BoltPercent # 0
  <2> DEFINE q == hold.who
             left == ShownCopies(after.gear[q], hold, q, "bolt")
             share == (hold.percent - 100) \div hold.bolts
  <2>1. /\ q \in Players /\ hold.bolts = ShownCopies(gear[q], hold, q, "bolt")
        /\ hold.percent = Percent(hold.bolts)
    BY <1>0, <1>3 DEF Holding, HoldCountsItsBolts, Worthwhile
  <2>2. left \in Nat /\ hold.bolts \in Nat
    BY <2>1, ShownIsFinite
  <2>3. left <= hold.bolts
    <3>1. \A i \in GearSlots : after.gear[q][i] \in {gear[q][i], None}
      BY <2>1 DEF Less
    <3> QED
      BY <2>1, <3>1, FewerShown
  <2>4. PICK who, bolts, percent, lobsters :
          hold = [who |-> who, bolts |-> bolts, percent |-> percent, lobsters |-> lobsters]
    BY DEF Holding
  <2>5. /\ \E b, pc, l : hold' = [who |-> q, bolts |-> b, percent |-> pc, lobsters |-> l]
        /\ hold'.who = q /\ hold'.lobsters = hold.lobsters
        /\ hold'.bolts = left /\ hold'.percent = Percent(left)
    <3> HIDE DEF left
    <3>1. CASE left >= hold.bolts
      <4>1. left = hold.bolts
        BY <2>2, <2>3, <3>1
      <4>2. hold' = hold
        BY <3>1, <4>1 DEF LoseBolts, left
      <4> QED
        BY <2>1, <2>4, <4>1, <4>2
    <3>2. CASE ~ (left >= hold.bolts)
      <4>1. hold.bolts \in Nat \ {0} /\ hold.bolts # 0
        BY <2>2, <3>2
      <4>2. share = BoltPercent
        <5>1. hold.percent = 100 + hold.bolts * BoltPercent
          BY <2>1, <4>1 DEF Percent
        <5>2. BoltPercent \in Nat /\ hold.bolts * BoltPercent \in Nat
          BY <4>1, ConstantsOK
        <5>3. hold.percent - 100 = hold.bolts * BoltPercent
          BY <5>1, <5>2
        <5>4. (hold.bolts * BoltPercent) \div hold.bolts = BoltPercent
          BY <4>1, <5>2
        <5> QED
          BY <5>3, <5>4
      <4>3. hold' = [hold EXCEPT !.bolts = left,
                                 !.percent = IF left > 0 THEN 100 + left * BoltPercent ELSE 0]
        BY <1>3, <3>2, <4>1, <4>2 DEF LoseBolts, left
      <4>4. (IF left > 0 THEN 100 + left * BoltPercent ELSE 0) = Percent(left)
        BY <2>2 DEF Percent
      <4> HIDE DEF share
      <4>5. hold' = [who |-> who, bolts |-> left, percent |-> Percent(left), lobsters |-> lobsters]
        BY <2>4, <4>3, <4>4
      <4>6. q = who /\ hold.lobsters = lobsters
        BY <2>4
      <4> HIDE DEF q
      <4>7. hold' = [who |-> q, bolts |-> left, percent |-> Percent(left), lobsters |-> lobsters]
        BY <4>5, <4>6
      <4>8. /\ hold'.who = q /\ hold'.lobsters = hold.lobsters
            /\ hold'.bolts = left /\ hold'.percent = Percent(left)
        BY <4>6, <4>7
      <4> QED
        BY <4>7, <4>8
    <3> QED
      BY <3>1, <3>2
  <2>6. ShownCopies(gear'[q], hold', q, "bolt") = left
    BY <1>0, <2>5 DEF ShownCopies, Shown
  <2> HIDE DEF left, share
  <2>7. HoldCountsItsBolts'
    BY <1>3, <2>5, <2>6 DEF HoldCountsItsBolts, Worthwhile
  <2> QED
    BY <2>5, <2>7 DEF Holding
<1> QED
  BY <1>1, <1>2, <1>3

\* Whoever enters counts what he shows once in, the 🦞 he copies with included.
LEMMA ClaimHold ==
  ASSUME Inv, Holding, split', NEW p \in Players, Claim(p) PROVE Holding'
<1> DEFINE lobsters == Copied(p)
           entered == [who |-> p, bolts |-> 0, percent |-> 0, lobsters |-> lobsters]
           shown == ShownCopies(gear[p], entered, p, "bolt")
<1>1. /\ hold' = [who |-> p, bolts |-> Worthwhile(shown),
               percent |-> Percent(Worthwhile(shown)), lobsters |-> lobsters]
      /\ p \in welcomed /\ p \notin DOMAIN rides
      /\ gear' = gear /\ rides' = rides /\ welcomed' = welcomed
  BY DEF Claim, Acts, AtHome, OnTheRoad, things
<1> HIDE DEF lobsters
<1>2. ShownCopies(gear'[p], hold', p, "bolt") = shown
  BY <1>1 DEF ShownCopies, Shown
<1> HIDE DEF shown
<1> QED
  BY <1>1, <1>2 DEF Holding, HoldCountsItsBolts

-----------------------------------------------------------------------------
(* One step at a time. *)

\* Errands at home, which end the hold of whoever runs them.
LEMMA AtHomeHold ==
  ASSUME Inv, Holding, split', NEW p \in Players, AtHomeErrand(p) PROVE Holding'
<1>0. Owned(Now) /\ Now.gear = gear
  BY NowOwned
<1>1. GoesHome(p) /\ rides' = rides /\ welcomed' = welcomed
  BY DEF AtHomeErrand, Buy, FurnitureMove, GearTake, GearStore
<1>2. \A q \in Players \ {p} : gear'[q] = gear[q]
  <2>1. ASSUME NEW kind \in ForSale, NEW at, Buy(p, kind, at)
        PROVE  \A q \in Players \ {p} : gear'[q] = gear[q]
    <3>1. kind \in Kinds
      BY ConstantsOK
    <3>2. \/ Become(PutOn(Now, p, kind))
          \/ Become(PutInHouse(Now, p, kind, HouseLimit))
          \/ Become(InHouse(Now, p, at, kind))
      BY <2>1 DEF Buy
    <3> QED
      BY <1>0, <3>1, <3>2, PutOnGear, PutInHouseGear, InHouseGear DEF Become
  <2>2. ASSUME NEW from, NEW to, FurnitureMove(p, from, to)
        PROVE  \A q \in Players \ {p} : gear'[q] = gear[q]
    BY <2>2 DEF FurnitureMove
  <2>3. ASSUME NEW kind \in Kinds, NEW swap \in Kinds \cup {None}, GearTake(p, kind, swap)
        PROVE  \A q \in Players \ {p} : gear'[q] = gear[q]
    <3>1. PICK from, to : SlotsHolding(p, kind) # {} /\ from = Least(SlotsHolding(p, kind))
                          /\ Become(Swapped(p, from, to))
      BY <2>3 DEF GearTake
    <3>2. house[p][from] = kind
      <4>1. SlotsHolding(p, kind) \in SUBSET Nat
        BY KindFacts DEF SlotsHolding
      <4>2. from \in SlotsHolding(p, kind)
        BY <3>1, <4>1, LeastOf
      <4> QED
        BY <4>2 DEF SlotsHolding
    <3> DEFINE t == InHouse(Now, p, from, gear[p][to])
    <3>3. Owned(t) /\ t.gear = gear
      BY <1>0, InHouseGear
    <3>4. Swapped(p, from, to) = OnHim(t, p, to, kind)
      BY <3>2 DEF Swapped
    <3> HIDE DEF t
    <3>5. \A q \in Players \ {p} : OnHim(t, p, to, kind).gear[q] = gear[q]
      BY <3>3, OnHimGear
    <3> QED
      BY <3>1, <3>4, <3>5 DEF Become
  <2>4. ASSUME NEW kind \in Kinds, GearStore(p, kind)
        PROVE  \A q \in Players \ {p} : gear'[q] = gear[q]
    <3> DEFINE t == Taken(p, kind)
    <3>1. Owned(t) /\ \A q \in Players \ {p} : t.gear[q] = gear[q]
      BY TakenLess DEF Less
    <3>2. Become(PutInHouse(t, p, kind, HouseLimit))
      BY <2>4 DEF GearStore
    <3> HIDE DEF t
    <3> QED
      BY <3>1, <3>2, PutInHouseGear DEF Become
  <2> QED
    BY <2>1, <2>2, <2>3, <2>4 DEF AtHomeErrand
<1> QED
  BY <1>1, <1>2, ErrandHold

\* What a player does to his emoji at the place, or sets off with.
LEMMA HandlerHold ==
  ASSUME Inv, Holding, split', NEW p \in Players, Handler(p) PROVE Holding'
<1>0. DOMAIN rides \subseteq Players /\ welcomed \subseteq Players /\ Nobody \notin Players
  BY ConstantsOK DEF Inv, Riding
<1>1. CASE AtHomeErrand(p)
  BY <1>1, AtHomeHold
<1>2. CASE Claim(p)
  BY <1>2, ClaimHold
<1>3. CASE Leave(p)
  <2>1. hold' = Vacant /\ rides' = rides /\ welcomed' = welcomed /\ gear' = gear
    BY <1>3 DEF Leave, things
  <2> QED
    BY <1>0, <2>1, GoesOn DEF Holding
<1>4. ASSUME NEW kind \in Kinds, Burn(p, kind) PROVE Holding'
  <2> DEFINE t == Taken(p, kind)
  <2>1. Become(t) /\ hold' = LoseBolts(t) /\ rides' = rides /\ welcomed' = welcomed
    BY <1>4 DEF Burn
  <2>2. Less(t)
    BY TakenLess
  <2> HIDE DEF t
  <2> QED
    BY <2>1, <2>2, LoseBoltsHold
<1>5. ASSUME NEW kind \in Kinds, ThrowAtPlace(p, kind) PROVE Holding'
  <2>1. CASE StartAllOver
    <3>1. hold' = Vacant /\ DOMAIN rides' = {} /\ welcomed' = welcomed
      BY <1>5, <2>1 DEF StartAllOver, ThrowAtPlace
    <3>2. hold' = hold => hold.who = Nobody
      BY <3>1 DEF Vacant
    <3> QED
      BY <1>0, <3>1, <3>2, GoesOn
  <2>2. CASE ~ StartAllOver
    <3> DEFINE left == Taken(p, kind)
    <3>1. /\ \E after \in {left} \cup BlownOnHim(left, p)
                          \cup (IF hold.who = Nobody THEN {} ELSE BlownOnHim(left, hold.who)) :
               Become(after) /\ hold' = LoseBolts(after)
          /\ rides' = rides /\ welcomed' = welcomed
      BY <1>5, <2>2 DEF ThrowAtPlace
    <3>2. Less(left)
      BY TakenLess
    <3> HIDE DEF left
    <3>3. PICK after \in {left} \cup BlownOnHim(left, p)
                         \cup (IF hold.who = Nobody THEN {} ELSE BlownOnHim(left, hold.who)) :
            Become(after) /\ hold' = LoseBolts(after)
      BY <3>1
    <3>4. hold.who # Nobody => hold.who \in Players
      BY <1>0 DEF Holding
    <3>5. Less(after)
      BY <3>2, <3>3, <3>4, BlownLess
    <3> QED
      BY <3>1, <3>3, <3>5, LoseBoltsHold
  <2> QED
    BY <2>1, <2>2
<1>6. ASSUME NEW c \in children, BurnChild(p, c) PROVE Holding'
  <2>1. hold' = hold /\ rides' = rides /\ welcomed' = welcomed /\ gear' = gear
    BY <1>6 DEF BurnChild
  <2> QED
    BY <1>0, <2>1, GoesOn DEF Holding
<1>7. ASSUME NEW q \in Players, NEW load \in Kinds \cup {None, Palle}, NEW intact \in BOOLEAN,
             SetOff(p, q, load, intact)
      PROVE  Holding'
  <2>1. /\ hold' = hold /\ hold.who # p /\ welcomed' = welcomed
        /\ DOMAIN rides' = DOMAIN rides \cup {p}
        /\ UNCHANGED things \/ Become(Taken(p, load))
    BY <1>7 DEF SetOff, AtHome
  <2>2. \A r \in Players \ {p} : gear'[r] = gear[r]
    BY <2>1, TakenLess DEF things, Become
  <2> QED
    BY <1>0, <2>1, <2>2, GoesOn DEF Holding
<1>8. CASE TurnBack(p)
  <2>1. hold' = hold /\ DOMAIN rides' = DOMAIN rides /\ welcomed' = welcomed /\ gear' = gear
    BY <1>8 DEF TurnBack, things
  <2> QED
    BY <1>0, <2>1, GoesOn DEF Holding
<1> QED
  BY <1>1, <1>2, <1>3, <1>4, <1>5, <1>6, <1>7, <1>8 DEF Handler

\* Whoever is at the place is neither riding nor worn a present, and a ☢️ on his house
\* takes him out.
LEMMA VisitHold ==
  ASSUME Inv, Holding, split', NEW p \in Players, Visit(p) PROVE Holding'
<1> DEFINE q == rides[p].to
<1>0. /\ DOMAIN rides \subseteq Players /\ welcomed \subseteq Players /\ Nobody \notin Players
      /\ Owned(Now) /\ Now.gear = gear
  BY NowOwned, ConstantsOK DEF Inv, Riding
<1>1. OnTheRoad(p) /\ p \in DOMAIN rides /\ hold.who # p /\ q \in Players /\ welcomed' = welcomed
  <2>1. OnTheRoad(p) /\ welcomed' = welcomed
    BY DEF Visit, Deliver, NothingHung, ThrowAtHouse, Rob, ComeHome, Arriving
  <2> QED
    BY <2>1, OnTheList DEF Holding
<1>2. ASSUME DOMAIN rides' = DOMAIN rides, hold' = hold,
             \A r \in Players \ {p} : r = hold.who => gear'[r] = gear[r]
      PROVE  Holding'
  BY <1>0, <1>1, <1>2, GoesOn DEF Holding
<1>3. \A load : DOMAIN Arrived(p, load) = DOMAIN rides
  BY DEF Arrived
<1>4. CASE Deliver(p)
  <2>1. /\ \/ AtHome(q) /\ Become(PutOn(Now, q, rides[p].load))
           \/ Become(PutInHouse(Now, q, rides[p].load, HouseLimit))
           \/ UNCHANGED things
        /\ rides[p].load \in Kinds /\ hold' = hold /\ DOMAIN rides' = DOMAIN rides
    BY <1>3, <1>4 DEF Deliver
  <2>2. \A r \in Players : r = hold.who => gear'[r] = gear[r]
    BY <1>0, <1>1, <2>1, PutOnGear, PutInHouseGear DEF Become, things, AtHome
  <2> QED
    BY <1>2, <2>1, <2>2
<1>5. CASE NothingHung(p)
  BY <1>2, <1>3, <1>5 DEF NothingHung, things
<1>6. CASE ThrowAtHouse(p)
  <2>1. PICK v \in {p, q} :
          \/ StartOver(v, Arrived(p, None))
          \/ /\ \E after \in BlownInHouse(Now, v) \cup BlownOnHim(Now, p) : Become(after)
             /\ rides' = Arrived(p, None) /\ hold' = hold
          \/ rides' = Arrived(p, None) /\ UNCHANGED <<things, hold>>
    BY <1>6 DEF ThrowAtHouse
  <2>2. CASE StartOver(v, Arrived(p, None))
    <3>1. /\ hold' = (IF hold.who = v THEN Vacant ELSE hold)
          /\ gear' = [gear EXCEPT ![v] = FirstGear]
          /\ DOMAIN rides' = DOMAIN rides
      BY <1>3, <2>2 DEF StartOver
    <3>2. hold.who # v => gear'[hold.who] = gear[hold.who] \/ hold.who \notin Players
      BY <1>0, <3>1 DEF Inv, Furnished, Now, Things, Gears
    <3>3. hold' = hold /\ hold.who \in Players => hold.who # v
      BY <1>0, <3>1 DEF Vacant
    <3> QED
      BY <1>0, <1>1, <3>1, <3>2, <3>3, GoesOn DEF Holding
  <2>3. ASSUME NEW after \in BlownInHouse(Now, v) \cup BlownOnHim(Now, p), Become(after),
               rides' = Arrived(p, None), hold' = hold
        PROVE  Holding'
    <3>1. Less(Now)
      BY <1>0 DEF Less
    <3>2. \A r \in Players \ {p} : after.gear[r] = gear[r]
      <4>1. CASE after \in BlownOnHim(Now, p)
        BY <1>0, <3>1, <4>1, BlownLess
      <4>2. CASE after \in BlownInHouse(Now, v)
        BY <1>0, <4>2, InHouseGear DEF BlownInHouse
      <4> QED
        BY <2>3, <4>1, <4>2
    <3> QED
      BY <1>2, <1>3, <2>3, <3>2 DEF Become
  <2>4. CASE rides' = Arrived(p, None) /\ UNCHANGED <<things, hold>>
    BY <1>2, <1>3, <2>4 DEF things
  <2> QED
    BY <2>1, <2>2, <2>3, <2>4
<1>7. CASE Rob(p)
  <2>1. PICK fed \in {Now} \cup BlownOnHim(Now, p) : \E after \in Boarded(fed, p, q) : Become(after)
    BY <1>7 DEF Rob
  <2>2. Owned(fed) /\ \A r \in Players \ {p} : fed.gear[r] = gear[r]
    <3>1. Less(Now)
      BY <1>0 DEF Less
    <3> QED
      BY <1>0, <2>1, <3>1, BlownLess DEF Less
  <2>3. PICK after \in Boarded(fed, p, q) : Become(after)
    BY <2>1
  <2>4. \A r \in Players \ {p} : after.gear[r] = fed.gear[r]
    <3>1. CASE after = fed
      BY <3>1
    <3>2. CASE after # fed
      <4>1. PICK i \in Boardable(q) : after = PutOn(InHouse(fed, q, i, None), p, house[q][i])
        BY <2>3, <3>2 DEF Boarded
      <4>2. house[q][i] \in Kinds
        <5>1. i \in HouseSlots /\ ~IsChild(q, i) /\ house[q][i] # None /\ house[q][i] \in Slot
          BY <1>1, <4>1 DEF Boardable, Inv, Furnished, Now, Things, Houses
        <5>2. house[q][i] # Kid
          BY <1>1, <5>1 DEF Inv, Furnished, ChildrenInTheirSlots, EachInItsSlot, IsChild
        <5> QED
          BY <5>1, <5>2 DEF Slot
      <4>3. Owned(InHouse(fed, q, i, None)) /\ InHouse(fed, q, i, None).gear = fed.gear
        BY <2>2, InHouseGear
      <4> QED
        BY <4>1, <4>2, <4>3, PutOnGear
    <3> QED
      BY <3>1, <3>2
  <2>5. hold' = hold /\ DOMAIN rides' = DOMAIN rides
    BY <1>3, <1>7 DEF Rob
  <2> QED
    BY <1>2, <2>2, <2>3, <2>4, <2>5 DEF Become
<1>8. CASE ComeHome(p)
  <2>1. /\ hold' = hold /\ DOMAIN rides' = DOMAIN rides
        /\ \/ UNCHANGED things
           \/ /\ rides[p].load \in Kinds
              /\ \/ Become(PutOn(Now, p, rides[p].load))
                 \/ Become(PutInHouse(Now, p, rides[p].load, Room))
    BY <1>8 DEF ComeHome
  <2>2. \A r \in Players \ {p} : gear'[r] = gear[r]
    BY <1>0, <2>1, PutOnGear, PutInHouseGear DEF Become, things
  <2> QED
    BY <1>2, <2>1, <2>2
<1> QED
  BY <1>4, <1>5, <1>6, <1>7, <1>8 DEF Visit

-----------------------------------------------------------------------------

LEMMA InitHolding == Init => Holding
<1> DEFINE lobsters == [i \in {} |-> None]
<1>1. Init => hold = Vacant /\ DOMAIN rides = {}
  BY DEF Init
<1>2. Vacant = [who |-> Nobody, bolts |-> 0, percent |-> 0, lobsters |-> lobsters]
  BY DEF Vacant
<1> HIDE DEF lobsters
<1>3. ASSUME hold = Vacant, DOMAIN rides = {} PROVE Holding
  <2>1. /\ hold = [who |-> Nobody, bolts |-> 0, percent |-> 0, lobsters |-> lobsters]
        /\ hold.who = Nobody
    BY <1>2, <1>3
  <2>2. \E who, bolts, percent, l :
          hold = [who |-> who, bolts |-> bolts, percent |-> percent, lobsters |-> l]
    BY <2>1
  <2> QED
    BY <1>3, <2>1, <2>2 DEF Holding, HoldCountsItsBolts
<1> QED
  BY <1>1, <1>3

LEMMA NextHolding == Inv /\ Holding /\ [Next]_vars => Holding'
<1> SUFFICES ASSUME Inv, Holding, [Next]_vars PROVE Holding'
  OBVIOUS
<1>0. DOMAIN rides \subseteq Players /\ welcomed \subseteq Players /\ Nobody \notin Players
  BY ConstantsOK DEF Inv, Riding
<1>1. CASE split /\ Plays /\ UNCHANGED split
  <2>1. split'
    BY <1>1
  <2>2. ASSUME NEW p \in Players, Handler(p) PROVE Holding'
    BY <2>1, <2>2, HandlerHold
  <2>3. ASSUME NEW p \in Players, Visit(p) PROVE Holding'
    BY <2>1, <2>3, VisitHold
  <2>4. ASSUME NEW p \in Players, Welcome(p) PROVE Holding'
    <3>1. /\ p \notin welcomed /\ welcomed' = welcomed \cup {p} /\ hold' = hold /\ rides' = rides
          /\ Become(PutOn(Now, p, "balloon"))
      BY <2>4 DEF Welcome
    <3>2. \A q \in Players \ {p} : gear'[q] = gear[q]
      BY <3>1, NowOwned, PutOnGear, KindFacts DEF Become
    <3>3. hold.who # p
      BY <1>0, <3>1 DEF Holding
    <3> QED
      BY <1>0, <2>1, <3>1, <3>2, <3>3, GoesOn DEF Holding
  <2>5. ASSUME hold' = hold, gear' = gear, DOMAIN rides' \subseteq DOMAIN rides, welcomed' = welcomed
        PROVE  Holding'
    BY <1>0, <2>1, <2>5, GoesOn DEF Holding
  <2>6. ASSUME NEW p \in Players, Birth(p) PROVE Holding'
    BY <2>5, <2>6 DEF Birth
  <2>7. CASE Grow
    BY <2>5, <2>7 DEF Grow
  <2>8. CASE RoundEnds
    BY <2>5, <2>8 DEF RoundEnds, things
  <2> QED
    BY <1>1, <2>2, <2>3, <2>4, <2>6, <2>7, <2>8 DEF Plays, Keeper
<1>2. CASE SortOut
  <2>1. hold' = Vacant /\ split' /\ rides' = rides /\ welcomed' = welcomed /\ hold = Vacant
    BY <1>2 DEF SortOut, Holding
  <2> QED
    BY <1>0, <2>1, GoesOn DEF Holding, Vacant
<1>3. CASE UNCHANGED vars
  BY <1>3 DEF vars, Holding, HoldCountsItsBolts, ShownCopies, Shown
<1> QED
  BY <1>1, <1>2, <1>3 DEF Next

\* Whatever burns, goes off, is swapped, stored or copied by a 🦞, whoever holds the place
\* is paid for the ⚡ he still shows: conquister_claim counts them as he enters, lose_bolts
\* takes off what he lost, and nothing else touches what a holder has on him.
THEOREM HoldIsWhatHeShows == Spec => []HoldCountsItsBolts
<1>1. Init => Inv /\ Holding
  BY InitInv, InitHolding
<1>2. Inv /\ Holding /\ [Next]_vars => Inv' /\ Holding'
  BY NextInv, NextHolding
<1>3. Holding => HoldCountsItsBolts
  BY DEF Holding
<1> QED
  BY <1>1, <1>2, <1>3, PTL DEF Spec


-----------------------------------------------------------------------------
(* How many of a kind hang in the houses of some players and on them. *)

AllSlots == ({"house"} \X HouseSlots) \cup ({"gear"} \X GearSlots)

\* What is in a slot of a player.
At(t, x) == IF x[2][1] = "house" THEN t.house[x[1]][x[2][2]] ELSE t.gear[x[1]][x[2][2]]

Hanging(t, P, kind) == {x \in P \X AllSlots : At(t, x) = kind}
Hung(t, P, kind) == Cardinality(Hanging(t, P, kind))

One(a, b) == IF a = b THEN 1 ELSE 0

LEMMA SlotsAreFinite ==
  /\ IsFiniteSet(HouseSlots) /\ IsFiniteSet(GearSlots) /\ IsFiniteSet(AllSlots)
  /\ \A P : IsFiniteSet(P) => IsFiniteSet(P \X AllSlots)
<1>1. IsFiniteSet(HouseSlots) /\ IsFiniteSet(GearSlots)
  BY ConstantsOK, FS_Interval DEF HouseSlots, GearSlots
<1>2. IsFiniteSet({"house"}) /\ IsFiniteSet({"gear"})
  BY FS_Singleton
<1>3. IsFiniteSet({"house"} \X HouseSlots) /\ IsFiniteSet({"gear"} \X GearSlots)
  BY <1>1, <1>2, FS_Product
<1>4. IsFiniteSet(AllSlots)
  BY <1>3, FS_Union DEF AllSlots
<1> QED
  BY <1>1, <1>4, FS_Product

LEMMA HangingIsFinite ==
  ASSUME NEW t, NEW P, IsFiniteSet(P), NEW kind
  PROVE  IsFiniteSet(Hanging(t, P, kind)) /\ Hung(t, P, kind) \in Nat
<1>1. Hanging(t, P, kind) \subseteq P \X AllSlots
  BY DEF Hanging
<1>2. IsFiniteSet(Hanging(t, P, kind))
  BY <1>1, SlotsAreFinite, FS_Subset
<1> QED
  BY <1>2, FS_CardinalityType DEF Hung

\* One slot changes.
LEMMA OneSlot ==
  ASSUME NEW t, NEW u, NEW P, IsFiniteSet(P), NEW x \in P \X AllSlots, NEW kind,
         \A y \in P \X AllSlots : y # x => At(u, y) = At(t, y)
  PROVE  Hung(u, P, kind) = Hung(t, P, kind) - One(At(t, x), kind) + One(At(u, x), kind)
<1> DEFINE S == Hanging(t, P, kind)
           T == Hanging(u, P, kind)
<1>1. IsFiniteSet(S) /\ Cardinality(S) \in Nat
  BY HangingIsFinite DEF Hung
<1>2. CASE At(t, x) = kind /\ At(u, x) # kind
  <2>1. T = S \ {x} /\ x \in S
    BY <1>2 DEF Hanging
  <2>2. Cardinality(T) = Cardinality(S) - 1
    BY <1>1, <2>1, FS_RemoveElement
  <2> QED
    BY <1>1, <1>2, <2>2 DEF Hung, One
<1>3. CASE At(t, x) # kind /\ At(u, x) = kind
  <2>1. T = S \cup {x} /\ x \notin S
    BY <1>3 DEF Hanging
  <2>2. Cardinality(T) = Cardinality(S) + 1
    BY <1>1, <2>1, FS_AddElement
  <2> QED
    BY <1>1, <1>3, <2>2 DEF Hung, One
<1>4. CASE (At(t, x) = kind) <=> (At(u, x) = kind)
  <2>1. T = S
    BY <1>4 DEF Hanging
  <2> QED
    BY <1>1, <1>4, <2>1 DEF Hung, One
<1> QED
  BY <1>2, <1>3, <1>4

\* Slots change places, two by two.
LEMMA Paired ==
  ASSUME NEW t, NEW u, NEW P, IsFiniteSet(P), NEW kind, NEW R,
         R \subseteq (P \X AllSlots) \X (P \X AllSlots),
         \A x, y : <<x, y>> \in R => <<y, x>> \in R,
         \A x, y, z : <<x, y>> \in R /\ <<x, z>> \in R => y = z,
         \A x, y : <<x, y>> \in R => At(u, x) = At(t, y),
         \A x \in P \X AllSlots : (\A y : <<x, y>> \notin R) => At(u, x) = At(t, x)
  PROVE  Hung(u, P, kind) = Hung(t, P, kind)
<1> DEFINE S == Hanging(t, P, kind)
           T == Hanging(u, P, kind)
           X == P \X AllSlots
           Partner(x) == IF \E y : <<x, y>> \in R THEN CHOOSE y : <<x, y>> \in R ELSE x
           f == [x \in T |-> Partner(x)]
<1>1. \A x, y : <<x, y>> \in R => Partner(x) = y /\ x \in X /\ y \in X
  OBVIOUS
<1>2. \A x : (\A y : <<x, y>> \notin R) => Partner(x) = x
  OBVIOUS
<1> HIDE DEF Partner
<1>3. \A x \in X : Partner(x) \in X /\ Partner(Partner(x)) = x /\ At(u, x) = At(t, Partner(x))
  <2> SUFFICES ASSUME NEW x \in X
               PROVE  Partner(x) \in X /\ Partner(Partner(x)) = x /\ At(u, x) = At(t, Partner(x))
    OBVIOUS
  <2>1. CASE \E y : <<x, y>> \in R
    <3>1. PICK y : <<x, y>> \in R
      BY <2>1
    <3>2. <<y, x>> \in R /\ At(u, x) = At(t, y)
      BY <3>1
    <3> QED
      BY <1>1, <3>1, <3>2
  <2>2. CASE \A y : <<x, y>> \notin R
    <3>1. At(u, x) = At(t, x)
      BY <2>2
    <3> QED
      BY <1>2, <2>2, <3>1
  <2> QED
    BY <2>1, <2>2
<1>4. f \in Bijection(T, S)
  <2>1. f \in [T -> S]
    BY <1>3 DEF Hanging
  <2>2. \A x \in T, y \in T : f[x] = f[y] => x = y
    BY <1>3 DEF Hanging
  <2>3. \A y \in S : \E x \in T : f[x] = y
    <3> SUFFICES ASSUME NEW y \in S PROVE Partner(y) \in T /\ f[Partner(y)] = y
      OBVIOUS
    <3>1. y \in X /\ At(t, y) = kind
      BY DEF Hanging
    <3>2. Partner(y) \in T
      BY <1>3, <3>1 DEF Hanging
    <3> QED
      BY <1>3, <3>1, <3>2
  <2> HIDE DEF f, S, T
  <2> QED
    BY <2>1, <2>2, <2>3 DEF Bijection, Injection, IsInjective, Surjection
<1>5. IsFiniteSet(T)
  BY HangingIsFinite
<1>6. ExistsBijection(T, S)
  BY <1>4 DEF ExistsBijection
<1>7. Cardinality(S) = Cardinality(T)
  BY <1>5, <1>6, FS_Bijection
<1> QED
  BY <1>7 DEF Hung

\* A slot in a house, a slot on somebody.
LEMMA InHouseHung ==
  ASSUME NEW t \in Things, NEW P \in SUBSET Players, IsFiniteSet(P), NEW p \in Players,
         NEW i \in HouseSlots, NEW new, NEW kind
  PROVE  Hung(InHouse(t, p, i, new), P, kind)
           = Hung(t, P, kind) + IF p \in P THEN One(new, kind) - One(t.house[p][i], kind) ELSE 0
<1> DEFINE x == <<p, <<"house", i>>>>
<1>1. PICK u : u = InHouse(t, p, i, new)
  OBVIOUS
<1>2. u.gear = t.gear /\ u.house = [t.house EXCEPT ![p][i] = new]
  BY <1>1 DEF InHouse, Things
<1>3. t.house \in Houses
  BY DEF Things
<1>4. /\ u.house[p][i] = new
      /\ \A q \in Players, j \in HouseSlots : q # p \/ j # i => u.house[q][j] = t.house[q][j]
  BY <1>2, <1>3 DEF Houses
<1>5. \A y \in P \X AllSlots : y # x => At(u, y) = At(t, y)
  <2> SUFFICES ASSUME NEW y \in P \X AllSlots, y # x PROVE At(u, y) = At(t, y)
    OBVIOUS
  <2>1. CASE y[2][1] = "house"
    <3>1. y[1] \in Players /\ y[2][2] \in HouseSlots /\ (y[1] # p \/ y[2][2] # i)
      BY <2>1 DEF AllSlots
    <3> QED
      BY <1>4, <2>1, <3>1 DEF At
  <2>2. CASE y[2][1] # "house"
    BY <1>2, <2>2 DEF At
  <2> QED
    BY <2>1, <2>2
<1>6. Hung(t, P, kind) \in Nat
  BY HangingIsFinite
<1>7. CASE p \in P
  <2>1. x \in P \X AllSlots /\ At(u, x) = new /\ At(t, x) = t.house[p][i]
    BY <1>4, <1>7 DEF At, AllSlots
  <2>2. Hung(u, P, kind) = Hung(t, P, kind) - One(At(t, x), kind) + One(At(u, x), kind)
    BY <1>5, <2>1, OneSlot
  <2> QED
    BY <1>1, <1>6, <1>7, <2>1, <2>2 DEF One
<1>8. CASE p \notin P
  <2>1. Hanging(u, P, kind) = Hanging(t, P, kind)
    BY <1>5, <1>8 DEF Hanging
  <2> QED
    BY <1>1, <1>6, <1>8, <2>1 DEF Hung
<1> QED
  BY <1>7, <1>8

LEMMA OnHimHung ==
  ASSUME NEW t \in Things, NEW P \in SUBSET Players, IsFiniteSet(P), NEW p \in Players,
         NEW i \in GearSlots, NEW new, NEW kind
  PROVE  Hung(OnHim(t, p, i, new), P, kind)
           = Hung(t, P, kind) + IF p \in P THEN One(new, kind) - One(t.gear[p][i], kind) ELSE 0
<1> DEFINE x == <<p, <<"gear", i>>>>
<1>1. PICK u : u = OnHim(t, p, i, new)
  OBVIOUS
<1>2. u.house = t.house /\ u.gear = [t.gear EXCEPT ![p][i] = new]
  BY <1>1 DEF OnHim, Things
<1>3. t.gear \in Gears
  BY DEF Things
<1>4. /\ u.gear[p][i] = new
      /\ \A q \in Players, j \in GearSlots : q # p \/ j # i => u.gear[q][j] = t.gear[q][j]
  BY <1>2, <1>3 DEF Gears
<1>5. \A y \in P \X AllSlots : y # x => At(u, y) = At(t, y)
  <2> SUFFICES ASSUME NEW y \in P \X AllSlots, y # x PROVE At(u, y) = At(t, y)
    OBVIOUS
  <2>1. CASE y[2][1] = "house"
    BY <1>2, <2>1 DEF At
  <2>2. CASE y[2][1] # "house"
    <3>1. y[1] \in Players /\ y[2][2] \in GearSlots /\ (y[1] # p \/ y[2][2] # i)
      BY <2>2 DEF AllSlots
    <3> QED
      BY <1>4, <2>2, <3>1 DEF At
  <2> QED
    BY <2>1, <2>2
<1>6. Hung(t, P, kind) \in Nat
  BY HangingIsFinite
<1>7. CASE p \in P
  <2>1. x \in P \X AllSlots /\ At(u, x) = new /\ At(t, x) = t.gear[p][i]
    BY <1>4, <1>7 DEF At, AllSlots
  <2>2. Hung(u, P, kind) = Hung(t, P, kind) - One(At(t, x), kind) + One(At(u, x), kind)
    BY <1>5, <2>1, OneSlot
  <2> QED
    BY <1>1, <1>6, <1>7, <2>1, <2>2 DEF One
<1>8. CASE p \notin P
  <2>1. Hanging(u, P, kind) = Hanging(t, P, kind)
    BY <1>5, <1>8 DEF Hanging
  <2> QED
    BY <1>1, <1>6, <1>8, <2>1 DEF Hung
<1> QED
  BY <1>7, <1>8

\* Nobody in the count, nothing to count.
Of(P, p, n) == IF p \in P THEN n ELSE 0

LEMMA OneType == \A a, b : One(a, b) \in {0, 1}
BY DEF One

\* The helpers take one from somebody, or give him one.
LEMMA TakenHung ==
  ASSUME Furnished, NEW P \in SUBSET Players, IsFiniteSet(P), NEW p \in Players,
         NEW k \in Kinds, Owns(p, k), NEW kind \in Kinds
  PROVE  /\ Taken(p, k) \in Things
         /\ Hung(Taken(p, k), P, kind) = Hung(Now, P, kind) - Of(P, p, One(k, kind))
<1>1. Now \in Things /\ Now.house = house /\ Now.gear = gear /\ Hung(Now, P, kind) \in Nat
  BY HangingIsFinite DEF Furnished, Now
<1>2. Taken(p, k) \in Things
  BY TakenSound DEF Sound
<1>3. One(None, kind) = 0
  BY KindFacts DEF One
<1>4. CASE GearHolding(p, k) # {}
  <2> DEFINE i == Least(GearHolding(p, k))
  <2>1. GearHolding(p, k) \in SUBSET Nat
    BY KindFacts DEF GearHolding
  <2>2. i \in GearHolding(p, k)
    BY <1>4, <2>1, LeastOf
  <2>3. i \in GearSlots /\ gear[p][i] = k
    BY <2>2 DEF GearHolding
  <2>4. Taken(p, k) = OnHim(Now, p, i, None)
    BY <1>4 DEF Taken
  <2> HIDE DEF i
  <2>5. Hung(OnHim(Now, p, i, None), P, kind)
          = Hung(Now, P, kind) + IF p \in P THEN One(None, kind) - One(Now.gear[p][i], kind) ELSE 0
    BY <1>1, <2>3, OnHimHung
  <2> QED
    BY <1>1, <1>2, <1>3, <2>3, <2>4, <2>5, OneType DEF Of
<1>5. CASE GearHolding(p, k) = {}
  <2> DEFINE i == Least(SlotsHolding(p, k))
  <2>1. SlotsHolding(p, k) \in SUBSET Nat /\ SlotsHolding(p, k) # {}
    BY <1>5, KindFacts DEF SlotsHolding, Owns
  <2>2. i \in SlotsHolding(p, k)
    BY <2>1, LeastOf
  <2>3. i \in HouseSlots /\ house[p][i] = k
    BY <2>2 DEF SlotsHolding
  <2>4. Taken(p, k) = InHouse(Now, p, i, None)
    BY <1>5 DEF Taken
  <2> HIDE DEF i
  <2>5. Hung(InHouse(Now, p, i, None), P, kind)
          = Hung(Now, P, kind) + IF p \in P THEN One(None, kind) - One(Now.house[p][i], kind) ELSE 0
    BY <1>1, <2>3, InHouseHung
  <2> QED
    BY <1>1, <1>2, <1>3, <2>3, <2>4, <2>5, OneType DEF Of
<1> QED
  BY <1>4, <1>5

LEMMA OnHimThings ==
  ASSUME NEW t \in Things, NEW p \in Players, NEW i \in GearSlots, NEW k \in Kinds \cup {None}
  PROVE  OnHim(t, p, i, k) \in Things
<1>1. t.house \in Houses /\ t.gear \in Gears
  BY DEF Things
<1>2. [t.gear[p] EXCEPT ![i] = k] \in [GearSlots -> Kinds \cup {None}]
  BY <1>1 DEF Gears
<1>3. [t.gear EXCEPT ![p][i] = k] \in Gears
  BY <1>1, <1>2 DEF Gears
<1> DEFINE g == [t.gear EXCEPT ![p][i] = k]
<1>4. OnHim(t, p, i, k) = [t EXCEPT !.gear = g]
  BY DEF OnHim
<1> HIDE DEF g
<1> QED
  BY <1>1, <1>3, <1>4 DEF Things, g

LEMMA InHouseThings ==
  ASSUME NEW t \in Things, NEW p \in Players, NEW i \in HouseSlots, NEW k \in Slot
  PROVE  InHouse(t, p, i, k) \in Things
<1>1. t.house \in Houses /\ t.gear \in Gears
  BY DEF Things
<1>2. [t.house[p] EXCEPT ![i] = k] \in [HouseSlots -> Slot]
  BY <1>1 DEF Houses
<1>3. [t.house EXCEPT ![p][i] = k] \in Houses
  BY <1>1, <1>2 DEF Houses
<1> DEFINE h == [t.house EXCEPT ![p][i] = k]
<1>4. InHouse(t, p, i, k) = [t EXCEPT !.house = h]
  BY DEF InHouse
<1> HIDE DEF h
<1> QED
  BY <1>1, <1>3, <1>4 DEF Things, h

LEMMA PutOnHung ==
  ASSUME NEW t \in Things, NEW P \in SUBSET Players, IsFiniteSet(P), NEW p \in Players,
         NEW k \in Kinds, Free(t.gear[p], CarriedLimit) # {}, NEW kind \in Kinds
  PROVE  /\ PutOn(t, p, k) \in Things
         /\ Hung(PutOn(t, p, k), P, kind) = Hung(t, P, kind) + Of(P, p, One(k, kind))
<1> DEFINE i == Least(Free(t.gear[p], CarriedLimit))
<1>1. DOMAIN t.gear[p] = GearSlots
  BY DEF Things, Gears
<1>2. Free(t.gear[p], CarriedLimit) \in SUBSET Nat
  BY <1>1, KindFacts DEF Free
<1>3. i \in Free(t.gear[p], CarriedLimit)
  BY <1>2, LeastOf
<1>4. i \in GearSlots /\ t.gear[p][i] = None
  BY <1>1, <1>3 DEF Free
<1>5. PutOn(t, p, k) = OnHim(t, p, i, k)
  BY DEF PutOn
<1> HIDE DEF i
<1>6. OnHim(t, p, i, k) \in Things
  BY <1>4, OnHimThings
<1>7. Hung(OnHim(t, p, i, k), P, kind)
        = Hung(t, P, kind) + IF p \in P THEN One(k, kind) - One(t.gear[p][i], kind) ELSE 0
  BY <1>4, OnHimHung
<1>8. One(None, kind) = 0
  BY KindFacts DEF One
<1> QED
  BY <1>4, <1>5, <1>6, <1>7, <1>8, OneType, HangingIsFinite DEF Of

LEMMA PutInHouseHung ==
  ASSUME NEW t \in Things, NEW P \in SUBSET Players, IsFiniteSet(P), NEW p \in Players,
         NEW k \in Kinds, NEW limit, Free(t.house[p], limit) # {}, NEW kind \in Kinds
  PROVE  /\ PutInHouse(t, p, k, limit) \in Things
         /\ Hung(PutInHouse(t, p, k, limit), P, kind) = Hung(t, P, kind) + Of(P, p, One(k, kind))
<1> DEFINE i == Least(Free(t.house[p], limit))
<1>1. i \in HouseSlots /\ t.house[p][i] = None
  BY FreeSlot
<1>2. PutInHouse(t, p, k, limit) = InHouse(t, p, i, k)
  BY DEF PutInHouse
<1> HIDE DEF i
<1>3. InHouse(t, p, i, k) \in Things
  BY <1>1, InHouseThings DEF Slot
<1>4. Hung(InHouse(t, p, i, k), P, kind)
        = Hung(t, P, kind) + IF p \in P THEN One(k, kind) - One(t.house[p][i], kind) ELSE 0
  BY <1>1, InHouseHung
<1>5. One(None, kind) = 0
  BY KindFacts DEF One
<1> QED
  BY <1>1, <1>2, <1>3, <1>4, <1>5, OneType, HangingIsFinite DEF Of

\* An explosion takes at most one, and no 🎈.
LEMMA BlownHung ==
  ASSUME NEW t \in Things, NEW P \in SUBSET Players, IsFiniteSet(P), NEW p \in Players,
         NEW u \in BlownOnHim(t, p) \cup BlownInHouse(t, p), NEW kind \in Kinds
  PROVE  /\ u \in Things
         /\ Hung(u, P, kind) <= Hung(t, P, kind)
         /\ kind \in Untouchable => Hung(u, P, kind) = Hung(t, P, kind)
<1>0. /\ Hung(t, P, kind) \in Nat /\ One(None, kind) = 0
      /\ DOMAIN t.gear[p] = GearSlots /\ DOMAIN t.house[p] = HouseSlots
  BY KindFacts, HangingIsFinite DEF One, Things, Gears, Houses
<1>1. CASE u = t
  BY <1>0, <1>1
<1>2. ASSUME NEW i \in Exposed(t.gear[p]), u = OnHim(t, p, i, None)
      PROVE  /\ u \in Things
             /\ Hung(u, P, kind) <= Hung(t, P, kind)
             /\ kind \in Untouchable => Hung(u, P, kind) = Hung(t, P, kind)
  <2>1. i \in GearSlots /\ t.gear[p][i] \notin Untouchable
    BY <1>0 DEF Exposed
  <2>2. Hung(OnHim(t, p, i, None), P, kind)
          = Hung(t, P, kind) + IF p \in P THEN One(None, kind) - One(t.gear[p][i], kind) ELSE 0
    BY <2>1, OnHimHung
  <2>3. kind \in Untouchable => One(t.gear[p][i], kind) = 0
    BY <2>1 DEF One
  <2>4. u \in Things
    BY <1>2, <2>1, OnHimThings
  <2> QED
    BY <1>0, <1>2, <2>2, <2>3, <2>4, OneType
<1>3. ASSUME NEW i \in Exposed(t.house[p]), u = InHouse(t, p, i, None)
      PROVE  /\ u \in Things
             /\ Hung(u, P, kind) <= Hung(t, P, kind)
             /\ kind \in Untouchable => Hung(u, P, kind) = Hung(t, P, kind)
  <2>1. i \in HouseSlots /\ t.house[p][i] \notin Untouchable
    BY <1>0 DEF Exposed
  <2>2. Hung(InHouse(t, p, i, None), P, kind)
          = Hung(t, P, kind) + IF p \in P THEN One(None, kind) - One(t.house[p][i], kind) ELSE 0
    BY <2>1, InHouseHung
  <2>3. kind \in Untouchable => One(t.house[p][i], kind) = 0
    BY <2>1 DEF One
  <2>4. u \in Things
    BY <1>3, <2>1, InHouseThings DEF Slot
  <2> QED
    BY <1>0, <1>3, <2>2, <2>3, <2>4, OneType
<1> QED
  BY <1>1, <1>2, <1>3 DEF BlownOnHim, BlownInHouse

\* A 🏴‍☠️ takes one from a house and puts it on its owner, and no 🎈.
LEMMA BoardedHung ==
  ASSUME Furnished, NEW t \in Things, t.house = house, NEW P \in SUBSET Players, IsFiniteSet(P),
         NEW p \in Players, NEW q \in Players, NEW u \in Boarded(t, p, q), NEW kind \in Kinds
  PROVE  /\ u \in Things
         /\ P = Players => Hung(u, P, kind) = Hung(t, P, kind)
         /\ kind \in Untouchable => Hung(u, P, kind) = Hung(t, P, kind)
<1>0. Hung(t, P, kind) \in Nat /\ One(None, kind) = 0
  BY KindFacts, HangingIsFinite DEF One
<1>1. CASE u = t
  BY <1>1
<1>2. CASE u # t
  <2>1. PICK i \in Boardable(q) : u = PutOn(InHouse(t, q, i, None), p, house[q][i])
    BY <1>2 DEF Boarded
  <2>2. /\ i \in HouseSlots /\ ~IsChild(q, i) /\ house[q][i] # None /\ house[q][i] \in Slot
        /\ house[q][i] \notin Untouchable
    BY DEF Boardable, Furnished, Now, Things, Houses
  <2>3. house[q][i] # Kid
    BY <2>2 DEF Furnished, ChildrenInTheirSlots, EachInItsSlot, IsChild
  <2>4. house[q][i] \in Kinds
    BY <2>2, <2>3 DEF Slot
  <2>5. PICK v : v = InHouse(t, q, i, None)
    OBVIOUS
  <2>6. v \in Things /\ v.gear = t.gear
    BY <2>2, <2>5, InHouseThings DEF Slot, InHouse, Things
  <2>7. Hung(v, P, kind) = Hung(t, P, kind) + IF q \in P THEN One(None, kind) - One(house[q][i], kind) ELSE 0
    BY <2>2, <2>5, InHouseHung
  <2>8. Free(v.gear[p], CarriedLimit) # {}
    BY <1>2, <2>6 DEF Boarded
  <2>9. PICK k \in Kinds : k = house[q][i]
    BY <2>4
  <2>10. u = PutOn(v, p, k)
    BY <2>1, <2>5, <2>9
  <2>11. PutOn(v, p, k) \in Things /\ Hung(PutOn(v, p, k), P, kind) = Hung(v, P, kind) + Of(P, p, One(k, kind))
    BY <2>6, <2>8, PutOnHung
  <2>12. kind \in Untouchable => One(k, kind) = 0
    BY <2>2, <2>9 DEF One
  <2> QED
    BY <1>0, <2>7, <2>9, <2>10, <2>11, <2>12, OneType DEF Of
<1> QED
  BY <1>1, <1>2

\* What makes room for an emoji takes its slot.
LEMMA SwappedHung ==
  ASSUME Furnished, NEW P \in SUBSET Players, IsFiniteSet(P), NEW p \in Players,
         NEW from \in HouseSlots, NEW to \in GearSlots, house[p][from] \in Kinds, NEW kind \in Kinds
  PROVE  Swapped(p, from, to) \in Things /\ Hung(Swapped(p, from, to), P, kind) = Hung(Now, P, kind)
<1>1. /\ Now \in Things /\ Now.house = house /\ Now.gear = gear /\ Hung(Now, P, kind) \in Nat
      /\ gear[p][to] \in Kinds \cup {None}
  BY HangingIsFinite DEF Furnished, Now, Things, Gears
<1>2. PICK v : v = InHouse(Now, p, from, gear[p][to])
  OBVIOUS
<1>3. v \in Things /\ v.gear = gear
  <2>1. gear[p][to] \in Slot
    BY <1>1 DEF Slot
  <2>2. v \in Things
    BY <1>1, <1>2, <2>1, InHouseThings
  <2> QED
    BY <1>1, <1>2, <2>2 DEF InHouse, Things
<1>4. Hung(v, P, kind)
        = Hung(Now, P, kind) + IF p \in P THEN One(gear[p][to], kind) - One(house[p][from], kind) ELSE 0
  BY <1>1, <1>2, InHouseHung
<1>5. Hung(OnHim(v, p, to, house[p][from]), P, kind)
        = Hung(v, P, kind) + IF p \in P THEN One(house[p][from], kind) - One(gear[p][to], kind) ELSE 0
  BY <1>3, OnHimHung
<1>6. OnHim(v, p, to, house[p][from]) \in Things
  BY <1>3, OnHimThings
<1>7. Swapped(p, from, to) = OnHim(v, p, to, house[p][from])
  BY <1>2 DEF Swapped
<1> QED
  BY <1>1, <1>4, <1>5, <1>6, <1>7, OneType

\* The places of some slots go from the first to the last, one each.
LEMMA PlacesAre ==
  ASSUME NEW S \in SUBSET Nat, IsFiniteSet(S)
  PROVE  /\ \A i \in S : Place(S, i) \in 1 .. Cardinality(S)
         /\ \A i, j \in S : Place(S, i) = Place(S, j) => i = j
         /\ \A n \in 1 .. Cardinality(S) : \E i \in S : Place(S, i) = n
<1> DEFINE UpTo(i) == {j \in S : j <= i}
           T == 1 .. Cardinality(S)
<1>1. \A i : UpTo(i) \in SUBSET S /\ Place(S, i) = Cardinality(UpTo(i))
  BY DEF Place
<1>0. Cardinality(S) \in Nat /\ \A i \in S : i \in Nat
  BY FS_CardinalityType
<1>2. ASSUME NEW i
      PROVE  IsFiniteSet(UpTo(i)) /\ Place(S, i) \in Nat /\ Place(S, i) <= Cardinality(S)
  <2>1. UpTo(i) \in SUBSET S /\ Place(S, i) = Cardinality(UpTo(i))
    BY <1>1
  <2> HIDE DEF UpTo
  <2> QED
    BY <2>1, FS_Subset, FS_CardinalityType
<1>3. \A i \in S : i \in UpTo(i)
  OBVIOUS
<1>4. ASSUME NEW i \in S PROVE Place(S, i) \in T
  <2>1. Place(S, i) # 0
    <3>1. UpTo(i) # {}
      BY <1>3
    <3> QED
      BY <1>1, <1>2, <3>1, FS_EmptySet
  <2>2. Place(S, i) \in Nat /\ Place(S, i) <= Cardinality(S)
    BY <1>2
  <2> QED
    BY <1>0, <2>1, <2>2
<1>5. ASSUME NEW i \in S, NEW j \in S, i < j PROVE Place(S, i) < Place(S, j)
  <2>1. UpTo(i) \in SUBSET UpTo(j) /\ j \in UpTo(j) /\ j \notin UpTo(i)
    <3>1. i \in Nat /\ j \in Nat
      BY <1>0
    <3>2. \A k \in S : k <= i => k <= j
      BY <1>0, <1>5, <3>1
    <3>3. ~(j <= i) /\ j <= j
      BY <1>5, <3>1
    <3> QED
      BY <3>2, <3>3
  <2> HIDE DEF UpTo
  <2>2. UpTo(i) # UpTo(j)
    BY <2>1
  <2>3. Cardinality(UpTo(i)) <= Cardinality(UpTo(j)) /\ Cardinality(UpTo(i)) # Cardinality(UpTo(j))
    BY <1>2, <2>1, <2>2, FS_Subset
  <2> QED
    BY <1>1, <1>2, <2>3
<1>6. \A i, j \in S : Place(S, i) = Place(S, j) => i = j
  <2> SUFFICES ASSUME NEW i \in S, NEW j \in S, i # j PROVE Place(S, i) # Place(S, j)
    OBVIOUS
  <2>1. i < j \/ j < i
    BY <1>0
  <2>2. Place(S, i) < Place(S, j) \/ Place(S, j) < Place(S, i)
    BY <1>5, <2>1
  <2>3. Place(S, i) \in Nat /\ Place(S, j) \in Nat
    BY <1>2
  <2> QED
    BY <2>2, <2>3
<1> DEFINE f == [i \in S |-> Place(S, i)]
<1>7. f \in Injection(S, T)
  <2>1. f \in [S -> T] /\ \A i, j \in S : f[i] = f[j] => i = j
    BY <1>4, <1>6
  <2> HIDE DEF f, T
  <2> QED
    BY <2>1 DEF Injection, IsInjective
<1>8. IsFiniteSet(T) /\ Cardinality(T) = Cardinality(S)
  <2>1. PICK n \in Nat : n = Cardinality(S)
    BY <1>0
  <2>2. IsFiniteSet(1 .. n) /\ Cardinality(1 .. n) = IF 1 > n THEN 0 ELSE n - 1 + 1
    BY FS_Interval
  <2> QED
    BY <2>1, <2>2
<1>9. f \in Surjection(S, T)
  <2> HIDE DEF f, T
  <2> QED
    BY <1>7, <1>8, FS_Injection
<1>10. \A n \in T : \E i \in S : f[i] = n
  <2> HIDE DEF f, T
  <2> QED
    BY <1>9 DEF Surjection
<1> QED
  BY <1>4, <1>6, <1>10

\* Two slots of a house change places.
LEMMA MovedHung ==
  ASSUME Furnished, NEW P \in SUBSET Players, IsFiniteSet(P), NEW p \in Players,
         NEW from \in HouseSlots, NEW to \in HouseSlots, from # to, NEW kind \in Kinds,
         house' = [house EXCEPT ![p][from] = house[p][to], ![p][to] = house[p][from]],
         gear' = gear
  PROVE  Hung(Now', P, kind) = Hung(Now, P, kind)
<1>1. /\ Now \in Things /\ Now.house = house /\ Now.gear = gear /\ Hung(Now, P, kind) \in Nat
      /\ house \in Houses /\ house[p][to] \in Slot
  BY HangingIsFinite DEF Furnished, Now, Things, Houses
<1>2. PICK v : v = InHouse(Now, p, from, house[p][to])
  OBVIOUS
<1>3. PICK h : h = [house EXCEPT ![p][from] = house[p][to]]
  OBVIOUS
<1>4. v \in Things /\ v.gear = gear /\ v.house = h
  BY <1>1, <1>2, <1>3, InHouseThings DEF InHouse, Things
<1>5. h[p][to] = house[p][to]
  BY <1>1, <1>3 DEF Houses
<1>6. Hung(v, P, kind)
        = Hung(Now, P, kind) + IF p \in P THEN One(house[p][to], kind) - One(house[p][from], kind) ELSE 0
  BY <1>1, <1>2, InHouseHung
<1>7. PICK w : w = InHouse(v, p, to, house[p][from])
  OBVIOUS
<1>8. Hung(w, P, kind)
        = Hung(v, P, kind) + IF p \in P THEN One(house[p][from], kind) - One(house[p][to], kind) ELSE 0
  BY <1>4, <1>5, <1>7, InHouseHung
<1>9. w.gear = gear /\ w.house = [h EXCEPT ![p][to] = house[p][from]] /\ w = [house |-> w.house, gear |-> w.gear]
  BY <1>4, <1>7 DEF InHouse, Things
<1>10. house' = [h EXCEPT ![p][to] = house[p][from]]
  BY <1>3
<1>11. Now' = w
  BY <1>9, <1>10 DEF Now
<1> QED
  BY <1>1, <1>6, <1>8, <1>11, OneType

-----------------------------------------------------------------------------
(* An old save is sorted out. *)

\* The slot on p where what hangs in one of his house goes.
GoesTo(p, i, j) ==
  /\ i \in Misplaced(p) /\ j \in Free(gear[p], CarriedLimit)
  /\ Place(Misplaced(p), i) = Place(Free(gear[p], CarriedLimit), j)

LEMMA SlotsSorted ==
  ASSUME Furnished, SortOut, NEW p \in Players
  PROVE  /\ \A i, j : GoesTo(p, i, j) => /\ i \in HouseSlots /\ j \in GearSlots
                                         /\ gear'[p][j] = house[p][i] /\ house'[p][i] = gear[p][j]
         /\ \A i, j, k : GoesTo(p, i, j) /\ GoesTo(p, i, k) => j = k
         /\ \A i, j, k : GoesTo(p, i, j) /\ GoesTo(p, k, j) => i = k
         /\ \A i \in HouseSlots : (\A j : ~GoesTo(p, i, j)) => house'[p][i] = house[p][i]
         /\ \A j \in GearSlots : (\A i : ~GoesTo(p, i, j)) => gear'[p][j] = gear[p][j]
<1> DEFINE M == Misplaced(p)
           F == Free(gear[p], CarriedLimit)
           next(j) == {i \in M : Place(M, i) = Place(F, j)}
<1>1. /\ house' = [q \in Players |-> [i \in HouseSlots |->
                     IF i \in Misplaced(q) /\ Moves(q, i) THEN None ELSE house[q][i]]]
      /\ house \in Houses /\ gear \in Gears
  BY DEF SortOut, Furnished, Now, Things
<1>2. \A j \in GearSlots : gear'[p][j] = IF gear[p][j] # None THEN gear[p][j]
                                         ELSE IF next(j) = {} THEN None ELSE house[p][Least(next(j))]
  BY DEF SortOut
<1>3. \A i \in HouseSlots : house'[p][i] = IF i \in M /\ Moves(p, i) THEN None ELSE house[p][i]
  BY <1>1
<1>4. /\ M \in SUBSET Nat /\ M \subseteq HouseSlots /\ F \in SUBSET Nat /\ F \subseteq GearSlots
      /\ IsFiniteSet(M) /\ IsFiniteSet(F)
      /\ \A j \in GearSlots : j \in F <=> gear[p][j] = None
  <2>1. DOMAIN gear[p] = GearSlots /\ \A j \in GearSlots : j <= CarriedLimit
    BY <1>1, ConstantsOK DEF Gears, GearSlots
  <2>2. M \subseteq HouseSlots /\ F \subseteq GearSlots
    BY <2>1 DEF Misplaced, Free
  <2> QED
    BY <2>1, <2>2, SlotsAreFinite, FS_Subset, KindFacts DEF Free
<1>5. \A i : Moves(p, i) <=> Place(M, i) <= Cardinality(F)
  BY DEF Moves
<1> HIDE DEF M, F
<1>6. /\ \A i \in M : Place(M, i) \in 1 .. Cardinality(M)
      /\ \A i, j \in M : Place(M, i) = Place(M, j) => i = j
  BY <1>4, PlacesAre
<1>7. /\ \A i \in F : Place(F, i) \in 1 .. Cardinality(F)
      /\ \A i, j \in F : Place(F, i) = Place(F, j) => i = j
      /\ \A n \in 1 .. Cardinality(F) : \E i \in F : Place(F, i) = n
      /\ Cardinality(F) \in Nat /\ Cardinality(M) \in Nat
  BY <1>4, PlacesAre, FS_CardinalityType
<1>8. \A i, j : GoesTo(p, i, j) <=> i \in M /\ j \in F /\ Place(M, i) = Place(F, j)
  BY DEF GoesTo, M, F
<1>9. ASSUME NEW i, NEW j, GoesTo(p, i, j)
      PROVE  /\ i \in HouseSlots /\ j \in GearSlots
             /\ gear'[p][j] = house[p][i] /\ house'[p][i] = gear[p][j]
  <2>1. i \in M /\ j \in F /\ Place(M, i) = Place(F, j) /\ i \in HouseSlots /\ j \in GearSlots
    BY <1>4, <1>8, <1>9
  <2>2. next(j) = {i}
    BY <1>6, <2>1
  <2>3. Least(next(j)) = i
    <3>1. next(j) \in SUBSET Nat
      BY <1>4
    <3> QED
      BY <2>2, <3>1, LeastOf
  <2> HIDE DEF next
  <2>4. gear[p][j] = None /\ gear'[p][j] = house[p][i]
    BY <1>2, <1>4, <2>1, <2>2, <2>3
  <2>5. Moves(p, i)
    BY <1>5, <1>7, <2>1
  <2> QED
    BY <1>3, <2>1, <2>4, <2>5
<1>10. ASSUME NEW i \in HouseSlots, \A j : ~GoesTo(p, i, j) PROVE house'[p][i] = house[p][i]
  <2>1. ~(i \in M /\ Moves(p, i))
    <3> SUFFICES ASSUME i \in M, Moves(p, i) PROVE FALSE
      OBVIOUS
    <3>1. Place(M, i) \in 1 .. Cardinality(F)
      BY <1>5, <1>6, <1>7
    <3> QED
      BY <1>7, <1>8, <1>10, <3>1
  <2> QED
    BY <1>3, <2>1
<1>11. ASSUME NEW j \in GearSlots, \A i : ~GoesTo(p, i, j) PROVE gear'[p][j] = gear[p][j]
  <2>1. CASE gear[p][j] # None
    BY <1>2, <2>1
  <2>2. CASE gear[p][j] = None
    <3>1. next(j) = {}
      BY <1>4, <1>8, <1>11, <2>2
    <3> QED
      BY <1>2, <2>2, <3>1
  <2> QED
    BY <2>1, <2>2
<1> QED
  BY <1>6, <1>7, <1>8, <1>9, <1>10, <1>11

LEMMA SortedHung ==
  ASSUME Furnished, SortOut, NEW P \in SUBSET Players, IsFiniteSet(P), NEW kind
  PROVE  Hung(Now', P, kind) = Hung(Now, P, kind)
<1> DEFINE X == P \X AllSlots
           In(p, i) == <<p, <<"house", i>>>>
           On(p, j) == <<p, <<"gear", j>>>>
           Out == {x \in X \X X : \E p \in P, i \in HouseSlots, j \in GearSlots :
                                    GoesTo(p, i, j) /\ x = <<In(p, i), On(p, j)>>}
           Back == {x \in X \X X : \E p \in P, i \in HouseSlots, j \in GearSlots :
                                     GoesTo(p, i, j) /\ x = <<On(p, j), In(p, i)>>}
           R == Out \cup Back
<1>1. PICK u : u = Now'
  OBVIOUS
<1>2. u.house = house' /\ u.gear = gear' /\ Now.house = house /\ Now.gear = gear
  BY <1>1 DEF Now
<1>3. /\ \A p \in P, i \in HouseSlots : In(p, i) \in X /\ At(u, In(p, i)) = house'[p][i] /\ At(Now, In(p, i)) = house[p][i]
      /\ \A p \in P, j \in GearSlots : On(p, j) \in X /\ At(u, On(p, j)) = gear'[p][j] /\ At(Now, On(p, j)) = gear[p][j]
  BY <1>2 DEF AllSlots, At
<1>4. \A x \in X : \/ \E p \in P, i \in HouseSlots : x = In(p, i)
                   \/ \E p \in P, j \in GearSlots : x = On(p, j)
  BY DEF AllSlots
<1>5. \A p, q, i, j : /\ In(p, i) # On(q, j)
                      /\ In(p, i) = In(q, j) => p = q /\ i = j
                      /\ On(p, i) = On(q, j) => p = q /\ i = j
  OBVIOUS
<1> HIDE DEF X, In, On
<1>6. \A x, y : <<x, y>> \in Out <=> \E p \in P, i \in HouseSlots, j \in GearSlots :
                                       GoesTo(p, i, j) /\ x = In(p, i) /\ y = On(p, j)
  BY <1>3
<1>7. \A x, y : <<x, y>> \in Back <=> \E p \in P, i \in HouseSlots, j \in GearSlots :
                                        GoesTo(p, i, j) /\ x = On(p, j) /\ y = In(p, i)
  BY <1>3
<1>8. R \subseteq X \X X
  OBVIOUS
<1> HIDE DEF Out, Back
<1>9. \A x, y : <<x, y>> \in R => <<y, x>> \in R
  BY <1>6, <1>7
<1>10. \A x, y, z : <<x, y>> \in R /\ <<x, z>> \in R => y = z
  <2> SUFFICES ASSUME NEW x, NEW y, NEW z, <<x, y>> \in R, <<x, z>> \in R PROVE y = z
    OBVIOUS
  <2>1. CASE <<x, y>> \in Out /\ <<x, z>> \in Out
    <3>1. PICK p \in P, i \in HouseSlots, j \in GearSlots : GoesTo(p, i, j) /\ x = In(p, i) /\ y = On(p, j)
      BY <1>6, <2>1
    <3>2. PICK q \in P, k \in HouseSlots, l \in GearSlots : GoesTo(q, k, l) /\ x = In(q, k) /\ z = On(q, l)
      BY <1>6, <2>1
    <3>3. p = q /\ i = k
      <4>1. In(p, i) = In(q, k)
        BY <3>1, <3>2
      <4> QED
        BY <4>1 DEF In
    <3>4. j = l
      BY <3>1, <3>2, <3>3, SlotsSorted
    <3> QED
      BY <3>1, <3>2, <3>3, <3>4
  <2>2. CASE <<x, y>> \in Back /\ <<x, z>> \in Back
    <3>1. PICK p \in P, i \in HouseSlots, j \in GearSlots : GoesTo(p, i, j) /\ x = On(p, j) /\ y = In(p, i)
      BY <1>7, <2>2
    <3>2. PICK q \in P, k \in HouseSlots, l \in GearSlots : GoesTo(q, k, l) /\ x = On(q, l) /\ z = In(q, k)
      BY <1>7, <2>2
    <3>3. p = q /\ j = l
      <4>1. On(p, j) = On(q, l)
        BY <3>1, <3>2
      <4> QED
        BY <4>1 DEF On
    <3>4. i = k
      BY <3>1, <3>2, <3>3, SlotsSorted
    <3> QED
      BY <3>1, <3>2, <3>3, <3>4
  <2>3. ~(<<x, y>> \in Out /\ <<x, z>> \in Back) /\ ~(<<x, y>> \in Back /\ <<x, z>> \in Out)
    BY <1>5, <1>6, <1>7
  <2> QED
    BY <2>1, <2>2, <2>3
<1>11. \A x, y : <<x, y>> \in R => At(u, x) = At(Now, y)
  <2>1. ASSUME NEW p \in P, NEW i \in HouseSlots, NEW j \in GearSlots, GoesTo(p, i, j)
        PROVE  At(u, In(p, i)) = At(Now, On(p, j)) /\ At(u, On(p, j)) = At(Now, In(p, i))
    BY <1>3, <2>1, SlotsSorted
  <2> QED
    BY <1>6, <1>7, <2>1
<1>12. ASSUME NEW x \in X, \A y : <<x, y>> \notin R PROVE At(u, x) = At(Now, x)
  <2>1. CASE \E p \in P, i \in HouseSlots : x = In(p, i)
    <3>1. PICK p \in P, i \in HouseSlots : x = In(p, i)
      BY <2>1
    <3>2. ASSUME NEW j, GoesTo(p, i, j) PROVE FALSE
      <4>1. j \in GearSlots
        BY <3>2, SlotsSorted
      <4>2. <<x, On(p, j)>> \in Out
        BY <1>6, <3>1, <3>2, <4>1
      <4> QED
        BY <1>12, <4>2
    <3>3. house'[p][i] = house[p][i]
      BY <3>2, SlotsSorted
    <3> QED
      BY <1>3, <3>1, <3>3
  <2>2. CASE \E p \in P, j \in GearSlots : x = On(p, j)
    <3>1. PICK p \in P, j \in GearSlots : x = On(p, j)
      BY <2>2
    <3>2. ASSUME NEW i, GoesTo(p, i, j) PROVE FALSE
      <4>1. i \in HouseSlots
        BY <3>2, SlotsSorted
      <4>2. <<x, In(p, i)>> \in Back
        BY <1>7, <3>1, <3>2, <4>1
      <4> QED
        BY <1>12, <4>2
    <3>3. gear'[p][j] = gear[p][j]
      BY <3>2, SlotsSorted
    <3> QED
      BY <1>3, <3>1, <3>3
  <2> QED
    BY <1>4, <2>1, <2>2
<1> HIDE DEF R
<1>13. Hung(u, P, kind) = Hung(Now, P, kind)
  BY <1>8, <1>9, <1>10, <1>11, <1>12, Paired DEF X
<1> QED
  BY <1>1, <1>13

-----------------------------------------------------------------------------
(* What the steps do to the count. *)

LEMMA Becomes == ASSUME NEW t \in Things, Become(t) PROVE Now' = t
BY DEF Become, Now, Things

LEMMA SameHung ==
  ASSUME UNCHANGED things, NEW P, NEW kind PROVE Hung(Now', P, kind) = Hung(Now, P, kind)
<1>1. Now' = Now
  BY DEF things, Now
<1> QED
  BY <1>1

\* Slots with no emoji may change.
LEMMA SameEmoji ==
  ASSUME Furnished, NEW P \in SUBSET Players, NEW kind \in Kinds, gear' = gear,
         \A p \in Players, i \in HouseSlots :
           house'[p][i] = house[p][i] \/ (house[p][i] \in {None, Kid} /\ house'[p][i] \in {None, Kid})
  PROVE  Hung(Now', P, kind) = Hung(Now, P, kind)
<1>1. PICK u : u = Now'
  OBVIOUS
<1>2. u.house = house' /\ u.gear = gear /\ Now.house = house /\ Now.gear = gear
  BY <1>1 DEF Now
<1>3. kind \notin {None, Kid}
  BY KindFacts
<1>4. ASSUME NEW x \in P \X AllSlots PROVE At(u, x) = kind <=> At(Now, x) = kind
  <2>1. CASE x[2][1] = "house"
    <3>1. x[1] \in Players /\ x[2][2] \in HouseSlots
      BY <2>1 DEF AllSlots
    <3>2. At(u, x) = house'[x[1]][x[2][2]] /\ At(Now, x) = house[x[1]][x[2][2]]
      BY <1>2, <2>1 DEF At
    <3> QED
      BY <1>3, <3>1, <3>2
  <2>2. CASE x[2][1] # "house"
    BY <1>2, <2>2 DEF At
  <2> QED
    BY <2>1, <2>2
<1>5. Hanging(u, P, kind) = Hanging(Now, P, kind)
  BY <1>4 DEF Hanging
<1> QED
  BY <1>1, <1>5 DEF Hung

LEMMA FurnitureMoveHung ==
  ASSUME Inv, NEW P \in SUBSET Players, IsFiniteSet(P), NEW kind \in Kinds, NEW p \in Players,
         NEW from \in 1 .. HouseLimit, NEW to \in 1 .. HouseLimit, FurnitureMove(p, from, to)
  PROVE  Hung(Now', P, kind) = Hung(Now, P, kind)
<1>1. from \in HouseSlots /\ to \in HouseSlots
  BY ConstantsOK DEF HouseSlots
<1> QED
  BY <1>1, MovedHung DEF FurnitureMove, Inv

LEMMA GearTakeHung ==
  ASSUME Inv, NEW P \in SUBSET Players, IsFiniteSet(P), NEW kind \in Kinds, NEW p \in Players,
         NEW k \in Kinds, NEW swap, GearTake(p, k, swap)
  PROVE  Hung(Now', P, kind) = Hung(Now, P, kind)
<1> DEFINE from == Least(SlotsHolding(p, k))
           slots == IF swap = None THEN Free(gear[p], CarriedLimit) ELSE GearHolding(p, swap)
           to == Least(slots)
<1>1. /\ Furnished /\ SlotsHolding(p, k) # {} /\ slots # {} /\ Become(Swapped(p, from, to))
      /\ DOMAIN gear[p] = GearSlots
  BY DEF Inv, GearTake, Furnished, Now, Things, Gears
<1>2. from \in HouseSlots /\ house[p][from] = k
  <2>1. SlotsHolding(p, k) \in SUBSET Nat
    BY KindFacts DEF SlotsHolding
  <2>2. from \in SlotsHolding(p, k)
    BY <1>1, <2>1, LeastOf
  <2> QED
    BY <2>2 DEF SlotsHolding
<1>3. to \in GearSlots
  <2>1. slots \subseteq GearSlots
    BY <1>1 DEF Free, GearHolding
  <2>2. slots \in SUBSET Nat
    BY <2>1, KindFacts
  <2> HIDE DEF slots
  <2>3. to \in slots
    BY <1>1, <2>2, LeastOf
  <2> QED
    BY <2>1, <2>3
<1> HIDE DEF from, to, slots
<1>4. Swapped(p, from, to) \in Things /\ Hung(Swapped(p, from, to), P, kind) = Hung(Now, P, kind)
  BY <1>1, <1>2, <1>3, SwappedHung
<1> QED
  BY <1>1, <1>4, Becomes

LEMMA GearStoreHung ==
  ASSUME Inv, NEW P \in SUBSET Players, IsFiniteSet(P), NEW kind \in Kinds, NEW p \in Players,
         NEW k \in Kinds, GearStore(p, k)
  PROVE  Hung(Now', P, kind) = Hung(Now, P, kind)
<1>1. /\ Furnished /\ GearHolding(p, k) # {} /\ Free(house[p], HouseLimit) # {}
      /\ Become(PutInHouse(Taken(p, k), p, k, HouseLimit)) /\ Owns(p, k)
  BY DEF Inv, GearStore, Owns
<1>2. PICK t : t = Taken(p, k)
  OBVIOUS
<1>3. t \in Things /\ Hung(t, P, kind) = Hung(Now, P, kind) - Of(P, p, One(k, kind))
  BY <1>1, <1>2, TakenHung
<1>4. t.house = house
  BY <1>1, <1>2 DEF Taken, OnHim, Now
<1>5. /\ PutInHouse(t, p, k, HouseLimit) \in Things
      /\ Hung(PutInHouse(t, p, k, HouseLimit), P, kind) = Hung(t, P, kind) + Of(P, p, One(k, kind))
  BY <1>1, <1>3, <1>4, PutInHouseHung
<1>6. Now' = PutInHouse(t, p, k, HouseLimit)
  BY <1>1, <1>2, <1>5, Becomes
<1> QED
  BY <1>3, <1>5, <1>6, OneType, HangingIsFinite DEF Of

LEMMA BurnChildHung ==
  ASSUME Inv, NEW P \in SUBSET Players, NEW kind \in Kinds, NEW p \in Players,
         NEW c \in children, BurnChild(p, c)
  PROVE  Hung(Now', P, kind) = Hung(Now, P, kind)
<1>1. /\ Furnished /\ house \in Houses /\ gear' = gear
      /\ house' = [house EXCEPT ![p][c.slot] = None] /\ house[p][c.slot] = Kid
  BY DEF Inv, Furnished, Now, Things, BurnChild, ChildrenInTheirSlots, EachInItsSlot
<1>2. \A q \in Players, i \in HouseSlots :
        house'[q][i] = house[q][i] \/ (house[q][i] \in {None, Kid} /\ house'[q][i] \in {None, Kid})
  BY <1>1 DEF Houses
<1> QED
  BY <1>1, <1>2, SameEmoji

LEMMA GrowHung ==
  ASSUME Inv, NEW P \in SUBSET Players, NEW kind \in Kinds, Grow
  PROVE  Hung(Now', P, kind) = Hung(Now, P, kind)
<1>1. PICK age \in [children -> Ages \cup {4}] :
        LET here == {c \in children : house[c.owner][c.slot] # None}
            gone == {c \in here : Leaves(age[c])}
            stay == {[c EXCEPT !.age = age[c]] : c \in here \ gone}
        IN  house' = [p \in Players |-> [i \in HouseSlots |->
              IF \E c \in gone : c.owner = p /\ c.slot = i THEN None
              ELSE IF \E c \in stay : c.owner = p /\ c.slot = i THEN Kid ELSE house[p][i]]]
  BY DEF Grow
<1> DEFINE here == {c \in children : house[c.owner][c.slot] # None}
           gone == {c \in here : Leaves(age[c])}
           stay == {[c EXCEPT !.age = age[c]] : c \in here \ gone}
<1>2. /\ Furnished /\ gear' = gear /\ \A c \in children : house[c.owner][c.slot] = Kid
      /\ children \subseteq Child
  BY DEF Inv, Furnished, Grow, ChildrenInTheirSlots, EachInItsSlot
<1>3. \A c \in gone : house[c.owner][c.slot] = Kid
  BY <1>2
<1>4. \A c \in stay : house[c.owner][c.slot] = Kid
  <2> SUFFICES ASSUME NEW d \in here \ gone PROVE LET c == [d EXCEPT !.age = age[d]] IN house[c.owner][c.slot] = Kid
    OBVIOUS
  <2>1. d \in Child /\ house[d.owner][d.slot] = Kid
    BY <1>2
  <2> QED
    BY <2>1 DEF Child
<1>5. house' = [p \in Players |-> [i \in HouseSlots |->
              IF \E c \in gone : c.owner = p /\ c.slot = i THEN None
              ELSE IF \E c \in stay : c.owner = p /\ c.slot = i THEN Kid ELSE house[p][i]]]
  BY <1>1
<1> HIDE DEF gone, stay
<1>6. \A q \in Players, i \in HouseSlots :
        house'[q][i] = house[q][i] \/ (house[q][i] \in {None, Kid} /\ house'[q][i] \in {None, Kid})
  BY <1>3, <1>4, <1>5
<1> QED
  BY <1>2, <1>6, SameEmoji

\* An emoji leaves a slot as its owner sets off, and has one again where it arrives.
LEMMA SetOffHung ==
  ASSUME Inv, NEW P \in SUBSET Players, IsFiniteSet(P), NEW kind \in Kinds, NEW p \in Players,
         NEW q, NEW load \in Kinds \cup {None, Palle}, NEW intact, SetOff(p, q, load, intact)
  PROVE  Hung(Now', P, kind) = Hung(Now, P, kind) - Of(P, p, One(load, kind))
<1>1. CASE load \in Kinds
  <2>1. Furnished /\ Owns(p, load) /\ Become(Taken(p, load))
    BY <1>1 DEF SetOff, HandsFor, Inv
  <2>2. Taken(p, load) \in Things /\ Hung(Taken(p, load), P, kind) = Hung(Now, P, kind) - Of(P, p, One(load, kind))
    BY <1>1, <2>1, TakenHung
  <2> QED
    BY <2>1, <2>2, Becomes
<1>2. CASE load \notin Kinds
  <2>1. UNCHANGED things /\ One(load, kind) = 0
    BY <1>2 DEF SetOff, One
  <2> QED
    BY <2>1, SameHung, HangingIsFinite DEF Of
<1> QED
  BY <1>1, <1>2

LEMMA DeliverHung ==
  ASSUME Inv, NEW P \in SUBSET Players, IsFiniteSet(P), NEW kind \in Kinds, NEW p, Deliver(p)
  PROVE  /\ p \in DOMAIN rides /\ rides[p].to \in Players
         /\ Hung(Now', P, kind) = Hung(Now, P, kind)
              + Of(P, rides[p].to, One(rides[p].load, kind) - One(rides'[p].load, kind))
<1> DEFINE q == rides[p].to
           k == rides[p].load
<1>1. /\ Furnished /\ p \in DOMAIN rides /\ rides \in [DOMAIN rides -> Ride] /\ k \in Kinds
      /\ Now \in Things /\ Now.house = house /\ Now.gear = gear
  BY DEF Inv, Furnished, Deliver, Arriving, OnTheRoad, Riding, Now
<1>2. q \in Players
  BY <1>1 DEF Ride
<1>3. \A load : rides' = Arrived(p, load) => rides'[p].load = load
  BY <1>1 DEF Arrived, Ride
<1>4. One(None, kind) = 0 /\ Hung(Now, P, kind) \in Nat
  BY HangingIsFinite, KindFacts DEF One
<1>5. CASE /\ k \in Carried /\ AtHome(q) /\ Free(gear[q], CarriedLimit) # {}
           /\ Become(PutOn(Now, q, k)) /\ rides' = Arrived(p, None)
  <2>1. /\ PutOn(Now, q, k) \in Things
        /\ Hung(PutOn(Now, q, k), P, kind) = Hung(Now, P, kind) + Of(P, q, One(k, kind))
    BY <1>1, <1>2, <1>5, PutOnHung
  <2> QED
    BY <1>1, <1>2, <1>3, <1>4, <1>5, <2>1, Becomes, OneType DEF Of
<1>6. CASE /\ Free(house[q], HouseLimit) # {}
           /\ Become(PutInHouse(Now, q, k, HouseLimit)) /\ rides' = Arrived(p, None)
  <2>1. Free(Now.house[q], HouseLimit) # {}
    BY <1>1, <1>6
  <2>2. /\ PutInHouse(Now, q, k, HouseLimit) \in Things
        /\ Hung(PutInHouse(Now, q, k, HouseLimit), P, kind) = Hung(Now, P, kind) + Of(P, q, One(k, kind))
    <3> HIDE DEF q, k
    <3> QED
      BY <1>1, <1>2, <2>1, PutInHouseHung
  <2> QED
    BY <1>1, <1>2, <1>3, <1>4, <1>6, <2>2, Becomes, OneType DEF Of
<1>7. CASE UNCHANGED things /\ rides' = Arrived(p, k)
  <2>1. One(k, kind) - One(rides'[p].load, kind) = 0
    BY <1>3, <1>7, OneType
  <2> QED
    BY <1>1, <1>2, <1>4, <1>7, <2>1, SameHung DEF Of
<1> QED
  BY <1>5, <1>6, <1>7 DEF Deliver

LEMMA ComeHomeHung ==
  ASSUME Inv, NEW P \in SUBSET Players, IsFiniteSet(P), NEW kind \in Kinds, NEW p, ComeHome(p)
  PROVE  /\ p \in DOMAIN rides /\ p \in Players
         /\ Hung(Now', P, kind) = Hung(Now, P, kind) + Of(P, p, One(rides[p].load, kind))
<1> DEFINE k == rides[p].load
<1>1. /\ Furnished /\ p \in DOMAIN rides /\ p \in Players /\ rides[p].stage = "back"
      /\ Now \in Things /\ Now.gear = gear
  BY DEF Inv, Furnished, ComeHome, OnTheRoad, Riding, Now
<1>2. CASE k \in Kinds
  <2>1. Free(gear[p], CarriedLimit) # {}
    BY <1>1, <1>2 DEF Inv, RoomToComeHome
  <2>2. Become(PutOn(Now, p, k))
    BY <1>2, <2>1 DEF ComeHome
  <2>3. /\ PutOn(Now, p, k) \in Things
        /\ Hung(PutOn(Now, p, k), P, kind) = Hung(Now, P, kind) + Of(P, p, One(k, kind))
    BY <1>1, <1>2, <2>1, PutOnHung
  <2> QED
    BY <1>1, <2>2, <2>3, Becomes
<1>3. CASE k \notin Kinds
  <2>1. UNCHANGED things /\ One(k, kind) = 0
    BY <1>3 DEF ComeHome, One
  <2> QED
    BY <1>1, <2>1, SameHung, HangingIsFinite DEF Of
<1> QED
  BY <1>2, <1>3

\* Whoever robs moves one, and may lose one to the 🦖; never a 🎈.
LEMMA RobHung ==
  ASSUME Inv, NEW P \in SUBSET Players, IsFiniteSet(P), NEW kind \in Kinds, NEW p, Rob(p)
  PROVE  /\ P = Players => Hung(Now', P, kind) <= Hung(Now, P, kind)
         /\ kind \in Untouchable => Hung(Now', P, kind) = Hung(Now, P, kind)
<1>1. /\ Furnished /\ p \in DOMAIN rides /\ p \in Players /\ rides[p].to \in Players
      /\ Now \in Things /\ Now.house = house
  BY DEF Inv, Furnished, Rob, Arriving, OnTheRoad, Riding, Ride, Now
<1>2. PICK fed \in {Now} \cup BlownOnHim(Now, p) :
        \E after \in Boarded(fed, p, rides[p].to) : Become(after)
  BY DEF Rob
<1>3. PICK after \in Boarded(fed, p, rides[p].to) : Become(after)
  BY <1>2
<1>4. /\ fed \in Things /\ fed.house = house
      /\ Hung(fed, P, kind) <= Hung(Now, P, kind)
      /\ kind \in Untouchable => Hung(fed, P, kind) = Hung(Now, P, kind)
  <2>1. CASE fed = Now
    BY <1>1, <2>1, HangingIsFinite
  <2>2. CASE fed # Now
    <3>1. fed \in BlownOnHim(Now, p)
      BY <2>2
    <3>2. fed.house = house
      BY <1>1, <3>1 DEF BlownOnHim, OnHim, Things
    <3> QED
      BY <1>1, <3>1, <3>2, BlownHung
  <2> QED
    BY <2>1, <2>2
<1>5. /\ after \in Things
      /\ P = Players => Hung(after, P, kind) = Hung(fed, P, kind)
      /\ kind \in Untouchable => Hung(after, P, kind) = Hung(fed, P, kind)
  BY <1>1, <1>4, BoardedHung
<1>6. Now' = after
  BY <1>3, <1>5, Becomes
<1> QED
  BY <1>4, <1>5, <1>6

-----------------------------------------------------------------------------
(* The count is the one the properties speak of. *)

LEMMA SameSize ==
  ASSUME NEW S, NEW T, IsFiniteSet(S), NEW f \in [S -> T],
         \A a, b \in S : f[a] = f[b] => a = b, \A b \in T : \E a \in S : f[a] = b
  PROVE  Cardinality(T) = Cardinality(S)
<1>1. f \in Bijection(S, T)
  BY DEF Bijection, Injection, IsInjective, Surjection
<1> QED
  BY <1>1, FS_Bijection DEF ExistsBijection

HouseHanging(t, P, kind) == {s \in P \X HouseSlots : t.house[s[1]][s[2]] = kind}
GearHanging(t, P, kind) == {s \in P \X GearSlots : t.gear[s[1]][s[2]] = kind}

LEMMA Halves ==
  ASSUME NEW t, NEW P, IsFiniteSet(P), NEW kind
  PROVE  /\ Hung(t, P, kind) = Cardinality(HouseHanging(t, P, kind)) + Cardinality(GearHanging(t, P, kind))
         /\ IsFiniteSet(HouseHanging(t, P, kind)) /\ IsFiniteSet(GearHanging(t, P, kind))
<1> DEFINE H == HouseHanging(t, P, kind)
           G == GearHanging(t, P, kind)
           A == {x \in Hanging(t, P, kind) : x[2][1] = "house"}
           B == {x \in Hanging(t, P, kind) : x[2][1] # "house"}
           f == [s \in H |-> <<s[1], <<"house", s[2]>>>>]
           g == [s \in G |-> <<s[1], <<"gear", s[2]>>>>]
<1>1. IsFiniteSet(H) /\ IsFiniteSet(G)
  <2>1. IsFiniteSet(P \X HouseSlots) /\ IsFiniteSet(P \X GearSlots)
    BY SlotsAreFinite, FS_Product
  <2>2. H \subseteq P \X HouseSlots /\ G \subseteq P \X GearSlots
    BY DEF HouseHanging, GearHanging
  <2> QED
    BY <2>1, <2>2, FS_Subset
<1>2. Cardinality(A) = Cardinality(H)
  <2>1. ASSUME NEW s \in H PROVE f[s] \in A /\ f[s] = <<s[1], <<"house", s[2]>>>>
    <3>1. s \in P \X HouseSlots /\ t.house[s[1]][s[2]] = kind
      BY <2>1 DEF HouseHanging
    <3>2. <<s[1], <<"house", s[2]>>>> \in P \X AllSlots
      BY <3>1 DEF AllSlots
    <3> QED
      BY <3>1, <3>2 DEF Hanging, At
  <2>2. ASSUME NEW s \in H, NEW r \in H, f[s] = f[r] PROVE s = r
    <3>1. s \in P \X HouseSlots /\ r \in P \X HouseSlots
      BY <2>2 DEF HouseHanging
    <3> QED
      BY <2>2, <3>1
  <2>3. ASSUME NEW x \in A PROVE \E s \in H : f[s] = x
    <3>1. x \in P \X AllSlots /\ At(t, x) = kind /\ x[2][1] = "house"
      BY <2>3 DEF Hanging
    <3>2. x[1] \in P /\ x[2] \in {"house"} \X HouseSlots
      BY <3>1 DEF AllSlots
    <3>3. x = <<x[1], <<"house", x[2][2]>>>> /\ x[2][2] \in HouseSlots
      BY <3>1, <3>2
    <3>4. <<x[1], x[2][2]>> \in H
      BY <3>1, <3>2, <3>3 DEF HouseHanging, At
    <3> QED
      BY <3>3, <3>4
  <2>4. f \in [H -> A]
    BY <2>1
  <2> HIDE DEF H, A, f
  <2> QED
    BY <1>1, <2>2, <2>3, <2>4, SameSize
<1>3. Cardinality(B) = Cardinality(G)
  <2>1. ASSUME NEW s \in G PROVE g[s] \in B /\ g[s] = <<s[1], <<"gear", s[2]>>>>
    <3>1. s \in P \X GearSlots /\ t.gear[s[1]][s[2]] = kind
      BY <2>1 DEF GearHanging
    <3>2. <<s[1], <<"gear", s[2]>>>> \in P \X AllSlots
      BY <3>1 DEF AllSlots
    <3> QED
      BY <3>1, <3>2 DEF Hanging, At
  <2>2. ASSUME NEW s \in G, NEW r \in G, g[s] = g[r] PROVE s = r
    <3>1. s \in P \X GearSlots /\ r \in P \X GearSlots
      BY <2>2 DEF GearHanging
    <3> QED
      BY <2>2, <3>1
  <2>3. ASSUME NEW x \in B PROVE \E s \in G : g[s] = x
    <3>1. x \in P \X AllSlots /\ At(t, x) = kind /\ x[2][1] # "house"
      BY <2>3 DEF Hanging
    <3>2. x[1] \in P /\ x[2] \in {"gear"} \X GearSlots
      BY <3>1 DEF AllSlots
    <3>3. x = <<x[1], <<"gear", x[2][2]>>>> /\ x[2][2] \in GearSlots
      BY <3>1, <3>2
    <3>4. <<x[1], x[2][2]>> \in G
      BY <3>1, <3>2, <3>3 DEF GearHanging, At
    <3> QED
      BY <3>3, <3>4
  <2>4. g \in [G -> B]
    BY <2>1
  <2> HIDE DEF G, B, g
  <2> QED
    BY <1>1, <2>2, <2>3, <2>4, SameSize
<1>4. IsFiniteSet(A) /\ IsFiniteSet(B)
  BY HangingIsFinite, FS_Subset
<1>5. A \cup B = Hanging(t, P, kind) /\ A \cap B = {}
  OBVIOUS
<1>6. Cardinality(A) \in Nat /\ Cardinality(B) \in Nat /\ Cardinality({}) = 0
  BY <1>4, FS_CardinalityType, FS_EmptySet
<1> HIDE DEF A, B, H, G
<1>7. Cardinality(A \cup B) = Cardinality(A) + Cardinality(B)
  <2>1. Cardinality(A \cup B) = Cardinality(A) + Cardinality(B) - Cardinality(A \cap B)
    BY <1>4, FS_Union
  <2>2. Cardinality(A \cap B) = 0
    BY <1>5, <1>6
  <2> QED
    BY <1>6, <2>1, <2>2
<1>8. Hung(t, P, kind) = Cardinality(H) + Cardinality(G)
  BY <1>2, <1>3, <1>5, <1>7 DEF Hung
<1> QED
  BY <1>1, <1>8 DEF H, G

LEMMA BalloonsAreHung == ASSUME NEW p PROVE Balloons(p) = Hung(Now, {p}, "balloon")
<1> DEFINE I == {i \in HouseSlots : house[p][i] = "balloon"}
           J == {i \in GearSlots : gear[p][i] = "balloon"}
           H == HouseHanging(Now, {p}, "balloon")
           G == GearHanging(Now, {p}, "balloon")
           f == [i \in I |-> <<p, i>>]
           g == [i \in J |-> <<p, i>>]
<1>1. IsFiniteSet(I) /\ IsFiniteSet(J) /\ IsFiniteSet({p})
  BY SlotsAreFinite, FS_Subset, FS_Singleton
<1>2. Cardinality(H) = Cardinality(I)
  <2>1. \A i \in I : <<p, i>> \in H
    BY DEF HouseHanging, Now
  <2>2. ASSUME NEW x \in H PROVE \E i \in I : <<p, i>> = x
    <3>1. x \in {p} \X HouseSlots /\ house[x[1]][x[2]] = "balloon"
      BY <2>2 DEF HouseHanging, Now
    <3>2. x[2] \in I /\ x = <<p, x[2]>>
      BY <3>1
    <3> QED
      BY <3>2
  <2>3. f \in [I -> H] /\ \A i \in I : f[i] = <<p, i>>
    BY <2>1
  <2> HIDE DEF H, I, f
  <2> QED
    BY <1>1, <2>2, <2>3, SameSize
<1>3. Cardinality(G) = Cardinality(J)
  <2>1. \A i \in J : <<p, i>> \in G
    BY DEF GearHanging, Now
  <2>2. ASSUME NEW x \in G PROVE \E i \in J : <<p, i>> = x
    <3>1. x \in {p} \X GearSlots /\ gear[x[1]][x[2]] = "balloon"
      BY <2>2 DEF GearHanging, Now
    <3>2. x[2] \in J /\ x = <<p, x[2]>>
      BY <3>1
    <3> QED
      BY <3>2
  <2>3. g \in [J -> G] /\ \A i \in J : g[i] = <<p, i>>
    BY <2>1
  <2> HIDE DEF G, J, g
  <2> QED
    BY <1>1, <2>2, <2>3, SameSize
<1>4. Hung(Now, {p}, "balloon") = Cardinality(H) + Cardinality(G)
  BY <1>1, Halves
<1> QED
  BY <1>2, <1>3, <1>4 DEF Balloons

-----------------------------------------------------------------------------
(* What is not his to lose: who is known, and who is left alone by whom. *)

\* Belongings in which a player has what he has.
Kept(t, p) ==
  \E h, g : /\ t = [house |-> h, gear |-> g] /\ p \in DOMAIN h /\ p \in DOMAIN g
            /\ h[p] = house[p] /\ g[p] = gear[p]

LEMMA KeptNow == ASSUME Furnished, NEW p \in Players PROVE Kept(Now, p)
BY DEF Furnished, Now, Things, Houses, Gears, Kept

LEMMA KeptElsewhere ==
  ASSUME NEW t, NEW p, Kept(t, p), NEW q, q # p, NEW i, NEW k
  PROVE  Kept(InHouse(t, q, i, k), p) /\ Kept(OnHim(t, q, i, k), p)
<1>1. PICK h, g : /\ t = [house |-> h, gear |-> g] /\ p \in DOMAIN h /\ p \in DOMAIN g
                  /\ h[p] = house[p] /\ g[p] = gear[p]
  BY DEF Kept
<1>2. InHouse(t, q, i, k) = [house |-> [h EXCEPT ![q][i] = k], gear |-> g]
  BY <1>1 DEF InHouse
<1>3. OnHim(t, q, i, k) = [house |-> h, gear |-> [g EXCEPT ![q][i] = k]]
  BY <1>1 DEF OnHim
<1>4. /\ p \in DOMAIN [h EXCEPT ![q][i] = k] /\ [h EXCEPT ![q][i] = k][p] = h[p]
      /\ p \in DOMAIN [g EXCEPT ![q][i] = k] /\ [g EXCEPT ![q][i] = k][p] = g[p]
  BY <1>1
<1> QED
  BY <1>1, <1>2, <1>3, <1>4 DEF Kept

LEMMA KeptHelpers ==
  ASSUME Furnished, NEW p \in Players, NEW q, q # p, NEW t, Kept(t, p), NEW k, NEW limit
  PROVE  /\ Kept(Taken(q, k), p) /\ Kept(PutOn(t, q, k), p) /\ Kept(PutInHouse(t, q, k, limit), p)
         /\ \A u \in BlownOnHim(t, q) \cup BlownInHouse(t, q) : Kept(u, p)
<1>1. Kept(Now, p)
  BY KeptNow
<1>2. Kept(Taken(q, k), p)
  BY <1>1, KeptElsewhere DEF Taken
<1>3. Kept(PutOn(t, q, k), p) /\ Kept(PutInHouse(t, q, k, limit), p)
  BY KeptElsewhere DEF PutOn, PutInHouse
<1>4. ASSUME NEW u \in BlownOnHim(t, q) \cup BlownInHouse(t, q) PROVE Kept(u, p)
  BY <1>4, KeptElsewhere DEF BlownOnHim, BlownInHouse
<1> QED
  BY <1>2, <1>3, <1>4

LEMMA KeptHung ==
  ASSUME NEW t, NEW p, Kept(t, p), NEW kind PROVE Hung(t, {p}, kind) = Hung(Now, {p}, kind)
<1>1. t.house[p] = Now.house[p] /\ t.gear[p] = Now.gear[p]
  BY DEF Kept, Now
<1>2. Hanging(t, {p}, kind) = Hanging(Now, {p}, kind)
  BY <1>1 DEF Hanging, At
<1> QED
  BY <1>2 DEF Hung

LEMMA KeptNext ==
  ASSUME NEW p, house'[p] = house[p], gear'[p] = gear[p], NEW kind
  PROVE  Hung(Now', {p}, kind) = Hung(Now, {p}, kind)
<1>1. PICK u : u = Now'
  OBVIOUS
<1>2. u.house[p] = Now.house[p] /\ u.gear[p] = Now.gear[p]
  BY <1>1 DEF Now
<1>3. Hanging(u, {p}, kind) = Hanging(Now, {p}, kind)
  BY <1>2 DEF Hanging, At
<1> QED
  BY <1>1, <1>3 DEF Hung

LEMMA KeptBecomes ==
  ASSUME NEW t, NEW p, Kept(t, p), Become(t), NEW kind
  PROVE  Hung(Now', {p}, kind) = Hung(Now, {p}, kind)
<1>1. house'[p] = house[p] /\ gear'[p] = gear[p]
  BY DEF Kept, Become
<1> QED
  BY <1>1, KeptNext

\* A player's errands leave what the others have.
LEMMA ErrandKeeps ==
  ASSUME Inv, NEW p \in Players, NEW q \in Players, q # p, NEW kind,
         \/ AtHomeErrand(q) \/ Claim(q) \/ Leave(q) \/ TurnBack(q)
         \/ \E k \in Kinds : Burn(q, k)
         \/ \E c \in children : BurnChild(q, c)
         \/ \E r \in Players, load \in Kinds \cup {None, Palle}, intact \in BOOLEAN :
              SetOff(q, r, load, intact)
  PROVE  Hung(Now', {p}, kind) = Hung(Now, {p}, kind)
<1>0. Furnished /\ Kept(Now, p) /\ p \in DOMAIN house
  BY KeptNow DEF Inv, Furnished, Now, Things, Houses
<1>1. ASSUME NEW k, NEW at, Buy(q, k, at) PROVE Hung(Now', {p}, kind) = Hung(Now, {p}, kind)
  BY <1>0, <1>1, KeptHelpers, KeptElsewhere, KeptBecomes DEF Buy
<1>2. ASSUME NEW from, NEW to, FurnitureMove(q, from, to)
      PROVE  Hung(Now', {p}, kind) = Hung(Now, {p}, kind)
  <2>1. house'[p] = house[p] /\ gear'[p] = gear[p]
    BY <1>0, <1>2 DEF FurnitureMove
  <2> QED
    BY <2>1, KeptNext
<1>3. ASSUME NEW k, NEW swap, GearTake(q, k, swap)
      PROVE  Hung(Now', {p}, kind) = Hung(Now, {p}, kind)
  <2>1. PICK from, to : Become(Swapped(q, from, to))
    BY <1>3 DEF GearTake
  <2>2. Kept(Swapped(q, from, to), p)
    BY <1>0, KeptElsewhere DEF Swapped
  <2> QED
    BY <2>1, <2>2, KeptBecomes
<1>4. ASSUME NEW k, GearStore(q, k) PROVE Hung(Now', {p}, kind) = Hung(Now, {p}, kind)
  BY <1>0, <1>4, KeptHelpers, KeptBecomes DEF GearStore
<1>5. ASSUME NEW k, Burn(q, k) PROVE Hung(Now', {p}, kind) = Hung(Now, {p}, kind)
  BY <1>0, <1>5, KeptHelpers, KeptBecomes DEF Burn
<1>6. ASSUME NEW c, BurnChild(q, c) PROVE Hung(Now', {p}, kind) = Hung(Now, {p}, kind)
  <2>1. house'[p] = house[p] /\ gear'[p] = gear[p]
    BY <1>0, <1>6 DEF BurnChild
  <2> QED
    BY <2>1, KeptNext
<1>7. ASSUME NEW r, NEW load, NEW intact, SetOff(q, r, load, intact)
      PROVE  Hung(Now', {p}, kind) = Hung(Now, {p}, kind)
  <2>1. Become(Taken(q, load)) \/ UNCHANGED things
    BY <1>7 DEF SetOff
  <2> QED
    BY <1>0, <2>1, KeptHelpers, KeptBecomes, SameHung
<1>8. CASE Claim(q) \/ Leave(q) \/ TurnBack(q)
  BY <1>8, SameHung DEF Claim, Leave, TurnBack
<1> QED
  BY <1>1, <1>2, <1>3, <1>4, <1>5, <1>6, <1>7, <1>8 DEF AtHomeErrand

-----------------------------------------------------------------------------
(* Whoever is not known yet has no emoji, and nobody is on the road to him; whoever is
   home carries nothing. *)

OnTheWay ==
  \A r \in DOMAIN rides :
    rides[r].to \in welcomed /\ (rides[r].stage = "done" => rides[r].load = None)

Newcomers == \A p \in Players \ welcomed, kind \in Kinds : Hung(Now, {p}, kind) = 0

LEMMA ArrivedOnTheWay ==
  ASSUME Inv, OnTheWay, NEW p \in DOMAIN rides, NEW load, rides' = Arrived(p, load),
         welcomed' = welcomed
  PROVE  OnTheWay'
<1>1. rides \in [DOMAIN rides -> Ride]
  BY DEF Inv, Riding
<1>2. /\ DOMAIN rides' = DOMAIN rides
      /\ \A r \in DOMAIN rides : rides'[r].to = rides[r].to
      /\ \A r \in DOMAIN rides \ {p} : rides'[r] = rides[r]
      /\ rides'[p].stage = "back"
  BY <1>1 DEF Arrived, Ride
<1> QED
  BY <1>2 DEF OnTheWay

LEMMA HandlerOnTheWay ==
  ASSUME Inv, OnTheWay, NEW p \in Players, Handler(p), welcomed' = welcomed
  PROVE  OnTheWay'
<1>1. rides \in [DOMAIN rides -> Ride]
  BY DEF Inv, Riding
<1>2. CASE UNCHANGED rides
  BY <1>2 DEF OnTheWay
<1>3. CASE rides' = [q \in {} |-> None]
  BY <1>3 DEF OnTheWay
<1>4. ASSUME NEW k, ThrowAtPlace(p, k) PROVE UNCHANGED rides \/ rides' = [q \in {} |-> None]
  BY <1>4 DEF ThrowAtPlace, StartAllOver
<1>5. ASSUME NEW q \in Players, NEW load, NEW intact, SetOff(p, q, load, intact) PROVE OnTheWay'
  <2>1. /\ q \in welcomed
        /\ rides' = [r \in DOMAIN rides \cup {p} |->
                 IF r = p THEN [to |-> q, stage |-> "out", load |-> load, intact |-> intact]
                 ELSE rides[r]]
    BY <1>5 DEF SetOff
  <2> QED
    BY <2>1 DEF OnTheWay
<1>6. CASE TurnBack(p)
  <2>1. /\ p \in DOMAIN rides /\ rides' = [rides EXCEPT ![p].stage = "back"]
    BY <1>6 DEF TurnBack, OnTheRoad
  <2>2. /\ DOMAIN rides' = DOMAIN rides
        /\ \A r \in DOMAIN rides : rides'[r].to = rides[r].to
        /\ \A r \in DOMAIN rides \ {p} : rides'[r] = rides[r]
        /\ rides'[p].stage = "back"
    BY <1>1, <2>1 DEF Ride
  <2> QED
    BY <2>2 DEF OnTheWay
<1>7. CASE AtHomeErrand(p)
  BY <1>7, <1>2 DEF AtHomeErrand, Buy, FurnitureMove, GearTake, GearStore
<1>8. CASE Claim(p) \/ Leave(p) \/ (\E k \in Kinds : Burn(p, k)) \/ (\E c \in children : BurnChild(p, c))
  BY <1>8, <1>2 DEF Claim, Leave, Burn, BurnChild
<1> QED
  BY <1>2, <1>3, <1>4, <1>5, <1>6, <1>7, <1>8 DEF Handler

LEMMA VisitOnTheWay ==
  ASSUME Inv, OnTheWay, NEW p, Visit(p), welcomed' = welcomed
  PROVE  OnTheWay'
<1>1. rides \in [DOMAIN rides -> Ride] /\ p \in DOMAIN rides
  BY DEF Inv, Riding, Visit, Deliver, NothingHung, ThrowAtHouse, Rob, ComeHome, Arriving, OnTheRoad
<1>2. ASSUME NEW load, rides' = Arrived(p, load) PROVE OnTheWay'
  BY <1>1, <1>2, ArrivedOnTheWay
<1>3. CASE Deliver(p) \/ NothingHung(p) \/ Rob(p)
  <2>1. \E load : rides' = Arrived(p, load)
    BY <1>3 DEF Deliver, NothingHung, Rob
  <2> QED
    BY <1>2, <2>1
<1>4. CASE ComeHome(p)
  <2>1. rides' = [rides EXCEPT ![p].stage = "done", ![p].load = None]
    BY <1>4 DEF ComeHome
  <2>2. /\ DOMAIN rides' = DOMAIN rides
        /\ \A r \in DOMAIN rides : rides'[r].to = rides[r].to
        /\ \A r \in DOMAIN rides \ {p} : rides'[r] = rides[r]
        /\ rides'[p].load = None
    BY <1>1, <2>1 DEF Ride
  <2> QED
    BY <2>2 DEF OnTheWay
<1>5. CASE ThrowAtHouse(p)
  <2>1. PICK done : done = Arrived(p, None)
    OBVIOUS
  <2>2. \/ rides' = done
        \/ \E v : StartOver(v, done)
    BY <1>5, <2>1 DEF ThrowAtHouse
  <2>3. /\ DOMAIN done = DOMAIN rides /\ done \in [DOMAIN rides -> Ride]
        /\ \A r \in DOMAIN rides : done[r].to = rides[r].to
        /\ \A r \in DOMAIN rides \ {p} : done[r] = rides[r]
        /\ done[p].stage = "back"
    BY <1>1, <2>1 DEF Arrived, Ride
  <2>4. ASSUME NEW v, StartOver(v, done) PROVE OnTheWay'
    <3>1. CASE v \notin DOMAIN done
      BY <1>2, <2>1, <2>4, <3>1 DEF StartOver
    <3>2. CASE v \in DOMAIN done
      <4>1. rides' = [done EXCEPT ![v] = EmptyHanded(@)]
        BY <2>4, <3>2 DEF StartOver
      <4>2. /\ DOMAIN rides' = DOMAIN rides
            /\ \A r \in DOMAIN rides \ {v} : rides'[r] = done[r]
            /\ rides'[v].to = done[v].to /\ rides'[v].load = None
        BY <2>3, <3>2, <4>1 DEF EmptyHanded, Ride
      <4> QED
        BY <2>3, <4>2 DEF OnTheWay
    <3> QED
      BY <3>1, <3>2
  <2> QED
    BY <1>2, <2>1, <2>2, <2>4
<1> QED
  BY <1>3, <1>4, <1>5 DEF Visit

LEMMA NextOnTheWay == ASSUME Inv, OnTheWay, [Next]_vars PROVE OnTheWay'
<1>1. ASSUME NEW p \in Players, Handler(p) PROVE OnTheWay'
  <2>1. welcomed' = welcomed
    BY <1>1 DEF Handler, AtHomeErrand, Buy, FurnitureMove, GearTake, GearStore, Claim, Leave, Burn,
                ThrowAtPlace, BurnChild, SetOff, TurnBack
  <2> QED
    BY <1>1, <2>1, HandlerOnTheWay
<1>2. ASSUME NEW p \in Players, Visit(p) PROVE OnTheWay'
  <2>1. welcomed' = welcomed
    BY <1>2 DEF Visit, Deliver, NothingHung, ThrowAtHouse, Rob, ComeHome
  <2> QED
    BY <1>2, <2>1, VisitOnTheWay
<1>3. CASE RoundEnds
  BY <1>3 DEF RoundEnds, OnTheWay
<1>4. CASE UNCHANGED rides /\ welcomed \subseteq welcomed'
  BY <1>4 DEF OnTheWay
<1>5. ASSUME NEW p \in Players, Welcome(p) \/ Birth(p) PROVE UNCHANGED rides /\ welcomed \subseteq welcomed'
  BY <1>5 DEF Welcome, Birth
<1>6. CASE Grow \/ SortOut \/ UNCHANGED vars
  BY <1>4, <1>6 DEF Grow, SortOut, vars
<1> QED
  BY <1>1, <1>2, <1>3, <1>4, <1>5, <1>6 DEF Next, Plays, Keeper

\* An emoji comes to a player nobody knows from nowhere, and a 🎈 leaves one by his own
\* hand or with everything he has.
HisOrSafe(p, kind) ==
  /\ p \notin welcomed' => Hung(Now', {p}, kind) <= Hung(Now, {p}, kind)
  /\ kind \in Untouchable =>
       \/ Hung(Now', {p}, kind) >= Hung(Now, {p}, kind)
       \/ Handler(p)
       \/ house'[p] = NoHouse /\ gear'[p] = FirstGear

LEMMA SameIsSafe ==
  ASSUME NEW p, NEW kind, Hung(Now', {p}, kind) = Hung(Now, {p}, kind)
  PROVE  HisOrSafe(p, kind)
<1>1. Hung(Now, {p}, kind) \in Nat
  BY HangingIsFinite, FS_Singleton
<1> QED
  BY <1>1 DEF HisOrSafe

LEMMA NothingHungSafe ==
  ASSUME NEW p, NEW kind \in Kinds, \A i \in HouseSlots : house'[p][i] \notin Kinds,
         \A i \in GearSlots : gear'[p][i] \notin Kinds
  PROVE  Hung(Now', {p}, kind) = 0
<1>1. PICK u : u = Now'
  OBVIOUS
<1>2. u.house = house' /\ u.gear = gear'
  BY <1>1 DEF Now
<1>3. ASSUME NEW x \in {p} \X AllSlots PROVE At(u, x) # kind
  <2>1. x[1] = p
    OBVIOUS
  <2>2. CASE x[2][1] = "house"
    <3>1. x[2][2] \in HouseSlots
      BY <2>2 DEF AllSlots
    <3> QED
      BY <1>2, <2>1, <2>2, <3>1 DEF At
  <2>3. CASE x[2][1] # "house"
    <3>1. x[2][2] \in GearSlots
      BY <2>3 DEF AllSlots
    <3> QED
      BY <1>2, <2>1, <2>3, <3>1 DEF At
  <2> QED
    BY <2>2, <2>3
<1>4. Hanging(u, {p}, kind) = {}
  BY <1>3 DEF Hanging
<1> QED
  BY <1>1, <1>4, FS_EmptySet DEF Hung

LEMMA ThrowAtPlaceSafe ==
  ASSUME Inv, Holding, Newcomers, NEW p \in Players, NEW q \in Players, q # p,
         NEW k \in Kinds, ThrowAtPlace(q, k), NEW kind \in Kinds
  PROVE  HisOrSafe(p, kind)
<1>0. /\ Furnished /\ Kept(Now, p) /\ Now \in Things /\ IsFiniteSet({p}) /\ {p} \in SUBSET Players
      /\ welcomed' = welcomed /\ Owns(q, k) /\ Hung(Now, {p}, kind) \in Nat
  BY KeptNow, FS_Singleton, HangingIsFinite DEF Inv, Furnished, ThrowAtPlace
<1>1. CASE StartAllOver
  <2>1. /\ house'[p] = NoHouse
        /\ gear'[p] = IF p \in welcomed THEN FirstGear ELSE NoGear
    BY <1>1 DEF StartAllOver
  <2>2. CASE p \in welcomed
    BY <1>0, <2>1, <2>2 DEF HisOrSafe
  <2>3. CASE p \notin welcomed
    <3>1. /\ \A i \in HouseSlots : house'[p][i] \notin Kinds
          /\ \A i \in GearSlots : gear'[p][i] \notin Kinds
      BY <2>1, <2>3, KindFacts DEF NoHouse, NoGear
    <3>2. Hung(Now', {p}, kind) = 0 /\ Hung(Now, {p}, kind) = 0
      BY <2>3, <3>1, NothingHungSafe DEF Newcomers
    <3> QED
      BY <3>2, SameIsSafe
  <2> QED
    BY <2>2, <2>3
<1>2. CASE ~StartAllOver
  <2>1. PICK left : left = Taken(q, k)
    OBVIOUS
  <2>2. PICK after \in {left} \cup BlownOnHim(left, q)
                         \cup (IF hold.who \notin {Nobody, q} THEN BlownOnHim(left, hold.who) ELSE {}) :
          Become(after)
    BY <1>2, <2>1 DEF ThrowAtPlace
  <2>3. left \in Things /\ Kept(left, p)
    BY <1>0, <2>1, TakenHung, KeptHelpers
  <2>4. Hung(left, {p}, kind) = Hung(Now, {p}, kind)
    BY <2>3, KeptHung
  <2>5. CASE after = left
    BY <2>2, <2>3, <2>5, KeptBecomes, SameIsSafe
  <2>6. CASE after \in BlownOnHim(left, q)
    <3>1. Kept(after, p)
      BY <1>0, <2>3, <2>6, KeptHelpers
    <3> QED
      BY <2>2, <3>1, KeptBecomes, SameIsSafe
  <2>7. CASE hold.who \notin {Nobody, q} /\ after \in BlownOnHim(left, hold.who)
    <3>1. hold.who \in Players
      BY <2>7 DEF Holding, Inv, Riding
    <3>2. /\ after \in Things
          /\ Hung(after, {p}, kind) <= Hung(left, {p}, kind)
          /\ kind \in Untouchable => Hung(after, {p}, kind) = Hung(left, {p}, kind)
      BY <1>0, <2>3, <2>7, <3>1, BlownHung
    <3>3. Now' = after
      BY <2>2, <3>2, Becomes
    <3> QED
      BY <1>0, <2>4, <3>2, <3>3 DEF HisOrSafe
  <2> QED
    BY <2>2, <2>5, <2>6, <2>7
<1> QED
  BY <1>1, <1>2

LEMMA HandlerSafe ==
  ASSUME Inv, Holding, Newcomers, NEW p \in Players, NEW q \in Players, Handler(q),
         welcomed' = welcomed, NEW kind \in Kinds
  PROVE  HisOrSafe(p, kind)
<1>1. CASE q = p
  <2>1. Acts(q)
    BY DEF Handler, AtHomeErrand, Buy, FurnitureMove, GearTake, GearStore, Claim, Leave, Burn,
           ThrowAtPlace, BurnChild, SetOff, TurnBack
  <2>2. p \in welcomed /\ Handler(p)
    BY <1>1, <2>1 DEF Acts
  <2> QED
    BY <2>2 DEF HisOrSafe
<1>2. CASE q # p
  <2>1. ASSUME NEW k \in Kinds, ThrowAtPlace(q, k) PROVE HisOrSafe(p, kind)
    BY <1>2, <2>1, ThrowAtPlaceSafe
  <2>2. ASSUME \/ AtHomeErrand(q) \/ Claim(q) \/ Leave(q) \/ TurnBack(q)
               \/ \E k \in Kinds : Burn(q, k)
               \/ \E c \in children : BurnChild(q, c)
               \/ \E r \in Players, load \in Kinds \cup {None, Palle}, intact \in BOOLEAN :
                    SetOff(q, r, load, intact)
        PROVE  HisOrSafe(p, kind)
    <3>1. Hung(Now', {p}, kind) = Hung(Now, {p}, kind)
      BY <1>2, <2>2, ErrandKeeps, ZenonT(30)
    <3> QED
      BY <3>1, SameIsSafe
  <2> QED
    BY <2>1, <2>2 DEF Handler
<1> QED
  BY <1>1, <1>2

LEMMA ThrowAtHouseSafe ==
  ASSUME Inv, OnTheWay, NEW p \in Players, NEW q, ThrowAtHouse(q), NEW kind \in Kinds
  PROVE  HisOrSafe(p, kind)
<1>0. /\ Furnished /\ Kept(Now, p) /\ Now \in Things /\ IsFiniteSet({p}) /\ {p} \in SUBSET Players
      /\ welcomed' = welcomed /\ q \in welcomed /\ q \in Players
      /\ rides[q].to \in welcomed /\ rides[q].to \in Players
      /\ house \in Houses /\ gear \in Gears /\ Hung(Now, {p}, kind) \in Nat
  BY KeptNow, FS_Singleton, HangingIsFinite
     DEF Inv, Furnished, ThrowAtHouse, Arriving, OnTheRoad, OnTheWay, Riding, Now, Things
<1>1. PICK v \in {q, rides[q].to} :
        \/ StartOver(v, Arrived(q, None))
        \/ \E after \in BlownInHouse(Now, v) \cup BlownOnHim(Now, q) : Become(after)
        \/ UNCHANGED things
  BY DEF ThrowAtHouse
<1>2. CASE StartOver(v, Arrived(q, None))
  <2>1. CASE v = p
    <3>1. p \in welcomed /\ house'[p] = NoHouse /\ gear'[p] = FirstGear
      BY <1>0, <1>1, <1>2, <2>1 DEF StartOver, Houses, Gears
    <3> QED
      BY <1>0, <3>1 DEF HisOrSafe
  <2>2. CASE v # p
    <3>1. house'[p] = house[p] /\ gear'[p] = gear[p]
      BY <1>0, <1>2, <2>2 DEF StartOver, Houses, Gears
    <3> QED
      BY <3>1, KeptNext, SameIsSafe
  <2> QED
    BY <2>1, <2>2
<1>3. ASSUME NEW after \in BlownInHouse(Now, v) \cup BlownOnHim(Now, q), Become(after)
      PROVE  HisOrSafe(p, kind)
  <2>1. v \in Players
    BY <1>0, <1>1
  <2>2. /\ after \in Things
        /\ Hung(after, {p}, kind) <= Hung(Now, {p}, kind)
        /\ kind \in Untouchable => Hung(after, {p}, kind) = Hung(Now, {p}, kind)
    BY <1>0, <1>3, <2>1, BlownHung
  <2>3. Now' = after
    BY <1>3, <2>2, Becomes
  <2> QED
    BY <1>0, <2>2, <2>3 DEF HisOrSafe
<1>4. CASE UNCHANGED things
  BY <1>4, SameHung, SameIsSafe
<1> QED
  BY <1>1, <1>2, <1>3, <1>4

LEMMA RobSafe ==
  ASSUME Inv, OnTheWay, NEW p \in Players, NEW q, Rob(q), NEW kind \in Kinds
  PROVE  HisOrSafe(p, kind)
<1>0. /\ Furnished /\ Kept(Now, p) /\ IsFiniteSet({p}) /\ {p} \in SUBSET Players
      /\ welcomed' = welcomed /\ q \in welcomed /\ rides[q].to \in welcomed
      /\ Hung(Now, {p}, kind) \in Nat
  BY KeptNow, FS_Singleton, HangingIsFinite
     DEF Inv, Furnished, Rob, Arriving, OnTheRoad, OnTheWay, Riding
<1>1. CASE p \in welcomed
  <2>1. kind \in Untouchable => Hung(Now', {p}, kind) = Hung(Now, {p}, kind)
    BY <1>0, RobHung
  <2> QED
    BY <1>0, <1>1, <2>1 DEF HisOrSafe
<1>2. CASE p \notin welcomed
  <2>1. p # q /\ p # rides[q].to
    BY <1>0, <1>2
  <2>2. PICK fed \in {Now} \cup BlownOnHim(Now, q) :
          \E after \in Boarded(fed, q, rides[q].to) : Become(after)
    BY DEF Rob
  <2>3. PICK after \in Boarded(fed, q, rides[q].to) : Become(after)
    BY <2>2
  <2>4. Kept(fed, p)
    BY <1>0, <2>1, <2>2, KeptHelpers
  <2>5. CASE after = fed
    BY <2>3, <2>4, <2>5, KeptBecomes, SameIsSafe
  <2>6. CASE after # fed
    <3>1. PICK i : after = PutOn(InHouse(fed, rides[q].to, i, None), q, house[rides[q].to][i])
      BY <2>3, <2>6 DEF Boarded
    <3>2. Kept(InHouse(fed, rides[q].to, i, None), p)
      BY <2>1, <2>4, KeptElsewhere
    <3>3. Kept(after, p)
      BY <1>0, <2>1, <3>1, <3>2, KeptHelpers
    <3> QED
      BY <2>3, <3>3, KeptBecomes, SameIsSafe
  <2> QED
    BY <2>5, <2>6
<1> QED
  BY <1>1, <1>2

LEMMA VisitSafe ==
  ASSUME Inv, OnTheWay, NEW p \in Players, NEW q, Visit(q), NEW kind \in Kinds
  PROVE  HisOrSafe(p, kind)
<1>0. /\ IsFiniteSet({p}) /\ {p} \in SUBSET Players /\ Hung(Now, {p}, kind) \in Nat
      /\ DOMAIN rides \subseteq welcomed
  BY FS_Singleton, HangingIsFinite DEF Inv, Riding
<1>1. CASE Deliver(q)
  <2>1. /\ q \in DOMAIN rides
        /\ Hung(Now', {p}, kind) = Hung(Now, {p}, kind)
             + Of({p}, rides[q].to, One(rides[q].load, kind) - One(rides'[q].load, kind))
    BY <1>0, <1>1, DeliverHung
  <2>2. rides'[q].load \in {None, rides[q].load}
    <3>1. \E load \in {None, rides[q].load} : rides' = Arrived(q, load)
      BY <1>1 DEF Deliver
    <3> QED
      BY <2>1, <3>1 DEF Arrived, Inv, Riding, Ride
  <2>3. One(rides[q].load, kind) - One(rides'[q].load, kind) \in {0, 1}
    <3>1. One(None, kind) = 0
      BY KindFacts DEF One
    <3> QED
      BY <2>2, <3>1, OneType
  <2>4. rides[q].to \in welcomed /\ welcomed' = welcomed
    BY <1>1, <2>1 DEF OnTheWay, Deliver
  <2>5. CASE rides[q].to = p
    BY <1>0, <2>1, <2>3, <2>4, <2>5 DEF HisOrSafe, Of
  <2>6. CASE rides[q].to # p
    BY <1>0, <2>1, <2>3, <2>6 DEF HisOrSafe, Of
  <2> QED
    BY <2>5, <2>6
<1>2. CASE ComeHome(q)
  <2>1. /\ q \in DOMAIN rides
        /\ Hung(Now', {p}, kind) = Hung(Now, {p}, kind) + Of({p}, q, One(rides[q].load, kind))
    BY <1>0, <1>2, ComeHomeHung
  <2>2. q \in welcomed /\ welcomed' = welcomed
    BY <1>0, <1>2, <2>1 DEF ComeHome
  <2>3. CASE q = p
    BY <1>0, <2>1, <2>2, <2>3, OneType DEF HisOrSafe, Of
  <2>4. CASE q # p
    BY <1>0, <2>1, <2>4, OneType DEF HisOrSafe, Of
  <2> QED
    BY <2>3, <2>4
<1>3. CASE NothingHung(q)
  BY <1>3, SameHung, SameIsSafe DEF NothingHung
<1> QED
  BY <1>1, <1>2, <1>3, RobSafe, ThrowAtHouseSafe DEF Visit

\* A newborn takes no 🎈's place.
LEMMA BirthHung ==
  ASSUME Inv, NEW P \in SUBSET Players, IsFiniteSet(P), NEW q \in Players, Birth(q), NEW kind \in Kinds
  PROVE  /\ Hung(Now', P, kind) <= Hung(Now, P, kind)
         /\ kind \in Untouchable => Hung(Now', P, kind) = Hung(Now, P, kind)
<1>0. /\ Furnished /\ Now \in Things /\ Now.house = house /\ Now.gear = gear
      /\ Hung(Now, P, kind) \in Nat
  BY HangingIsFinite DEF Inv, Furnished, Now
<1>1. CASE UNCHANGED things
  BY <1>0, <1>1, SameHung
<1>2. ASSUME NEW i \in HouseSlots, house[q][i] \notin Untouchable \/ house[q][i] = None,
             house' = [house EXCEPT ![q][i] = Kid]
      PROVE  /\ Hung(Now', P, kind) <= Hung(Now, P, kind)
             /\ kind \in Untouchable => Hung(Now', P, kind) = Hung(Now, P, kind)
  <2>1. PICK u : u = InHouse(Now, q, i, Kid)
    OBVIOUS
  <2>2. Now' = u
    BY <1>2, <2>1 DEF Birth, InHouse, Now
  <2>3. Hung(u, P, kind)
          = Hung(Now, P, kind) + IF q \in P THEN One(Kid, kind) - One(house[q][i], kind) ELSE 0
    BY <1>0, <2>1, InHouseHung
  <2>4. One(Kid, kind) = 0 /\ (kind \in Untouchable => One(house[q][i], kind) = 0)
    BY <1>2, KindFacts DEF One
  <2> QED
    BY <1>0, <2>2, <2>3, <2>4, OneType
<1>3. CASE ~UNCHANGED things
  <2>1. PICK i \in IF Cradle(q) # {} THEN {Least(Cradle(q))} ELSE Others(q) :
          house' = [house EXCEPT ![q][i] = Kid]
    BY <1>3 DEF Birth, things
  <2>2. CASE Cradle(q) # {}
    <3>1. i \in HouseSlots /\ house[q][i] = None
      BY <1>0, <2>1, <2>2, FreeSlot DEF Cradle
    <3> QED
      BY <1>2, <2>1, <3>1
  <2>3. CASE Cradle(q) = {}
    <3>1. i \in HouseSlots /\ house[q][i] \notin Untouchable
      BY <2>1, <2>3 DEF Others
    <3> QED
      BY <1>2, <2>1, <3>1
  <2> QED
    BY <2>2, <2>3
<1> QED
  BY <1>1, <1>3

LEMMA WelcomeHung ==
  ASSUME Inv, Newcomers, NEW P \in SUBSET Players, IsFiniteSet(P), NEW q \in Players, Welcome(q),
         NEW kind \in Kinds
  PROVE  Hung(Now', P, kind) = Hung(Now, P, kind) + Of(P, q, One("balloon", kind))
<1>0. /\ Furnished /\ Now \in Things /\ Now.gear = gear /\ gear \in Gears
      /\ q \notin welcomed /\ "balloon" \in Kinds
  BY ConstantsOK DEF Inv, Furnished, Now, Things, Welcome
<1>1. 1 \in GearSlots /\ 1 <= CarriedLimit
  BY ConstantsOK DEF GearSlots
<1>2. gear[q][1] = None
  <2> SUFFICES ASSUME gear[q][1] # None PROVE FALSE
    OBVIOUS
  <2>1. gear[q][1] \in Kinds
    BY <1>0, <1>1 DEF Gears
  <2>2. PICK k : k = gear[q][1]
    OBVIOUS
  <2>3. <<q, <<"gear", 1>>>> \in Hanging(Now, {q}, k)
    BY <1>0, <1>1, <2>2 DEF Hanging, At, AllSlots
  <2>4. IsFiniteSet(Hanging(Now, {q}, k)) /\ Hung(Now, {q}, k) = 0
    BY <1>0, <2>1, <2>2, HangingIsFinite, FS_Singleton DEF Newcomers
  <2> QED
    BY <2>3, <2>4, FS_EmptySet DEF Hung
<1>3. Free(Now.gear[q], CarriedLimit) # {}
  BY <1>0, <1>1, <1>2 DEF Free, Gears
<1>4. PICK u : u = PutOn(Now, q, "balloon")
  OBVIOUS
<1>5. u \in Things /\ Hung(u, P, kind) = Hung(Now, P, kind) + Of(P, q, One("balloon", kind))
  BY <1>0, <1>3, <1>4, PutOnHung
<1>6. Now' = u
  BY <1>4, <1>5, Becomes DEF Welcome
<1> QED
  BY <1>5, <1>6

LEMMA NextSafe ==
  ASSUME Inv, Holding, OnTheWay, Newcomers, [Next]_vars, NEW p \in Players, NEW kind \in Kinds
  PROVE  HisOrSafe(p, kind)
<1>0. /\ IsFiniteSet({p}) /\ {p} \in SUBSET Players /\ Hung(Now, {p}, kind) \in Nat /\ Furnished
  BY FS_Singleton, HangingIsFinite DEF Inv
<1>1. ASSUME NEW q \in Players, Handler(q) PROVE HisOrSafe(p, kind)
  <2>1. welcomed' = welcomed
    BY <1>1 DEF Handler, AtHomeErrand, Buy, FurnitureMove, GearTake, GearStore, Claim, Leave, Burn,
                ThrowAtPlace, BurnChild, SetOff, TurnBack
  <2> QED
    BY <1>1, <2>1, HandlerSafe
<1>2. ASSUME NEW q \in Players, Visit(q) PROVE HisOrSafe(p, kind)
  BY <1>2, VisitSafe
<1>3. ASSUME NEW q \in Players, Birth(q) PROVE HisOrSafe(p, kind)
  <2>1. /\ Hung(Now', {p}, kind) <= Hung(Now, {p}, kind)
        /\ kind \in Untouchable => Hung(Now', {p}, kind) = Hung(Now, {p}, kind)
    BY <1>0, <1>3, BirthHung
  <2> QED
    BY <1>0, <2>1 DEF HisOrSafe
<1>4. ASSUME NEW q \in Players, Welcome(q) PROVE HisOrSafe(p, kind)
  <2>1. Hung(Now', {p}, kind) = Hung(Now, {p}, kind) + Of({p}, q, One("balloon", kind))
    BY <1>0, <1>4, WelcomeHung
  <2>2. q \in welcomed'
    BY <1>4 DEF Welcome
  <2>3. CASE q = p
    BY <1>0, <2>1, <2>2, <2>3, OneType DEF HisOrSafe, Of
  <2>4. CASE q # p
    BY <1>0, <2>1, <2>4, OneType DEF HisOrSafe, Of
  <2> QED
    BY <2>3, <2>4
<1>5. CASE Grow
  BY <1>0, <1>5, GrowHung, SameIsSafe
<1>6. CASE SortOut
  BY <1>0, <1>6, SortedHung, SameIsSafe
<1>7. CASE RoundEnds \/ UNCHANGED vars
  <2>1. UNCHANGED things
    BY <1>7 DEF RoundEnds, vars, things
  <2> QED
    BY <2>1, SameHung, SameIsSafe
<1> QED
  BY <1>1, <1>2, <1>3, <1>4, <1>5, <1>6, <1>7 DEF Next, Plays, Keeper

LEMMA NextNewcomers ==
  ASSUME Inv, Holding, OnTheWay, Newcomers, [Next]_vars PROVE Newcomers'
<1>1. welcomed \subseteq welcomed'
  <2>1. ASSUME NEW p \in Players, Handler(p) PROVE welcomed' = welcomed
    BY <2>1 DEF Handler, AtHomeErrand, Buy, FurnitureMove, GearTake, GearStore, Claim, Leave, Burn,
                ThrowAtPlace, BurnChild, SetOff, TurnBack
  <2>2. ASSUME NEW p, Visit(p) PROVE welcomed' = welcomed
    BY <2>2 DEF Visit, Deliver, NothingHung, ThrowAtHouse, Rob, ComeHome
  <2>3. ASSUME NEW p, Welcome(p) \/ Birth(p) PROVE welcomed \subseteq welcomed'
    BY <2>3 DEF Welcome, Birth
  <2>4. CASE Grow \/ RoundEnds \/ SortOut \/ UNCHANGED vars
    BY <2>4 DEF Grow, RoundEnds, SortOut, vars
  <2> QED
    BY <2>1, <2>2, <2>3, <2>4 DEF Next, Plays, Keeper
<1>2. ASSUME NEW p \in Players, p \notin welcomed', NEW kind \in Kinds
      PROVE  Hung(Now', {p}, kind) = 0
  <2>1. Hung(Now', {p}, kind) <= Hung(Now, {p}, kind)
    BY <1>2, NextSafe DEF HisOrSafe
  <2>2. Hung(Now, {p}, kind) = 0
    BY <1>1, <1>2 DEF Newcomers
  <2>3. Hung(Now', {p}, kind) \in Nat
    <3>1. PICK u : u = Now'
      OBVIOUS
    <3> QED
      BY <3>1, HangingIsFinite, FS_Singleton
  <2> QED
    BY <2>1, <2>2, <2>3
<1> QED
  BY <1>2 DEF Newcomers

LEMMA InitOnTheWay == Init => OnTheWay /\ Newcomers
<1> SUFFICES ASSUME Init PROVE OnTheWay /\ Newcomers
  OBVIOUS
<1>1. OnTheWay
  BY DEF Init, OnTheWay
<1>2. CASE welcomed = Players
  BY <1>1, <1>2 DEF Newcomers
<1>3. CASE house = [p \in Players |-> NoHouse] /\ gear = [p \in Players |-> NoGear]
  <2>1. ASSUME NEW p \in Players, NEW kind \in Kinds PROVE Hung(Now, {p}, kind) = 0
    <3>1. ASSUME NEW x \in {p} \X AllSlots PROVE At(Now, x) = None
      BY <1>3, <3>1 DEF At, AllSlots, Now, NoHouse, NoGear
    <3>2. Hanging(Now, {p}, kind) = {}
      BY <3>1, KindFacts DEF Hanging
    <3> QED
      BY <3>2, FS_EmptySet DEF Hung
  <2> QED
    BY <1>1, <2>1 DEF Newcomers
<1> QED
  BY <1>2, <1>3 DEF Init

\* No explosion, no 🏴‍☠️, no newborn and nothing the keeper does takes a 🎈: one leaves its
\* owner by a command of his own (blow_up, board and births never pick it), or with
\* everything else he has as a ☢️ sends him back to the start.
THEOREM TheBalloonsStay == Spec => BalloonsStay
<1> DEFINE Stays(p) == Balloons(p)' < Balloons(p) =>
             Handler(p) \/ (house'[p] = NoHouse /\ gear'[p] = FirstGear)
           All == Inv /\ Holding /\ OnTheWay /\ Newcomers
<1>1. Init => All
  BY InitInv, InitHolding, InitOnTheWay
<1>2. All /\ [Next]_vars => All'
  BY NextInv, NextHolding, NextOnTheWay, NextNewcomers
<1>3. \A p : Balloons(p) = Hung(Now, {p}, "balloon") /\ Hung(Now, {p}, "balloon") \in Nat
  BY BalloonsAreHung, HangingIsFinite, FS_Singleton
<1>4. (\A p : Balloons(p) = Hung(Now, {p}, "balloon") /\ Hung(Now, {p}, "balloon") \in Nat)'
  BY <1>3, PTL
<1>5. ASSUME All, [Next]_vars, NEW p \in Players PROVE Stays(p)
  <2>1. HisOrSafe(p, "balloon")
    BY <1>5, NextSafe, ConstantsOK
  <2> QED
    BY <1>3, <1>4, <2>1 DEF HisOrSafe, Untouchable
<1>6. All /\ [Next]_vars => [\A p \in Players : Stays(p)]_vars
  BY <1>5
<1> QED
  BY <1>1, <1>2, <1>6, PTL DEF Spec, BalloonsStay

-----------------------------------------------------------------------------
(* The ones on the road. *)

Carrying(r, kind) == {p \in DOMAIN r : r[p].load = kind}
Loads(r, kind) == Cardinality(Carrying(r, kind))

Total(t, r, kind) == Hung(t, Players, kind) + Loads(r, kind)

LEMMA LoadsAreFinite ==
  ASSUME NEW r, DOMAIN r \subseteq Players, NEW kind
  PROVE  IsFiniteSet(Carrying(r, kind)) /\ Loads(r, kind) \in Nat
<1>1. Carrying(r, kind) \subseteq Players
  BY DEF Carrying
<1>2. IsFiniteSet(Carrying(r, kind))
  BY <1>1, PlayersOK, FS_Subset
<1> QED
  BY <1>2, FS_CardinalityType DEF Loads

\* One rider takes something up, or puts it down.
LEMMA OneRider ==
  ASSUME NEW r, DOMAIN r \subseteq Players, NEW s, NEW kind, NEW p,
         \A q : q # p => (q \in Carrying(s, kind) <=> q \in Carrying(r, kind))
  PROVE  Loads(s, kind) = Loads(r, kind) + (IF p \in Carrying(s, kind) THEN 1 ELSE 0)
                                         - (IF p \in Carrying(r, kind) THEN 1 ELSE 0)
<1> DEFINE S == Carrying(s, kind)
           R == Carrying(r, kind)
<1>1. IsFiniteSet(R) /\ Cardinality(R) \in Nat
  BY LoadsAreFinite DEF Loads
<1>2. \A q : q # p => (q \in S <=> q \in R)
  OBVIOUS
<1> HIDE DEF S, R
<1>3. CASE p \in S <=> p \in R
  <2>1. S = R
    BY <1>2, <1>3
  <2> QED
    BY <1>1, <2>1 DEF Loads, S, R
<1>4. CASE p \in S /\ p \notin R
  <2>1. S = R \cup {p}
    BY <1>2, <1>4
  <2>2. Cardinality(S) = Cardinality(R) + 1
    BY <1>1, <1>4, <2>1, FS_AddElement
  <2> QED
    BY <1>1, <1>4, <2>2 DEF Loads, S, R
<1>5. CASE p \notin S /\ p \in R
  <2>1. S = R \ {p}
    BY <1>2, <1>5
  <2>2. Cardinality(S) = Cardinality(R) - 1
    BY <1>1, <1>5, <2>1, FS_RemoveElement
  <2> QED
    BY <1>1, <1>5, <2>2 DEF Loads, S, R
<1> QED
  BY <1>3, <1>4, <1>5

LEMMA OneLoad ==
  ASSUME NEW r, DOMAIN r \subseteq Players, NEW s, DOMAIN s = DOMAIN r, NEW p \in DOMAIN r,
         \A q \in DOMAIN r \ {p} : s[q].load = r[q].load, NEW kind
  PROVE  Loads(s, kind) = Loads(r, kind) + One(s[p].load, kind) - One(r[p].load, kind)
<1>1. \A q : q # p => (q \in Carrying(s, kind) <=> q \in Carrying(r, kind))
  BY DEF Carrying
<1>2. (p \in Carrying(s, kind) <=> s[p].load = kind) /\ (p \in Carrying(r, kind) <=> r[p].load = kind)
  BY DEF Carrying
<1>3. Loads(s, kind) = Loads(r, kind) + (IF p \in Carrying(s, kind) THEN 1 ELSE 0)
                                      - (IF p \in Carrying(r, kind) THEN 1 ELSE 0)
  BY <1>1, OneRider
<1> QED
  BY <1>2, <1>3 DEF One

LEMMA ArrivedLoads ==
  ASSUME Inv, NEW p \in DOMAIN rides, NEW load, NEW s, s = Arrived(p, load), NEW kind
  PROVE  Loads(s, kind) = Loads(rides, kind) + One(load, kind) - One(rides[p].load, kind)
<1>1. rides \in [DOMAIN rides -> Ride] /\ DOMAIN rides \subseteq Players
  BY DEF Inv, Riding
<1>2. /\ DOMAIN s = DOMAIN rides /\ s[p].load = load
      /\ \A q \in DOMAIN rides \ {p} : s[q].load = rides[q].load
  BY <1>1 DEF Arrived, Ride
<1> QED
  BY <1>1, <1>2, OneLoad

-----------------------------------------------------------------------------
(* What only moves emoji keeps them. *)

LEMMA SetOffTotal ==
  ASSUME Inv, NEW p \in Players, NEW q, NEW load \in Kinds \cup {None, Palle}, NEW intact,
         SetOff(p, q, load, intact), NEW kind \in Kinds
  PROVE  Total(Now', rides', kind) = Total(Now, rides, kind)
<1>1. Hung(Now', Players, kind) = Hung(Now, Players, kind) - One(load, kind)
  BY PlayersOK, SetOffHung DEF Of
<1>2. /\ DOMAIN rides \subseteq Players /\ p \notin DOMAIN rides
      /\ rides' = [r \in DOMAIN rides \cup {p} |->
                 IF r = p THEN [to |-> q, stage |-> "out", load |-> load, intact |-> intact]
                 ELSE rides[r]]
  BY DEF Inv, Riding, SetOff, AtHome, OnTheRoad
<1>3. PICK s : s = rides'
  OBVIOUS
<1>4. /\ \A r : r # p => (r \in Carrying(s, kind) <=> r \in Carrying(rides, kind))
      /\ p \notin Carrying(rides, kind) /\ (p \in Carrying(s, kind) <=> load = kind)
  BY <1>2, <1>3 DEF Carrying
<1>5. Loads(s, kind) = Loads(rides, kind) + One(load, kind)
  <2>1. Loads(s, kind) = Loads(rides, kind) + (IF p \in Carrying(s, kind) THEN 1 ELSE 0)
                                        - (IF p \in Carrying(rides, kind) THEN 1 ELSE 0)
    BY <1>2, <1>4, OneRider
  <2> QED
    BY <1>2, <1>4, <2>1, LoadsAreFinite DEF One
<1>6. Hung(Now, Players, kind) \in Nat /\ Loads(rides, kind) \in Nat /\ One(load, kind) \in {0, 1}
  BY <1>2, PlayersOK, HangingIsFinite, LoadsAreFinite, OneType
<1> QED
  BY <1>1, <1>3, <1>5, <1>6 DEF Total

LEMMA DeliverTotal ==
  ASSUME Inv, NEW p, Deliver(p), NEW kind \in Kinds
  PROVE  Total(Now', rides', kind) = Total(Now, rides, kind)
<1>1. /\ p \in DOMAIN rides
      /\ Hung(Now', Players, kind)
           = Hung(Now, Players, kind) + (One(rides[p].load, kind) - One(rides'[p].load, kind))
  BY PlayersOK, DeliverHung DEF Of
<1>2. PICK load : rides' = Arrived(p, load)
  BY DEF Deliver
<1>3. rides'[p].load = load /\ DOMAIN rides \subseteq Players
  BY <1>1, <1>2 DEF Arrived, Inv, Riding, Ride
<1>4. Loads(rides', kind) = Loads(rides, kind) + One(load, kind) - One(rides[p].load, kind)
  BY <1>1, <1>2, ArrivedLoads
<1>5. Hung(Now, Players, kind) \in Nat /\ Loads(rides, kind) \in Nat
  BY <1>3, PlayersOK, HangingIsFinite, LoadsAreFinite
<1> QED
  BY <1>1, <1>3, <1>4, <1>5, OneType DEF Total

LEMMA ComeHomeTotal ==
  ASSUME Inv, NEW p, ComeHome(p), NEW kind \in Kinds
  PROVE  Total(Now', rides', kind) = Total(Now, rides, kind)
<1>1. /\ p \in DOMAIN rides
      /\ Hung(Now', Players, kind) = Hung(Now, Players, kind) + One(rides[p].load, kind)
  BY PlayersOK, ComeHomeHung DEF Of
<1>2. rides \in [DOMAIN rides -> Ride] /\ DOMAIN rides \subseteq Players
  BY DEF Inv, Riding
<1>3. PICK s : s = rides'
  OBVIOUS
<1>4. /\ DOMAIN s = DOMAIN rides /\ s[p].load = None
      /\ \A q \in DOMAIN rides \ {p} : s[q].load = rides[q].load
  BY <1>1, <1>2, <1>3 DEF ComeHome, Ride
<1>5. Loads(s, kind) = Loads(rides, kind) + One(None, kind) - One(rides[p].load, kind)
  BY <1>1, <1>2, <1>4, OneLoad
<1>6. Hung(Now, Players, kind) \in Nat /\ Loads(rides, kind) \in Nat /\ One(None, kind) = 0
  BY <1>2, PlayersOK, HangingIsFinite, LoadsAreFinite, KindFacts DEF One
<1> QED
  BY <1>1, <1>3, <1>5, <1>6, OneType DEF Total

\* Whoever is home carries nothing, so nothing leaves the list with him.
LEMMA RoundEndsTotal ==
  ASSUME Inv, OnTheWay, RoundEnds, NEW kind \in Kinds
  PROVE  Total(Now', rides', kind) = Total(Now, rides, kind)
<1>1. PICK s : s = rides'
  OBVIOUS
<1>2. Carrying(s, kind) = Carrying(rides, kind)
  BY <1>1, KindFacts DEF RoundEnds, OnTheWay, Carrying
<1>3. Hung(Now', Players, kind) = Hung(Now, Players, kind)
  BY SameHung DEF RoundEnds
<1> QED
  BY <1>1, <1>2, <1>3 DEF Total, Loads

LEMMA RideTotal ==
  ASSUME Inv, NEW p, NothingHung(p) \/ TurnBack(p), NEW kind \in Kinds
  PROVE  Total(Now', rides', kind) = Total(Now, rides, kind)
<1>1. p \in DOMAIN rides /\ rides \in [DOMAIN rides -> Ride] /\ DOMAIN rides \subseteq Players
  BY DEF Inv, Riding, NothingHung, TurnBack, Arriving, OnTheRoad
<1>2. Hung(Now', Players, kind) = Hung(Now, Players, kind)
  BY SameHung DEF NothingHung, TurnBack
<1>3. PICK s : s = rides'
  OBVIOUS
<1>4. /\ DOMAIN s = DOMAIN rides
      /\ \A q \in DOMAIN rides \ {p} : s[q].load = rides[q].load
      /\ One(s[p].load, kind) = One(rides[p].load, kind)
  <2>1. CASE TurnBack(p)
    BY <1>1, <1>3, <2>1 DEF TurnBack, Ride
  <2>2. CASE NothingHung(p)
    <3>1. PICK load : s = Arrived(p, load) /\ One(load, kind) = One(rides[p].load, kind)
      BY <1>3, <2>2, KindFacts DEF NothingHung, One
    <3> QED
      BY <1>1, <3>1 DEF Arrived, Ride
  <2> QED
    BY <2>1, <2>2
<1>5. Loads(s, kind) = Loads(rides, kind) + One(s[p].load, kind) - One(rides[p].load, kind)
  BY <1>1, <1>4, OneLoad
<1>6. Loads(rides, kind) \in Nat
  BY <1>1, LoadsAreFinite
<1> QED
  BY <1>2, <1>3, <1>4, <1>5, <1>6, OneType DEF Total

LEMMA RobTotal ==
  ASSUME Inv, NEW p, Rob(p), NEW kind \in Kinds
  PROVE  Total(Now', rides', kind) <= Total(Now, rides, kind)
<1>1. Hung(Now', Players, kind) <= Hung(Now, Players, kind)
  BY PlayersOK, RobHung
<1>2. p \in DOMAIN rides /\ DOMAIN rides \subseteq Players /\ rides[p].load = None /\ rides' = Arrived(p, None)
  BY DEF Inv, Riding, Rob, Arriving, OnTheRoad
<1>3. Loads(rides', kind) = Loads(rides, kind) + One(None, kind) - One(rides[p].load, kind)
  BY <1>2, ArrivedLoads
<1>4. Hung(Now, Players, kind) \in Nat /\ Loads(rides, kind) \in Nat
  BY <1>2, PlayersOK, HangingIsFinite, LoadsAreFinite
<1>5. PICK u : u = Now'
  OBVIOUS
<1>6. Hung(u, Players, kind) \in Nat
  BY PlayersOK, HangingIsFinite
<1> QED
  BY <1>1, <1>2, <1>3, <1>4, <1>5, <1>6, OneType DEF Total

LEMMA CopiesAreCounted == ASSUME NEW kind PROVE Copies(kind) = Total(Now, rides, kind)
<1>1. /\ HouseHanging(Now, Players, kind)
           = {s \in Players \X HouseSlots : house[s[1]][s[2]] = kind}
      /\ GearHanging(Now, Players, kind)
           = {s \in Players \X GearSlots : gear[s[1]][s[2]] = kind}
  BY DEF HouseHanging, GearHanging, Now
<1>2. Hung(Now, Players, kind)
        = Cardinality(HouseHanging(Now, Players, kind)) + Cardinality(GearHanging(Now, Players, kind))
  BY PlayersOK, Halves
<1> QED
  BY <1>1, <1>2 DEF Copies, Total, Loads, Carrying

\* A command that buys, burns or throws nothing only moves emoji.
LEMMA ErrandTotal ==
  ASSUME Inv, NEW p \in Players, Handler(p), NEW kind \in Kinds
  PROVE  \/ Total(Now', rides', kind) = Total(Now, rides, kind)
         \/ \E k \in Kinds : Burn(p, k) \/ ThrowAtPlace(p, k)
         \/ \E k \in ForSale, at \in 0 .. HouseLimit : Buy(p, k, at)
<1> DEFINE Even == Total(Now', rides', kind) = Total(Now, rides, kind)
<1>0. Players \in SUBSET Players /\ IsFiniteSet(Players)
  BY PlayersOK
<1>1. ASSUME Hung(Now', Players, kind) = Hung(Now, Players, kind), UNCHANGED rides PROVE Even
  BY <1>1 DEF Total
<1>2. ASSUME NEW from \in 1 .. HouseLimit, NEW to \in 1 .. HouseLimit, FurnitureMove(p, from, to)
      PROVE  Even
  <2>1. Hung(Now', Players, kind) = Hung(Now, Players, kind)
    BY <1>0, <1>2, FurnitureMoveHung
  <2> QED
    BY <1>1, <1>2, <2>1 DEF FurnitureMove
<1>3. ASSUME NEW k \in Kinds, NEW swap, GearTake(p, k, swap) PROVE Even
  <2>1. Hung(Now', Players, kind) = Hung(Now, Players, kind)
    BY <1>0, <1>3, GearTakeHung
  <2> QED
    BY <1>1, <1>3, <2>1 DEF GearTake
<1>4. ASSUME NEW k \in Kinds, GearStore(p, k) PROVE Even
  <2>1. Hung(Now', Players, kind) = Hung(Now, Players, kind)
    BY <1>0, <1>4, GearStoreHung
  <2> QED
    BY <1>1, <1>4, <2>1 DEF GearStore
<1>5. CASE Claim(p) \/ Leave(p)
  <2>1. Hung(Now', Players, kind) = Hung(Now, Players, kind) /\ UNCHANGED rides
    BY <1>5, SameHung DEF Claim, Leave
  <2> QED
    BY <1>1, <2>1
<1>6. ASSUME NEW c \in children, BurnChild(p, c) PROVE Even
  <2>1. Hung(Now', Players, kind) = Hung(Now, Players, kind)
    BY <1>0, <1>6, BurnChildHung
  <2> QED
    BY <1>1, <1>6, <2>1 DEF BurnChild
<1>7. ASSUME NEW q \in Players, NEW load \in Kinds \cup {None, Palle}, NEW intact \in BOOLEAN,
             SetOff(p, q, load, intact)
      PROVE  Even
  BY <1>7, SetOffTotal
<1>8. CASE TurnBack(p)
  BY <1>8, RideTotal
<1> QED
  BY <1>2, <1>3, <1>4, <1>5, <1>6, <1>7, <1>8 DEF Handler, AtHomeErrand

LEMMA VisitTotal ==
  ASSUME Inv, NEW p, Visit(p), NEW kind \in Kinds
  PROVE  \/ Total(Now', rides', kind) = Total(Now, rides, kind)
         \/ ThrowAtHouse(p) \/ Rob(p)
BY DeliverTotal, RideTotal, ComeHomeTotal DEF Visit

LEMMA NextTotal ==
  ASSUME Inv, OnTheWay, [Next]_vars, NEW kind \in Kinds
  PROVE  \/ Total(Now', rides', kind) = Total(Now, rides, kind)
         \/ \E p \in Players :
              \/ Welcome(p) \/ Birth(p) \/ ThrowAtHouse(p) \/ Rob(p)
              \/ \E k \in Kinds : Burn(p, k) \/ ThrowAtPlace(p, k)
              \/ \E k \in ForSale, at \in 0 .. HouseLimit : Buy(p, k, at)
<1>0. Players \in SUBSET Players /\ IsFiniteSet(Players) /\ Furnished
  BY PlayersOK DEF Inv
<1>1. CASE Grow
  <2>1. Hung(Now', Players, kind) = Hung(Now, Players, kind) /\ UNCHANGED rides
    BY <1>0, <1>1, GrowHung DEF Grow
  <2> QED
    BY <2>1 DEF Total
<1>2. CASE SortOut
  <2>1. Hung(Now', Players, kind) = Hung(Now, Players, kind) /\ UNCHANGED rides
    BY <1>0, <1>2, SortedHung DEF SortOut
  <2> QED
    BY <2>1 DEF Total
<1>3. CASE UNCHANGED vars
  <2>1. UNCHANGED things /\ UNCHANGED rides
    BY <1>3 DEF vars, things
  <2> QED
    BY <2>1, SameHung DEF Total
<1>4. CASE RoundEnds
  BY <1>4, RoundEndsTotal
<1> QED
  BY <1>1, <1>2, <1>3, <1>4, ErrandTotal, VisitTotal DEF Next, Plays, Keeper

\* Errands, rides, presents, boardings, homecomings, growth and the sorting out of an old
\* save move emoji from one slot to another: what take_emoji, put_on or receive puts down
\* is what was taken up, never one more, never one less.  Only a purchase, a fire, an
\* explosion, a ☢️, a newborn and a welcome change how many there are, and a robbery by
\* the one the 🦖 eats.
THEOREM NoneIsDoubledOrLost == Spec => EmojiOnlyChangeHands
<1> DEFINE All == Inv /\ OnTheWay
           OnlyMoves ==
             \/ UNCHANGED <<things, rides>>
             \/ \A kind \in Kinds : Copies(kind)' = Copies(kind)
             \/ MakesOrDestroys
<1>1. Init => All
  BY InitInv, InitOnTheWay
<1>2. All /\ [Next]_vars => All'
  BY NextInv, NextOnTheWay
<1>3. \A kind : Copies(kind) = Total(Now, rides, kind)
  BY CopiesAreCounted
<1>4. (\A kind : Copies(kind) = Total(Now, rides, kind))'
  BY <1>3, PTL
<1>5. ASSUME All, [Next]_vars PROVE OnlyMoves
  <2>1. ASSUME NEW p \in Players, Rob(p) PROVE MakesOrDestroys
    <3>1. \A kind \in Kinds : Copies(kind)' <= Copies(kind)
      BY <1>3, <1>4, <1>5, <2>1, RobTotal
    <3> QED
      BY <2>1, <3>1 DEF MakesOrDestroys
  <2>2. CASE \E p \in Players :
               \/ Welcome(p) \/ Birth(p) \/ ThrowAtHouse(p)
               \/ \E k \in Kinds : Burn(p, k) \/ ThrowAtPlace(p, k)
               \/ \E k \in ForSale, at \in 0 .. HouseLimit : Buy(p, k, at)
    BY <2>2 DEF MakesOrDestroys
  <2>3. CASE \A kind \in Kinds : Total(Now', rides', kind) = Total(Now, rides, kind)
    BY <1>3, <1>4, <2>3
  <2> QED
    BY <1>5, <2>1, <2>2, <2>3, NextTotal
<1>6. All /\ [Next]_vars => [OnlyMoves]_vars
  BY <1>5
<1> QED
  BY <1>1, <1>2, <1>6, PTL DEF Spec, EmojiOnlyChangeHands

-----------------------------------------------------------------------------
(* The types: how many children there may be, and an empty place holds nothing. *)

LEMMA ChildIsFinite == IsFiniteSet(Child)
<1> DEFINE Pairs == (Players \X HouseSlots) \X (BOOLEAN \X (Ages \X BOOLEAN))
           f == [c \in Child |-> <<<<c.owner, c.slot>>, <<c.male, <<c.age, c.courted>>>>>>]
<1>1. IsFiniteSet(BOOLEAN) /\ IsFiniteSet(Ages)
  <2>1. IsFiniteSet({TRUE}) /\ IsFiniteSet({FALSE})
    BY FS_Singleton
  <2>2. IsFiniteSet({TRUE} \cup {FALSE})
    BY <2>1, FS_Union
  <2>3. BOOLEAN = {TRUE} \cup {FALSE}
    OBVIOUS
  <2>4. IsFiniteSet(Ages)
    <3>1. PICK a \in Int, b \in Int : a = 0 /\ b = 3
      OBVIOUS
    <3>2. IsFiniteSet(a .. b)
      BY FS_Interval
    <3> QED
      BY <3>1, <3>2 DEF Ages
  <2> QED
    BY <2>2, <2>3, <2>4
<1>2. IsFiniteSet(Players \X HouseSlots) /\ IsFiniteSet(BOOLEAN \X (Ages \X BOOLEAN))
  BY <1>1, PlayersOK, SlotsAreFinite, FS_Product
<1>3. IsFiniteSet(Pairs)
  BY <1>2, FS_Product
<1>4. f \in [Child -> Pairs]
  BY DEF Child
<1>5. \A c, d \in Child : f[c] = f[d] => c = d
  BY DEF Child
<1>6. f \in Injection(Child, Pairs)
  <2> HIDE DEF f, Pairs
  <2> QED
    BY <1>4, <1>5 DEF Injection, IsInjective
<1> QED
  BY <1>3, <1>6, FS_Injection

Rest ==
  /\ expecting \in [Players -> Nat]
  /\ acts \in Nat /\ born \in Nat
  /\ split \in BOOLEAN
  /\ hold.who = Nobody => hold = Vacant

LEMMA VacantIsNobodys == Vacant.who = Nobody
BY DEF Vacant

LEMMA LosesOrKeeps ==
  ASSUME Holding, Rest, NEW after, hold' = LoseBolts(after)
  PROVE  hold'.who = Nobody => hold' = Vacant
<1>1. CASE hold' = hold
  BY <1>1 DEF Rest
<1>2. CASE hold' # hold
  <2>1. hold.who # Nobody /\ hold'.who = hold.who
    BY <1>2 DEF LoseBolts, Holding
  <2> QED
    BY <2>1
<1> QED
  BY <1>1, <1>2

LEMMA HandlerRest ==
  ASSUME Inv, Holding, Rest, split' = split, NEW p \in Players, Handler(p) PROVE Rest'
<1>0. p # Nobody /\ expecting \in [Players -> Nat] /\ acts \in Nat /\ born \in Nat /\ split \in BOOLEAN
  BY ConstantsOK DEF Rest
<1>1. ASSUME UNCHANGED expecting, UNCHANGED born, acts' \in Nat, hold'.who = Nobody => hold' = Vacant
      PROVE  Rest'
  BY <1>0, <1>1 DEF Rest
<1>2. \A after : hold' = LoseBolts(after) => (hold'.who = Nobody => hold' = Vacant)
  BY LosesOrKeeps
<1>3. (hold' = hold \/ hold' = Vacant) => (hold'.who = Nobody => hold' = Vacant)
  BY DEF Rest
<1>4. CASE AtHomeErrand(p)
  <2>1. /\ UNCHANGED expecting /\ UNCHANGED born /\ acts' = acts + 1
        /\ hold' = hold \/ hold' = Vacant
    BY <1>4 DEF AtHomeErrand, Buy, FurnitureMove, GearTake, GearStore, Counted, GoesHome, family
  <2> QED
    BY <1>0, <1>1, <1>3, <2>1
<1>5. CASE Claim(p)
  <2>1. PICK bolts, percent, lobsters :
          hold' = [who |-> p, bolts |-> bolts, percent |-> percent, lobsters |-> lobsters]
    BY <1>5 DEF Claim
  <2>2. UNCHANGED expecting /\ UNCHANGED born /\ acts' = acts
    BY <1>5 DEF Claim, family
  <2> QED
    BY <1>0, <1>1, <2>1, <2>2
<1>6. CASE Leave(p) \/ TurnBack(p)
  <2>1. UNCHANGED expecting /\ UNCHANGED born /\ acts' = acts /\ (hold' = hold \/ hold' = Vacant)
    BY <1>6 DEF Leave, TurnBack, family
  <2> QED
    BY <1>0, <1>1, <1>3, <2>1
<1>7. ASSUME NEW k \in Kinds, Burn(p, k) PROVE Rest'
  <2>1. UNCHANGED expecting /\ UNCHANGED born /\ acts' = acts + 1 /\ hold' = LoseBolts(Taken(p, k))
    BY <1>7 DEF Burn, Counted, family
  <2> QED
    BY <1>0, <1>1, <1>2, <2>1
<1>8. ASSUME NEW k \in Kinds, ThrowAtPlace(p, k) PROVE Rest'
  <2>1. acts' = acts + 1
    BY <1>8 DEF ThrowAtPlace, Counted
  <2>2. CASE StartAllOver
    BY <1>0, <2>1, <2>2, VacantIsNobodys DEF StartAllOver, Rest
  <2>3. CASE ~StartAllOver
    <3>1. /\ expecting' = [expecting EXCEPT ![hold.who] = @ + 1] \/ UNCHANGED expecting
          /\ born' = born + 1 \/ UNCHANGED born
      BY <1>8, <2>3 DEF ThrowAtPlace
    <3>2. PICK after : hold' = LoseBolts(after)
      BY <1>8, <2>3 DEF ThrowAtPlace
    <3>3. expecting' \in [Players -> Nat] /\ born' \in Nat
      BY <1>0, <3>1
    <3> QED
      BY <1>0, <1>2, <2>1, <3>2, <3>3 DEF Rest
  <2> QED
    BY <2>2, <2>3
<1>9. ASSUME NEW c, BurnChild(p, c) PROVE Rest'
  <2>1. UNCHANGED expecting /\ UNCHANGED born /\ acts' = acts + 1 /\ hold' = hold
    BY <1>9 DEF BurnChild, Counted
  <2> QED
    BY <1>0, <1>1, <1>3, <2>1
<1>10. ASSUME NEW q, NEW load, NEW intact, SetOff(p, q, load, intact) PROVE Rest'
  <2>1. UNCHANGED expecting /\ UNCHANGED born /\ acts' = acts + 1 /\ hold' = hold
    BY <1>10 DEF SetOff, Counted, family
  <2> QED
    BY <1>0, <1>1, <1>3, <2>1
<1> QED
  BY <1>4, <1>5, <1>6, <1>7, <1>8, <1>9, <1>10 DEF Handler

LEMMA VisitRest == ASSUME Inv, Holding, Rest, split' = split, NEW p, Visit(p) PROVE Rest'
<1>0. expecting \in [Players -> Nat] /\ acts \in Nat /\ born \in Nat /\ split \in BOOLEAN
  BY DEF Rest
<1>1. CASE UNCHANGED family /\ UNCHANGED acts /\ UNCHANGED hold
  BY <1>0, <1>1 DEF Rest, family
<1>2. CASE Deliver(p) \/ NothingHung(p) \/ Rob(p) \/ ComeHome(p)
  BY <1>1, <1>2 DEF Deliver, NothingHung, Rob, ComeHome
<1>3. CASE ThrowAtHouse(p)
  <2>1. PICK v :
          \/ StartOver(v, Arrived(p, None))
          \/ UNCHANGED <<hold, family>>
          \/ /\ expecting' = [expecting EXCEPT ![v] = @ + 1] /\ born' = born + 1
             /\ UNCHANGED hold
    BY <1>3 DEF ThrowAtHouse
  <2>2. UNCHANGED acts
    BY <1>3 DEF ThrowAtHouse
  <2>3. CASE StartOver(v, Arrived(p, None))
    <3>1. /\ hold' = hold \/ hold' = Vacant
          /\ expecting' = [expecting EXCEPT ![v] = 0] /\ UNCHANGED born
      BY <2>3 DEF StartOver
    <3>2. expecting' \in [Players -> Nat]
      BY <1>0, <3>1
    <3> QED
      BY <1>0, <2>2, <3>1, <3>2 DEF Rest
  <2>4. CASE UNCHANGED <<hold, family>>
    BY <1>1, <2>2, <2>4
  <2>5. CASE expecting' = [expecting EXCEPT ![v] = @ + 1] /\ born' = born + 1 /\ UNCHANGED hold
    <3>1. expecting' \in [Players -> Nat]
      <4>1. CASE v \in Players
        BY <1>0, <2>5, <4>1
      <4>2. CASE v \notin Players
        BY <1>0, <2>5, <4>2
      <4> QED
        BY <4>1, <4>2
    <3>2. born' \in Nat
      BY <1>0, <2>5
    <3> QED
      BY <1>0, <2>2, <2>5, <3>1, <3>2 DEF Rest
  <2> QED
    BY <2>1, <2>3, <2>4, <2>5
<1> QED
  BY <1>2, <1>3 DEF Visit

LEMMA GrowRest == ASSUME Inv, Holding, Rest, split' = split, Grow PROVE Rest'
<1>0. /\ expecting \in [Players -> Nat] /\ born \in Nat /\ acts' = acts /\ hold' = hold
      /\ children \subseteq Child
  BY DEF Rest, Grow, Inv, Furnished
<1>1. PICK age \in [children -> Ages \cup {4}] :
       LET here == {c \in children : house[c.owner][c.slot] # None}
           gone == {c \in here : Leaves(age[c])}
           stay == {[c EXCEPT !.age = age[c]] : c \in here \ gone}
           girls == {g \in stay : /\ ~g.male /\ ~g.courted /\ g.age = GrownUp
                                  /\ \E b \in stay : b.male /\ b.owner = g.owner /\ b.age = GrownUp}
       IN  \E mated \in SUBSET girls :
            /\ born' = born + Cardinality(mated)
            /\ expecting' = [p \in Players |->
                 expecting[p] + Cardinality({g \in mated : g.owner = p})]
  BY DEF Grow
<1> DEFINE here == {c \in children : house[c.owner][c.slot] # None}
           gone == {c \in here : Leaves(age[c])}
           stay == {[c EXCEPT !.age = age[c]] : c \in here \ gone}
<1>2. PICK mated \in SUBSET stay :
        /\ born' = born + Cardinality(mated)
        /\ expecting' = [p \in Players |-> expecting[p] + Cardinality({g \in mated : g.owner = p})]
  BY <1>1
<1>3. stay \subseteq Child
  <2> SUFFICES ASSUME NEW c \in here \ gone PROVE [c EXCEPT !.age = age[c]] \in Child
    OBVIOUS
  <2>1. c \in Child /\ age[c] \in Ages
    BY <1>0 DEF Leaves
  <2> QED
    BY <2>1 DEF Child
<1> HIDE DEF stay
<1>4. IsFiniteSet(mated)
  BY <1>2, <1>3, ChildIsFinite, FS_Subset
<1>5. \A p : Cardinality({g \in mated : g.owner = p}) \in Nat
  <2> SUFFICES ASSUME NEW p PROVE Cardinality({g \in mated : g.owner = p}) \in Nat
    OBVIOUS
  <2>1. IsFiniteSet({g \in mated : g.owner = p})
    BY <1>4, FS_Subset
  <2> QED
    BY <2>1, FS_CardinalityType
<1>6. Cardinality(mated) \in Nat
  BY <1>4, FS_CardinalityType
<1>7. expecting' \in [Players -> Nat]
  <2>1. ASSUME NEW p \in Players
        PROVE  expecting[p] + Cardinality({g \in mated : g.owner = p}) \in Nat
    <3>1. expecting[p] \in Nat /\ Cardinality({g \in mated : g.owner = p}) \in Nat
      BY <1>0, <1>5
    <3> QED
      BY <3>1
  <2> QED
    BY <1>2, <2>1
<1>8. born' \in Nat
  BY <1>0, <1>2, <1>6
<1> QED
  BY <1>0, <1>7, <1>8 DEF Rest

LEMMA NextRest == ASSUME Inv, Holding, Rest, [Next]_vars PROVE Rest'
<1>1. CASE split /\ Plays /\ UNCHANGED split
  <2>1. ASSUME NEW p \in Players, Welcome(p) PROVE Rest'
    BY <1>1, <2>1 DEF Welcome, Rest, family
  <2>2. ASSUME NEW p \in Players, Birth(p) PROVE Rest'
    <3>1. /\ expecting[p] > 0 /\ expecting' = [expecting EXCEPT ![p] = @ - 1]
          /\ UNCHANGED <<hold, born, acts>>
      BY <2>2 DEF Birth
    <3>2. expecting' \in [Players -> Nat]
      BY <3>1 DEF Rest
    <3> QED
      BY <1>1, <3>1, <3>2 DEF Rest
  <2>3. CASE RoundEnds
    BY <1>1, <2>3 DEF RoundEnds, Rest, family
  <2> QED
    BY <1>1, <2>1, <2>2, <2>3, GrowRest, HandlerRest, VisitRest DEF Plays, Keeper
<1>2. CASE SortOut
  BY <1>2 DEF SortOut, Rest, family
<1>3. CASE UNCHANGED vars
  BY <1>3 DEF vars, Rest, family
<1> QED
  BY <1>1, <1>2, <1>3 DEF Next

LEMMA InitRest == Init => Rest
<1> SUFFICES ASSUME Init PROVE Rest
  OBVIOUS
<1>1. expecting \in [Players -> Nat] /\ acts \in Nat /\ born \in Nat /\ hold = Vacant
  BY DEF Init
<1>2. split \in BOOLEAN
  BY DowriesOK DEF Init
<1> QED
  BY <1>1, <1>2 DEF Rest

\* The belongings keep their types, and a hold never counts more ⚡ than there are slots on
\* a player.
THEOREM BelongingsKeepTheirTypes == Spec => []TypeOK
<1> DEFINE All == Inv /\ Holding /\ Rest
<1>1. Init => All
  BY InitInv, InitHolding, InitRest
<1>2. All /\ [Next]_vars => All'
  BY NextInv, NextHolding, NextRest
<1>3. ASSUME All PROVE TypeOK
  <2>1. /\ house \in [Players -> [HouseSlots -> Slot]]
        /\ gear \in [Players -> [GearSlots -> Kinds \cup {None}]]
        /\ children \subseteq Child
    BY <1>3 DEF Inv, Furnished, Now, Things, Houses, Gears
  <2>2. /\ DOMAIN rides \subseteq Players /\ welcomed \subseteq Players
        /\ rides \in [DOMAIN rides -> [to : Players, stage : {"out", "back", "done"},
                                       load : Kinds \cup {None, Palle}, intact : BOOLEAN]]
    BY <1>3 DEF Inv, Riding, Ride
  <2>3. /\ hold.who \in Players \cup {Nobody}
        /\ hold.bolts \in 0 .. CarriedLimit /\ hold.percent \in Nat
    <3>1. hold.who \in Players \cup {Nobody}
      BY <1>3, <2>2 DEF Holding
    <3>2. CASE hold.who = Nobody
      <4>1. hold.bolts = 0 /\ hold.percent = 0
        BY <1>3, <3>2 DEF Rest, Vacant
      <4> QED
        BY <3>1, <4>1, ConstantsOK
    <3>3. CASE hold.who # Nobody
      <4> DEFINE S == Showing(gear[hold.who], hold, hold.who, "bolt")
      <4>1. /\ hold.bolts = 0 \/ hold.bolts = Cardinality(S)
            /\ hold.bolts \in Nat /\ Cardinality(S) \in Nat
            /\ hold.percent = Percent(hold.bolts)
        BY <1>3, <3>3, ShownIsFinite DEF Holding, HoldCountsItsBolts, Worthwhile
      <4>2. S \subseteq 1 .. CarriedLimit
        BY DEF Showing, GearSlots
      <4>3. IsFiniteSet(1 .. CarriedLimit) /\ Cardinality(1 .. CarriedLimit) = CarriedLimit
        BY ConstantsOK, FS_Interval
      <4>4. hold.bolts <= CarriedLimit
        <5> HIDE DEF S
        <5>1. Cardinality(S) <= CarriedLimit
          BY <4>2, <4>3, FS_Subset
        <5>2. 0 <= CarriedLimit
          BY ConstantsOK
        <5> QED
          BY <4>1, <5>1, <5>2
      <4>5. hold.percent \in Nat
        BY <4>1, ConstantsOK DEF Percent
      <4> QED
        BY <3>1, <4>1, <4>4, <4>5, ConstantsOK
    <3> QED
      BY <3>2, <3>3
  <2> QED
    BY <1>3, <2>1, <2>2, <2>3 DEF TypeOK, Rest
<1> QED
  BY <1>1, <1>2, <1>3, PTL DEF Spec
=============================================================================
