---------------------------- MODULE MCBelongings ----------------------------
(* Belongings on small instances: see Belongings.cfg for the bounds. *)
EXTENDS Belongings, TLC

CONSTANTS a, b

Hung(slots, first, second) ==
  [i \in slots |-> IF i = 1 THEN first ELSE IF i = 2 THEN second ELSE None]

Dowry(aHouse, aGear, bHouse, bGear, kids) ==
  [house |-> a :> Hung(HouseSlots, aHouse[1], aHouse[2]) @@ b :> Hung(HouseSlots, bHouse[1], bHouse[2]),
   gear |-> a :> Hung(GearSlots, aGear[1], aGear[2]) @@ b :> Hung(GearSlots, bGear[1], bGear[2]),
   children |-> kids, split |-> TRUE]

KidOf(p, i, boy, years) == [owner |-> p, slot |-> i, male |-> boy, age |-> years, courted |-> FALSE]

\* A 🦞 about to face a ⚡, with a 💣 at hand; a 🏴‍☠️ and a ☢️; a 💦 for a full house;
\* a boy and a girl about to be of age; and a save from before the gear, with more for a
\* player to wear than he can.
MCDowries ==
  {Dowry(<<None, None>>, <<"balloon", "lobster">>, <<"bomb", None>>, <<"balloon", "bolt">>, {}),
   Dowry(<<"nuke", "toy">>, <<"pirate", None>>, <<"balloon", "toy">>, <<None, None>>, {}),
   Dowry(<<"seed", None>>, <<"balloon", "toy">>, <<"balloon", "toy">>, <<None, None>>, {}),
   Dowry(<<Kid, Kid>>, <<"balloon", None>>, <<None, None>>, <<None, None>>,
         {KidOf(a, 1, TRUE, 1), KidOf(a, 2, FALSE, 2)}),
   [Dowry(<<"balloon", "bolt">>, <<"pirate", None>>, <<"toy", "balloon">>, <<None, None>>, {})
      EXCEPT !.split = FALSE]}
=============================================================================
