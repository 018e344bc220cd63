----------------------------- MODULE MCIdentity -----------------------------
(* Identity on small instances: see Identity.cfg for the bounds. *)
EXTENDS Identity, TLC

CONSTANTS t1, t2, i1, i2, alice, bob

Nowhere == [n \in Names |-> None]
Called(a, b, c, d) == t1 :> a @@ t2 :> b @@ i1 :> c @@ i2 :> d

\* Accounts nobody knew, linked in all ways; newcomers and who invited them.
Linking ==
  [filed |-> {}, telegram |-> Nowhere, irc |-> {}, newcomers |-> FALSE, commands |-> 6,
   earned |-> 1, called |-> Called({alice}, {bob}, {alice}, {})]
Inviting ==
  [Linking EXCEPT !.newcomers = TRUE, !.commands = 5, !.earned = 1,
                  !.called = Called({alice}, {}, {alice}, {bob})]

\* An old save with a name seen nowhere, or as t1's, or on IRC, or on both platforms.
Old == [Linking EXCEPT !.filed = {alice}, !.commands = 5,
                       !.called = Called({alice, bob}, {alice}, {alice, bob}, {})]
T1Alice == [Nowhere EXCEPT ![alice] = t1]

MCScenarios ==
  {Linking, Inviting, Old, [Old EXCEPT !.telegram = T1Alice], [Old EXCEPT !.irc = {alice}],
   [Old EXCEPT !.telegram = T1Alice, !.irc = {alice}]}
=============================================================================
