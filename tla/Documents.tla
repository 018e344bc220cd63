----------------------------- MODULE Documents -----------------------------
(***************************************************************************)
(* The two documents the bot keeps, the quotes and the game state, and what *)
(* the transactions that touch both, or that need a copy first, do to them. *)
(* From src/src/game.cpp: quote_add, quote_delete, and the ☢️ of            *)
(* furniture_burn and land.                                                *)
(*                                                                         *)
(* Of the game state, only what tells a torn save from a whole one: the     *)
(* palle, who added each quote, how many each added, and who has a ☢️.      *)
(***************************************************************************)
EXTENDS Integers, FiniteSets

CONSTANTS
  Players,    \* keys of the game state
  Nobody,     \* the author of a quote nobody is known to have added
  Texts,      \* the quotes there may be
  Cost,       \* palle to add a quote
  MostPalle   \* bound: nobody earns more

ASSUME DocumentsOK ==
  /\ Nobody \notin Players
  /\ Cost \in Nat
  /\ MostPalle \in Nat

Quotes == SUBSET Texts
State == [scores : [Players -> Nat],
          quote_authors : [Texts -> Players \cup {Nobody}],
          quotes_added : [Players -> Nat],
          nukes : SUBSET Players]
Store == [quotes : Quotes, state : State]

\* What a transaction is asked to do.
Requests == [do : {"play", "reset", "reset all"}, who : Players]
            \cup [do : {"add"}, who : Players, text : Texts]
            \cup [do : {"delete"}, text : Texts]

\* Any handler that only touches the state.
Played(s, p) ==
  IF s.state.scores[p] < MostPalle
  THEN [s EXCEPT !.state.scores[p] = @ + 1]
  ELSE s

\* Mutant: the counter of the quotes is forgotten.
QuoteAddedUncounted(s, p, text) ==
  IF s.state.scores[p] < Cost \/ text \in s.quotes THEN s
  ELSE [s EXCEPT !.quotes = @ \cup {text},
                 !.state.quote_authors[text] = p,
                 !.state.scores[p] = @ - Cost]

\* quote_add: paid, signed and counted, unless it is there already or he cannot pay.
QuoteAdded(s, p, text) ==
  IF s.state.scores[p] < Cost \/ text \in s.quotes THEN s
  ELSE [s EXCEPT !.quotes = @ \cup {text},
                 !.state.quote_authors[text] = p,
                 !.state.scores[p] = @ - Cost,
                 !.state.quotes_added[p] = @ + 1]

\* quote_delete: it no longer counts for whoever added it.
QuoteDeleted(s, text) ==
  LET author == s.state.quote_authors[text] IN
  IF text \notin s.quotes THEN s
  ELSE IF author = Nobody THEN [s EXCEPT !.quotes = @ \ {text}]
  ELSE [s EXCEPT !.quotes = @ \ {text},
                 !.state.quote_authors[text] = Nobody,
                 !.state.quotes_added[author] = IF @ > 0 THEN @ - 1 ELSE 0]

\* A ☢️ thrown at the place: nobody keeps any palle nor any ☢️; the quotes stay.
AllReset(s, p) ==
  IF p \notin s.state.nukes THEN s
  ELSE [s EXCEPT !.state.scores = [q \in Players |-> 0], !.state.nukes = {}]

\* One that lands at a house: so for whoever lives there.
PlayerReset(s, p, victim) ==
  IF p \notin s.state.nukes THEN s
  ELSE [s EXCEPT !.state.scores[victim] = 0, !.state.nukes = @ \ {p, victim}]

\* What a request may leave of the store.
Outcomes(request, s) ==
  LET do == request.do IN
  IF do = "play" THEN {Played(s, request.who)}
  ELSE IF do = "add" THEN {QuoteAdded(s, request.who, request.text)}
  ELSE IF do = "delete" THEN {QuoteDeleted(s, request.text)}
  ELSE IF do = "reset all" THEN {AllReset(s, request.who)}
  ELSE {PlayerReset(s, request.who, v) : v \in Players}

\* Whether it copies the state aside first.
Copies(request, s) == request.do \in {"reset", "reset all"} /\ request.who \in s.state.nukes

\* A game nobody has played yet.
NewStore == [quotes |-> {},
             state |-> [scores |-> [p \in Players |-> 0],
                        quote_authors |-> [t \in Texts |-> Nobody],
                        quotes_added |-> [p \in Players |-> 0],
                        nukes |-> {}]]

\* One with no quotes and no palle left, in which everybody has got a ☢️.
EmptyStore == [quotes |-> {},
               state |-> [NewStore.state EXCEPT !.nukes = Players]]

\* Whose quotes are whose agrees in the two documents: every quote with an author is
\* on file, and each player's counter is the number of his.
Agree(s) ==
  /\ \A t \in Texts : s.state.quote_authors[t] # Nobody => t \in s.quotes
  /\ \A p \in Players :
       s.state.quotes_added[p] = Cardinality({t \in s.quotes : s.state.quote_authors[t] = p})
=============================================================================
