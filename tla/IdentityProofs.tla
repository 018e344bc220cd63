--------------------------- MODULE IdentityProofs ---------------------------
(***************************************************************************)
(* That the tables of who is who agree, and that palle follow whoever       *)
(* earned them: for any accounts, names, old saves and configurations,      *)
(* however the two threads take turns.                                      *)
(*                                                                         *)
(* Accounts, names and IDs are kept in agreement by what player_seen and    *)
(* player_link do to them together; the palle, by the merge being refused   *)
(* where both have something, and by a key that has once been merged never  *)
(* being played, nor merged, again.                                         *)
(***************************************************************************)
EXTENDS Identity, Counting

-----------------------------------------------------------------------------
(* Types, a group of variables at a time. *)

WhoTypes ==
  /\ accounts \in [Accounts -> OrNone(Keys)] /\ requests \in [Accounts -> OrNone(Accounts)]
  /\ tgNames \in [Names -> OrNone(Keys)] /\ ircNicks \in [Names -> OrNone(Keys)]
  /\ display \in [Keys -> OrNone(Names)]
  /\ tgId \in [Keys -> OrNone(Telegrams)]
  /\ ircKnown \subseteq Keys

InviteTypes ==
  /\ joined \subseteq Keys
  /\ invitedBy \in [Keys -> OrNone(Keys)]
  /\ days \in [Keys -> 0 .. DaysNeeded] /\ paid \in [Keys -> -1 .. 1]

MoneyTypes ==
  /\ filed \subseteq Names
  /\ palle \in [Keys -> Nat] /\ due \in [Keys -> Nat]
  /\ earned \in Nat /\ rewards \in Nat

Task == [step : {"idle", "handle", "invite"}, account : OrNone(Accounts), key : OrNone(Keys)]

\* What is being executed is executed for somebody.
TaskTypes ==
  /\ thread \in [{"telegram", "irc"} -> Task]
  /\ \A t \in {"telegram", "irc"} :
       thread[t].step # "idle" => thread[t].account \in Accounts /\ thread[t].key \in Keys

RestTypes ==
  /\ old \in Scenarios /\ welcomed \subseteq Keys /\ strayed \subseteq Keys /\ commands \in Nat

Types == WhoTypes /\ InviteTypes /\ MoneyTypes /\ TaskTypes /\ RestTypes

LEMMA TypesAreTypeOK == Types => TypeOK
BY DEF Types, TypeOK, WhoTypes, InviteTypes, MoneyTypes, TaskTypes, RestTypes, Task

\* An account is no name, nothing is None, and a scenario is one.
LEMMA Kinds ==
  /\ None \notin Keys /\ None \notin Accounts /\ None \notin Names /\ None \notin Telegrams
  /\ Accounts \subseteq Keys /\ Names \subseteq Keys /\ Telegrams \subseteq Accounts
  /\ \A k \in Keys : k \in Names <=> k \notin Accounts
  /\ \A a \in Accounts : a \in Ircs <=> ~OnTelegram(a)
  /\ DaysNeeded \in Nat \ {0} /\ Reward \in Nat \ {0}
BY ConstantsOK DEF Keys, Accounts, OnTelegram

LEMMA OldTypes ==
  ASSUME RestTypes
  PROVE  /\ old.filed \subseteq Names /\ IsFiniteSet(old.filed)
         /\ old.telegram \in [Names -> OrNone(Telegrams)] /\ old.irc \subseteq Names
         /\ \A a \in Accounts : old.called[a] \subseteq Names
BY ConstantsOK DEF RestTypes, Scenario, OrNone

LEMMA SameTypes ==
  /\ WhoTypes /\ UNCHANGED identity => WhoTypes'
  /\ InviteTypes /\ UNCHANGED invites => InviteTypes'
  /\ MoneyTypes /\ UNCHANGED money => MoneyTypes'
  /\ TaskTypes /\ UNCHANGED thread => TaskTypes'
  /\ RestTypes /\ UNCHANGED <<old, welcomed, strayed, commands>> => RestTypes'
<1>1. WhoTypes /\ UNCHANGED identity => WhoTypes'
  BY DEF WhoTypes, identity
<1>2. InviteTypes /\ UNCHANGED invites => InviteTypes'
  BY DEF InviteTypes, invites
<1>3. MoneyTypes /\ UNCHANGED money => MoneyTypes'
  BY DEF MoneyTypes, money
<1>4. TaskTypes /\ UNCHANGED thread => TaskTypes'
  BY DEF TaskTypes
<1>5. RestTypes /\ UNCHANGED <<old, welcomed, strayed, commands>> => RestTypes'
  BY DEF RestTypes
<1> QED
  BY <1>1, <1>2, <1>3, <1>4, <1>5

-----------------------------------------------------------------------------
(* Who plays whom. *)

Played(k) == AccountsOf(k) # {}

\* One of his own account, and one of the other platform, that linking gave him.
Linked(k) == \E a, b \in AccountsOf(k) : OnTelegram(a) # OnTelegram(b)

\* An account's own key is played only once the account itself plays.
Rooted == \A a \in Accounts : accounts[a] \in Accounts => accounts[accounts[a]] # None

\* telegram_ids has whoever plays on Telegram, and nobody else who plays; but for the
\* names of an old save, nobody who does not play.
IdsAgree ==
  /\ \A a \in Telegrams : accounts[a] # None => tgId[accounts[a]] = a
  /\ \A k \in Keys : tgId[k] # None /\ Played(k) => accounts[tgId[k]] = k
  /\ \A k \in Accounts : ~Played(k) => tgId[k] = None

\* A name nobody plays is as the old save has it, or was given up in a merge.
AsSaved ==
  \A k \in Names : ~Played(k) =>
    /\ tgId[k] \in {old.telegram[k], None}
    /\ k \in ircKnown => k \in old.irc /\ tgId[k] = old.telegram[k]

\* Whoever plays has a name to be displayed.
Named == \A k \in Keys : Played(k) => display[k] # None

Agreement ==
  /\ Rooted /\ IdsAgree /\ AsSaved /\ Named
  /\ OneAccountEach /\ NamesLeadToPlayers /\ OnlyOnEvidence

LEMMA PlayedBy == \A k : Played(k) <=> \E a \in Accounts : accounts[a] = k
BY DEF Played, AccountsOf

\* The key player_seen settles on.
SeenKey(account, name) ==
  IF accounts[account] # None THEN accounts[account]
  ELSE IF legacy_owner(account, name) # None THEN legacy_owner(account, name)
  ELSE account

\* Someone who has not played before gets a key nobody plays: his own, or the one of the
\* old save that says so.
LEMMA SeenKeyIs ==
  ASSUME WhoTypes, Agreement, NEW a \in Accounts, NEW n \in Names
  PROVE  /\ SeenKey(a, n) \in Keys
         /\ accounts[a] # None => SeenKey(a, n) = accounts[a]
         /\ accounts[a] = None =>
              /\ ~Played(SeenKey(a, n))
              /\ \/ SeenKey(a, n) = a
                 \/ /\ SeenKey(a, n) \in Names
                    /\ IF OnTelegram(a) THEN tgId[SeenKey(a, n)] = a
                       ELSE SeenKey(a, n) \in ircKnown /\ tgId[SeenKey(a, n)] = None
<1> DEFINE l == legacy_owner(a, n)
<1>1. CASE accounts[a] # None
  BY <1>1 DEF SeenKey, WhoTypes, OrNone
<1>2. CASE accounts[a] = None /\ l = None
  <2>1. SeenKey(a, n) = a /\ a \in Keys
    BY <1>2, Kinds DEF SeenKey
  <2>2. ~Played(a)
    BY <1>2, PlayedBy DEF Agreement, Rooted
  <2> QED
    BY <1>2, <2>1, <2>2
<1>3. CASE accounts[a] = None /\ l # None
  <2> DEFINE sure == {k \in Candidates(a, n) :
                        ~ambiguous_legacy(k) /\ AccountsOf(k) \subseteq {a}}
  <2>1. l \in sure
    <3>1. l = CHOOSE k \in sure : TRUE
      BY <1>3 DEF legacy_owner
    <3>2. sure # {}
      BY <1>3 DEF legacy_owner
    <3> QED
      BY <3>1, <3>2
  <2>2. SeenKey(a, n) = l
    BY <1>3 DEF SeenKey
  <2> HIDE DEF l
  <2>3. l \in Candidates(a, n) /\ AccountsOf(l) \subseteq {a}
    BY <2>1
  <2>4. ~Played(l)
    BY <1>3, <2>3, Kinds DEF Played, AccountsOf, Candidates
  <2>5. CASE OnTelegram(a)
    <3>1. l \in Keys /\ tgId[l] = a
      BY <2>3, <2>5 DEF Candidates
    <3>2. l \in Names
      BY <2>4, <3>1, Kinds DEF Agreement, IdsAgree
    <3> QED
      BY <1>3, <2>2, <2>4, <2>5, <3>1, <3>2
  <2>6. CASE ~OnTelegram(a)
    <3>1. l = n /\ l \in ircKnown /\ tgId[l] = None
      BY <2>3, <2>6 DEF Candidates
    <3> QED
      BY <1>3, <2>2, <2>4, <2>6, <3>1, Kinds
  <2> QED
    BY <2>5, <2>6
<1> QED
  BY <1>1, <1>2, <1>3

-----------------------------------------------------------------------------
(* player_seen. *)

\* What it does to the tables, by key.
SeenTables(a, n, key) ==
  /\ accounts' = [accounts EXCEPT ![a] = key]
  /\ IF OnTelegram(a)
     THEN /\ tgNames' = Renamed(tgNames, key, n)
          /\ tgId' = [tgId EXCEPT ![key] = a]
          /\ UNCHANGED <<ircNicks, ircKnown>>
     ELSE /\ ircNicks' = Renamed(ircNicks, key, n)
          /\ ircKnown' = ircKnown \cup {key}
          /\ UNCHANGED <<tgNames, tgId>>
  /\ display' = IF Displayed(a, key) THEN [display EXCEPT ![key] = n] ELSE display
  /\ UNCHANGED requests

LEMMA SeenDoes ==
  ASSUME Types, Agreement, NEW t \in {"telegram", "irc"}, NEW a \in Accounts, NEW n \in Names,
         Seen(t, a, n)
  PROVE  /\ SeenTables(a, n, SeenKey(a, n))
         /\ thread' = [thread EXCEPT ![t] = [step |-> "handle", account |-> a,
                                             key |-> SeenKey(a, n)]]
         /\ thread[t] = Idle
         /\ UNCHANGED <<old, requests, invitedBy, paid, money, strayed>>
BY DEF Seen, SeenKey, SeenTables

LEMMA SeenTypes ==
  ASSUME Types, Agreement, NEW t \in {"telegram", "irc"}, NEW a \in Accounts, NEW n \in Names,
         Seen(t, a, n)
  PROVE  Types'
<1> DEFINE key == SeenKey(a, n)
<1>1. key \in Keys
  BY SeenKeyIs DEF Types
<1>2. /\ SeenTables(a, n, key)
      /\ thread' = [thread EXCEPT ![t] = [step |-> "handle", account |-> a, key |-> key]]
      /\ UNCHANGED <<old, invitedBy, paid, money, strayed>>
  BY SeenDoes
<1>3. /\ joined' = joined \/ joined' = joined \cup {key}
      /\ welcomed' = welcomed \cup {key}
      /\ commands' = commands + 1
  BY DEF Seen, SeenKey
<1>4. days' = days \/ (days[key] < DaysNeeded /\ days' = [days EXCEPT ![key] = @ + 1])
  BY DEF Seen, SeenKey
<1> HIDE DEF key
<1> USE DEF Types
<1>5. WhoTypes'
  <2>1. \A names : names \in [Names -> OrNone(Keys)] =>
          Renamed(names, key, n) \in [Names -> OrNone(Keys)]
    BY <1>1 DEF Renamed, OrNone
  <2>2. tgNames' \in [Names -> OrNone(Keys)] /\ ircNicks' \in [Names -> OrNone(Keys)]
    BY <1>2, <2>1 DEF SeenTables, WhoTypes
  <2>3. tgId' \in [Keys -> OrNone(Telegrams)] /\ ircKnown' \subseteq Keys
    BY <1>1, <1>2 DEF SeenTables, WhoTypes, OrNone, OnTelegram
  <2>4. display' \in [Keys -> OrNone(Names)]
    BY <1>1, <1>2 DEF SeenTables, WhoTypes, OrNone
  <2>5. accounts' \in [Accounts -> OrNone(Keys)] /\ requests' = requests
    BY <1>1, <1>2 DEF SeenTables, WhoTypes, OrNone
  <2> QED
    BY <2>2, <2>3, <2>4, <2>5 DEF WhoTypes
<1>6. InviteTypes'
  <2>1. days' \in [Keys -> 0 .. DaysNeeded]
    BY <1>1, <1>4, Kinds DEF InviteTypes
  <2> QED
    BY <1>1, <1>2, <1>3, <2>1 DEF InviteTypes
<1>7. MoneyTypes'
  BY <1>2, SameTypes
<1>8. TaskTypes'
  BY <1>1, <1>2 DEF TaskTypes, Task, OrNone
<1>9. RestTypes'
  BY <1>1, <1>2, <1>3 DEF RestTypes
<1> QED
  BY <1>5, <1>6, <1>7, <1>8, <1>9

\* The tables agree once somebody has been seen.
LEMMA SeenAgrees ==
  ASSUME WhoTypes, RestTypes, Agreement, NEW a \in Accounts, NEW n \in Names, NEW key,
         key = SeenKey(a, n), SeenTables(a, n, key), UNCHANGED old
  PROVE  Agreement'
<1>1. /\ key \in Keys
      /\ accounts[a] # None => key = accounts[a]
      /\ accounts[a] = None =>
           /\ ~Played(key)
           /\ \/ key = a
              \/ /\ key \in Names
                 /\ IF OnTelegram(a) THEN tgId[key] = a ELSE key \in ircKnown /\ tgId[key] = None
  BY SeenKeyIs
<1>2. /\ \A b \in Accounts : accounts'[b] = IF b = a THEN key ELSE accounts[b]
      /\ accounts'[a] = key /\ key # None
  BY <1>1, Kinds DEF SeenTables, WhoTypes
<1>3. \A b \in Accounts : accounts[b] # None => accounts'[b] = accounts[b]
  BY <1>1, <1>2
<1>4. \A k \in Keys : Played(k)' <=> Played(k) \/ k = key
  <2>1. \A k : Played(k)' <=> \E b \in Accounts : accounts'[b] = k
    BY DEF Played, AccountsOf
  <2> QED
    BY <1>1, <1>2, <1>3, <2>1, PlayedBy, Kinds
<1>5. Rooted'
  BY <1>1, <1>2, <1>3, Kinds DEF Agreement, Rooted
<1>6. OneAccountEach'
  <2> SUFFICES ASSUME NEW b \in Accounts, NEW c \in Accounts,
                      b # c, accounts'[b] # None, accounts'[b] = accounts'[c]
               PROVE  OnTelegram(b) # OnTelegram(c)
    BY DEF OneAccountEach, OnTelegram
  <2>1. CASE accounts[a] # None
    BY <1>1, <1>2, <2>1 DEF Agreement, OneAccountEach
  <2>2. CASE accounts[a] = None
    <3>1. \A d \in Accounts : accounts[d] # key
      BY <1>1, <2>2, PlayedBy
    <3> QED
      BY <1>2, <3>1 DEF Agreement, OneAccountEach
  <2> QED
    BY <2>1, <2>2
<1>7. IdsAgree'
  <2>1. ASSUME NEW b \in Telegrams, accounts'[b] # None
        PROVE  tgId'[accounts'[b]] = b
    <3>1. b \in Accounts /\ OnTelegram(b)
      BY Kinds DEF OnTelegram
    <3>2. CASE b = a
      BY <1>1, <1>2, <3>1, <3>2 DEF SeenTables, WhoTypes
    <3>3. CASE b # a
      <4>1. accounts'[b] = accounts[b] /\ accounts[b] \in Keys /\ tgId[accounts[b]] = b
        BY <1>2, <2>1, <3>1, <3>3 DEF Agreement, IdsAgree, WhoTypes, OrNone
      <4>2. OnTelegram(a) => accounts[b] # key
        BY <1>2, <1>6, <2>1, <3>1, <3>3, <4>1 DEF OneAccountEach, OnTelegram
      <4> QED
        BY <4>1, <4>2 DEF SeenTables, WhoTypes
    <3> QED
      BY <3>2, <3>3
  <2>2. ASSUME NEW k \in Keys, tgId'[k] # None, Played(k)'
        PROVE  accounts'[tgId'[k]] = k
    <3>1. CASE k = key /\ OnTelegram(a)
      BY <1>1, <1>2, <3>1 DEF SeenTables, WhoTypes
    <3>2. CASE ~(k = key /\ OnTelegram(a))
      <4>1. tgId'[k] = tgId[k]
        BY <1>1, <3>2 DEF SeenTables, WhoTypes
      <4>2. Played(k)
        <5>1. CASE accounts[a] = None /\ k = key
          BY <1>1, <2>2, <3>2, <4>1, <5>1 DEF Agreement, IdsAgree
        <5>2. CASE accounts[a] # None /\ k = key
          BY <1>1, <5>2, PlayedBy
        <5>3. CASE k # key
          BY <1>4, <2>2, <5>3
        <5> QED
          BY <5>1, <5>2, <5>3
      <4>3. accounts[tgId[k]] = k /\ tgId[k] \in Accounts /\ k # None
        BY <2>2, <4>1, <4>2, Kinds DEF Agreement, IdsAgree, WhoTypes, OrNone
      <4> QED
        BY <1>3, <4>1, <4>3
    <3> QED
      BY <3>1, <3>2
  <2>3. ASSUME NEW k \in Accounts, ~Played(k)'
        PROVE  tgId'[k] = None
    <3>1. k \in Keys /\ ~Played(k) /\ k # key
      BY <1>4, <2>3, Kinds
    <3> QED
      BY <3>1 DEF SeenTables, WhoTypes, Agreement, IdsAgree
  <2> QED
    BY <2>1, <2>2, <2>3 DEF IdsAgree
<1>8. AsSaved'
  <2> SUFFICES ASSUME NEW k \in Names, ~Played(k)'
               PROVE  /\ tgId'[k] \in {old'.telegram[k], None}
                      /\ k \in ircKnown' => k \in old'.irc /\ tgId'[k] = old'.telegram[k]
    BY DEF AsSaved
  <2>1. k \in Keys /\ ~Played(k) /\ k # key
    BY <1>4, Kinds
  <2>2. tgId'[k] = tgId[k] /\ (k \in ircKnown' <=> k \in ircKnown)
    BY <2>1 DEF SeenTables, WhoTypes
  <2> QED
    BY <2>1, <2>2 DEF Agreement, AsSaved
<1>9. Named'
  <2> SUFFICES ASSUME NEW k \in Keys, Played(k)' PROVE display'[k] # None
    BY DEF Named
  <2>1. CASE k = key /\ Displayed(a, key)
    BY <1>1, <2>1, Kinds DEF SeenTables, WhoTypes
  <2>2. CASE ~(k = key /\ Displayed(a, key))
    <3>1. display'[k] = display[k]
      BY <1>1, <2>2 DEF SeenTables, WhoTypes
    <3>2. Played(k)
      <4>1. CASE accounts[a] = None /\ k = key
        BY <1>1, <2>2, <4>1 DEF Agreement, IdsAgree, Displayed
      <4>2. CASE accounts[a] # None /\ k = key
        BY <1>1, <4>2, PlayedBy
      <4>3. CASE k # key
        BY <1>4, <4>3
      <4> QED
        BY <4>1, <4>2, <4>3
    <3> QED
      BY <3>1, <3>2 DEF Agreement, Named
  <2> QED
    BY <2>1, <2>2
<1>10. NamesLeadToPlayers'
  <2> SUFFICES ASSUME NEW m \in Names, NEW telegram \in BOOLEAN,
                      NEW k, k = NamesOf(telegram)'[m], k # None
               PROVE  /\ \E b \in AccountsOf(k)' : OnTelegram(b) = telegram
                      /\ telegram => display'[k] = m
    BY DEF NamesLeadToPlayers, NamesOf, OnTelegram, AccountsOf
  <2>1. CASE OnTelegram(a) = telegram /\ m = n
    <3>1. k = key
      BY <2>1, Zenon DEF NamesOf, SeenTables, Renamed
    <3>2. a \in AccountsOf(k)'
      BY <1>2, <3>1 DEF AccountsOf
    <3>3. telegram => display'[k] = m
      BY <1>1, <2>1, <3>1 DEF SeenTables, Displayed, WhoTypes
    <3> QED
      BY <2>1, <3>2, <3>3
  <2>2. CASE ~(OnTelegram(a) = telegram /\ m = n)
    <3>1. k = NamesOf(telegram)[m] /\ (OnTelegram(a) = telegram => k # key)
      <4>1. CASE OnTelegram(a) # telegram
        <5>1. CASE telegram /\ ~OnTelegram(a)
          BY <4>1, <5>1 DEF NamesOf, SeenTables
        <5>2. CASE ~telegram /\ OnTelegram(a)
          BY <4>1, <5>2 DEF NamesOf, SeenTables
        <5> QED
          BY <4>1, <5>1, <5>2 DEF OnTelegram
      <4>2. CASE OnTelegram(a) = telegram
        <5>1. NamesOf(telegram)' = Renamed(NamesOf(telegram), key, n)
          BY <4>2, Zenon DEF NamesOf, SeenTables
        <5>2. k = IF NamesOf(telegram)[m] = key THEN None ELSE NamesOf(telegram)[m]
          BY <2>2, <4>2, <5>1 DEF Renamed
        <5> QED
          BY <1>2, <5>2
      <4> QED
        BY <4>1, <4>2
    <3>2. PICK b \in AccountsOf(k) : OnTelegram(b) = telegram
      BY <3>1 DEF Agreement, NamesLeadToPlayers
    <3>3. b \in Accounts /\ accounts[b] = k /\ accounts'[b] = k
      BY <1>3, <3>2 DEF AccountsOf
    <3>4. b \in AccountsOf(k)'
      BY <3>3 DEF AccountsOf
    <3>5. ASSUME telegram PROVE display'[k] = m
      <4>1. display[k] = m /\ k \in Keys
        BY <3>1, <3>3, <3>5 DEF Agreement, NamesLeadToPlayers, WhoTypes, OrNone
      <4>2. k = key => ~Displayed(a, key)
        <5>1. OnTelegram(b) /\ b \in Telegrams
          BY <3>2, <3>5 DEF OnTelegram
        <5>2. tgId[k] = b /\ b # None
          BY <3>3, <5>1, Kinds DEF Agreement, IdsAgree
        <5> QED
          BY <3>1, <3>5, <5>2 DEF Displayed, OnTelegram
      <4> QED
        BY <4>1, <4>2 DEF SeenTables, WhoTypes
    <3> QED
      BY <3>2, <3>4, <3>5
  <2> QED
    BY <2>1, <2>2
<1>11. OnlyOnEvidence'
  <2> SUFFICES ASSUME NEW m \in Names, Played(m)'
               PROVE  \E b \in AccountsOf(m)' :
                        IF OnTelegram(b) THEN old'.telegram[m] = b
                        ELSE m \in old'.irc /\ old'.telegram[m] = None
    BY DEF OnlyOnEvidence, Played, OnTelegram, AccountsOf
  <2>1. CASE Played(m)
    <3>1. PICK b \in AccountsOf(m) : IF OnTelegram(b) THEN old.telegram[m] = b
                                     ELSE m \in old.irc /\ old.telegram[m] = None
      BY <2>1 DEF Agreement, OnlyOnEvidence, Played
    <3>2. b \in AccountsOf(m)'
      BY <1>3, <3>1, Kinds DEF AccountsOf
    <3> QED
      BY <3>1, <3>2
  <2>2. CASE ~Played(m)
    <3>1. m = key /\ m \in Keys
      BY <1>4, <2>2, Kinds
    <3>2. accounts[a] = None
      BY <1>1, <2>2, <3>1, PlayedBy
    <3>3. IF OnTelegram(a) THEN tgId[m] = a ELSE m \in ircKnown /\ tgId[m] = None
      BY <1>1, <3>1, <3>2, Kinds
    <3>4. /\ tgId[m] \in {old.telegram[m], None}
          /\ m \in ircKnown => m \in old.irc /\ tgId[m] = old.telegram[m]
      BY <2>2 DEF Agreement, AsSaved
    <3>5. a \in AccountsOf(m)' /\ a # None
      BY <1>2, <3>1, Kinds DEF AccountsOf
    <3> QED
      BY <3>3, <3>4, <3>5
  <2> QED
    BY <2>1, <2>2
<1> QED
  BY <1>5, <1>6, <1>7, <1>8, <1>9, <1>10, <1>11 DEF Agreement

-----------------------------------------------------------------------------
(* player_link. *)

\* The one of the two that goes.
Secondary(mine, theirs) ==
  CHOOSE k \in {accounts[mine], accounts[theirs]} : k # Primary(mine, theirs)

\* The two players who become one have an account each, on either platform.
LEMMA MergeFacts ==
  ASSUME WhoTypes, MoneyTypes, Agreement, NEW mine \in Accounts, NEW theirs \in Accounts,
         accounts[mine] # None, accounts[theirs] # None,
         OnTelegram(theirs) # OnTelegram(mine), LinkStatus(mine, theirs) = "linked",
         NEW p, NEW s, p = Primary(mine, theirs), s = Secondary(mine, theirs)
  PROVE  /\ p \in Keys /\ s \in Keys /\ p # s /\ palle[s] = 0
         /\ \E b \in Accounts, c \in Accounts :
              /\ OnTelegram(b) # OnTelegram(c)
              /\ AccountsOf(p) = {b} /\ AccountsOf(s) = {c}
<1>1. accounts[mine] \in Keys /\ accounts[theirs] \in Keys
  BY DEF WhoTypes, OrNone
<1>2. /\ accounts[mine] # accounts[theirs] /\ ~AlreadyLinked(mine, theirs)
      /\ ~(palle[accounts[mine]] > 0 /\ palle[accounts[theirs]] > 0)
  BY DEF LinkStatus
<1>3. AccountsOf(accounts[mine]) = {mine} /\ AccountsOf(accounts[theirs]) = {theirs}
  <2>1. ASSUME NEW a \in Accounts, accounts[a] = accounts[mine]
        PROVE  a = mine
    <3>1. a # theirs
      BY <1>2, <2>1
    <3>2. CASE a # mine /\ OnTelegram(a) = OnTelegram(theirs)
      BY <1>2, <2>1, <3>1, <3>2 DEF AlreadyLinked
    <3>3. CASE a # mine /\ OnTelegram(a) = OnTelegram(mine)
      BY <2>1, <3>3 DEF Agreement, OneAccountEach
    <3> QED
      BY <3>2, <3>3 DEF OnTelegram
  <2>2. ASSUME NEW a \in Accounts, accounts[a] = accounts[theirs]
        PROVE  a = theirs
    <3>1. a # mine
      BY <1>2, <2>2
    <3>2. CASE a # theirs /\ OnTelegram(a) = OnTelegram(mine)
      BY <1>2, <2>2, <3>1, <3>2 DEF AlreadyLinked
    <3>3. CASE a # theirs /\ OnTelegram(a) = OnTelegram(theirs)
      BY <2>2, <3>3 DEF Agreement, OneAccountEach
    <3> QED
      BY <3>2, <3>3 DEF OnTelegram
  <2> QED
    BY <2>1, <2>2 DEF AccountsOf
<1>4. palle[accounts[mine]] \in Nat /\ palle[accounts[theirs]] \in Nat
  BY <1>1 DEF MoneyTypes
<1>5. CASE palle[accounts[theirs]] > 0
  <2>1. p = accounts[theirs]
    BY <1>5 DEF Primary
  <2>2. s = accounts[mine]
    BY <1>2, <2>1 DEF Secondary
  <2>3. palle[accounts[mine]] = 0
    BY <1>2, <1>4, <1>5
  <2>4. palle[s] = 0
    BY <2>2, <2>3, Zenon
  <2> QED
    BY <1>1, <1>2, <1>3, <2>1, <2>2, <2>4
<1>6. CASE ~(palle[accounts[theirs]] > 0)
  <2>1. p = accounts[mine]
    BY <1>6 DEF Primary
  <2>2. s = accounts[theirs]
    BY <1>2, <2>1 DEF Secondary
  <2>3. palle[accounts[theirs]] = 0
    BY <1>4, <1>6
  <2>4. palle[s] = 0
    BY <2>2, <2>3, Zenon
  <2> QED
    BY <1>1, <1>2, <1>3, <2>1, <2>2, <2>4
<1> QED
  BY <1>5, <1>6

\* What the merge does to the tables, by key.
MergeTables(p, s) ==
  LET shown == TelegramDisplay(p, s) IN
  /\ accounts' = Merged(accounts, s, p)
  /\ tgNames' = Merged(tgNames, s, p)
  /\ ircNicks' = Merged(ircNicks, s, p)
  /\ tgId' = IF tgId[s] = None THEN tgId ELSE [tgId EXCEPT ![p] = tgId[s], ![s] = None]
  /\ ircKnown' = IF s \in ircKnown THEN (ircKnown \ {s}) \cup {p} ELSE ircKnown
  /\ display' = [Forget(display, s, None) EXCEPT ![p] = IF shown = None THEN @ ELSE shown]

\* Of the two, the one on Telegram is the one with an ID, and his is the name displayed.
LEMMA MergedTables ==
  ASSUME WhoTypes, Agreement, NEW p \in Keys, NEW s \in Keys, p # s,
         NEW b \in Accounts, NEW c \in Accounts, OnTelegram(b) # OnTelegram(c),
         AccountsOf(p) = {b}, AccountsOf(s) = {c}, MergeTables(p, s)
  PROVE  /\ \A a \in Accounts : /\ accounts[a] = p <=> a = b
                                /\ accounts[a] = s <=> a = c
                                /\ accounts'[a] = IF a = c THEN p ELSE accounts[a]
         /\ \A n \in Names : /\ tgNames'[n] = IF tgNames[n] = s THEN p ELSE tgNames[n]
                             /\ ircNicks'[n] = IF ircNicks[n] = s THEN p ELSE ircNicks[n]
         /\ \A k \in Keys : tgId'[k] = IF k = s THEN None
                                       ELSE IF k = p THEN IF OnTelegram(b) THEN b ELSE c
                                       ELSE tgId[k]
         /\ \A k \in Keys : display'[k] = IF k = s THEN None
                                          ELSE IF k = p THEN display[IF OnTelegram(b) THEN p ELSE s]
                                          ELSE display[k]
         /\ display[p] \in Names /\ display[s] \in Names
         /\ \A k \in Keys \ {p, s} : k \in ircKnown' <=> k \in ircKnown
         /\ s \notin ircKnown'
<1>1. \A a \in Accounts : (accounts[a] = p <=> a = b) /\ (accounts[a] = s <=> a = c)
  BY DEF AccountsOf
<1>2. \A a \in Accounts : accounts'[a] = IF a = c THEN p ELSE accounts[a]
  BY <1>1 DEF MergeTables, Merged, WhoTypes
<1>3. \A n \in Names : /\ tgNames'[n] = IF tgNames[n] = s THEN p ELSE tgNames[n]
                       /\ ircNicks'[n] = IF ircNicks[n] = s THEN p ELSE ircNicks[n]
  BY DEF MergeTables, Merged, WhoTypes
<1>4. display[p] \in Names /\ display[s] \in Names
  BY DEF Agreement, Named, Played, WhoTypes, OrNone
<1>5. /\ OnTelegram(b) => tgId[p] = b /\ tgId[s] = None
      /\ ~OnTelegram(b) => tgId[s] = c /\ tgId[p] = None
  <2>1. ASSUME NEW k \in {p, s}, tgId[k] # None
        PROVE  tgId[k] \in Telegrams /\ tgId[k] \in Accounts /\ accounts[tgId[k]] = k
    <3>1. k \in Keys /\ Played(k)
      BY DEF Played
    <3>2. tgId[k] \in Telegrams
      BY <2>1, <3>1 DEF WhoTypes, OrNone
    <3>3. accounts[tgId[k]] = k
      BY <2>1, <3>1 DEF Agreement, IdsAgree
    <3> QED
      BY <3>2, <3>3, Kinds
  <2>2. (tgId[p] # None => tgId[p] = b) /\ (tgId[s] # None => tgId[s] = c)
    BY <1>1, <2>1
  <2>3. (OnTelegram(b) => tgId[p] = b) /\ (OnTelegram(c) => tgId[s] = c)
    BY <1>1, Kinds DEF Agreement, IdsAgree, OnTelegram
  <2>4. (~OnTelegram(b) => tgId[p] = None) /\ (~OnTelegram(c) => tgId[s] = None)
    BY <2>1, <2>2 DEF OnTelegram
  <2> QED
    BY <2>3, <2>4 DEF OnTelegram
<1>6. TelegramDisplay(p, s) = display[IF OnTelegram(b) THEN p ELSE s]
  BY <1>4, <1>5, Kinds DEF TelegramDisplay, display_name
<1>7. \A k \in Keys : tgId'[k] = IF k = s THEN None
                                 ELSE IF k = p THEN IF OnTelegram(b) THEN b ELSE c
                                 ELSE tgId[k]
  <2>1. CASE OnTelegram(b)
    BY <1>5, <2>1 DEF MergeTables
  <2>2. CASE ~OnTelegram(b)
    BY <1>5, <2>2, Kinds DEF MergeTables, WhoTypes
  <2> QED
    BY <2>1, <2>2
<1>8. \A k \in Keys : display'[k] = IF k = s THEN None
                                    ELSE IF k = p THEN display[IF OnTelegram(b) THEN p ELSE s]
                                    ELSE display[k]
  <2> DEFINE shown == TelegramDisplay(p, s)
  <2>1. shown # None /\ shown = display[IF OnTelegram(b) THEN p ELSE s]
    BY <1>4, <1>6, Kinds
  <2>2. display' = [Forget(display, s, None) EXCEPT ![p] = IF shown = None THEN @ ELSE shown]
    BY DEF MergeTables
  <2> HIDE DEF shown
  <2>3. display' = [[display EXCEPT ![s] = None] EXCEPT ![p] = shown]
    BY <2>1, <2>2 DEF Forget
  <2> QED
    BY <2>1, <2>3 DEF WhoTypes
<1>9. /\ \A k \in Keys \ {p, s} : k \in ircKnown' <=> k \in ircKnown
      /\ s \notin ircKnown'
  BY DEF MergeTables
<1> QED
  BY <1>1, <1>2, <1>3, <1>4, <1>7, <1>8, <1>9

LEMMA MergeAgrees ==
  ASSUME WhoTypes, Agreement, NEW p \in Keys, NEW s \in Keys, p # s,
         NEW b \in Accounts, NEW c \in Accounts, OnTelegram(b) # OnTelegram(c),
         AccountsOf(p) = {b}, AccountsOf(s) = {c}, MergeTables(p, s), UNCHANGED old
  PROVE  Agreement'
<1>1. \A a \in Accounts : /\ accounts[a] = p <=> a = b
                          /\ accounts[a] = s <=> a = c
                          /\ accounts'[a] = IF a = c THEN p ELSE accounts[a]
  BY MergedTables
<1>2. \A k \in Keys : tgId'[k] = IF k = s THEN None
                                 ELSE IF k = p THEN IF OnTelegram(b) THEN b ELSE c
                                 ELSE tgId[k]
  BY MergedTables
<1>3. \A k \in Keys : display'[k] = IF k = s THEN None
                                    ELSE IF k = p THEN display[IF OnTelegram(b) THEN p ELSE s]
                                    ELSE display[k]
  BY MergedTables
<1>4. b # c /\ p # None /\ s # None /\ b \in AccountsOf(p)' /\ c \in AccountsOf(p)'
  BY <1>1, Kinds DEF AccountsOf
<1>5. \A k \in Keys : Played(k)' <=> k = p \/ (Played(k) /\ k # s)
  <2>1. \A k : Played(k)' <=> \E a \in Accounts : accounts'[a] = k
    BY DEF Played, AccountsOf
  <2> QED
    BY <1>1, <1>4, <2>1, PlayedBy
<1>6. Rooted'
  BY <1>1, <1>4 DEF Agreement, Rooted
<1>7. OneAccountEach'
  BY <1>1 DEF Agreement, OneAccountEach, OnTelegram
<1>8. IdsAgree'
  <2>1. ASSUME NEW a \in Telegrams, accounts'[a] # None
        PROVE  tgId'[accounts'[a]] = a
    <3>1. a \in Accounts /\ OnTelegram(a)
      BY Kinds DEF OnTelegram
    <3>2. CASE a = c
      <4>1. ~OnTelegram(b)
        BY <3>1, <3>2 DEF OnTelegram
      <4>2. accounts'[a] = p
        BY <1>1, <3>1, <3>2
      <4> QED
        BY <1>2, <3>2, <4>1, <4>2
    <3>3. CASE a = b
      BY <1>1, <1>2, <1>4, <3>1, <3>3
    <3>4. CASE a \notin {b, c}
      BY <1>1, <1>2, <2>1, <3>1, <3>4 DEF Agreement, IdsAgree, WhoTypes, OrNone
    <3> QED
      BY <3>2, <3>3, <3>4
  <2>2. ASSUME NEW k \in Keys, tgId'[k] # None, Played(k)'
        PROVE  accounts'[tgId'[k]] = k
    <3>1. CASE k = p
      BY <1>1, <1>2, <1>4, <3>1
    <3>2. CASE k # p
      <4>1. Played(k) /\ k # s /\ tgId'[k] = tgId[k]
        BY <1>2, <1>5, <2>2, <3>2
      <4>2. accounts[tgId[k]] = k /\ tgId[k] \in Accounts
        BY <2>2, <4>1, Kinds DEF Agreement, IdsAgree, WhoTypes, OrNone
      <4> QED
        BY <1>1, <4>1, <4>2
    <3> QED
      BY <3>1, <3>2
  <2>3. ASSUME NEW k \in Accounts, ~Played(k)'
        PROVE  tgId'[k] = None
    BY <1>2, <1>5, <2>3, Kinds DEF Agreement, IdsAgree
  <2> QED
    BY <2>1, <2>2, <2>3 DEF IdsAgree
<1>9. AsSaved'
  <2> SUFFICES ASSUME NEW k \in Names, ~Played(k)'
               PROVE  /\ tgId'[k] \in {old'.telegram[k], None}
                      /\ k \in ircKnown' => k \in old'.irc /\ tgId'[k] = old'.telegram[k]
    BY DEF AsSaved
  <2>1. k \in Keys /\ k # p
    BY <1>5, Kinds
  <2>2. CASE k = s
    BY <1>2, <2>1, <2>2, MergedTables
  <2>3. CASE k # s
    <3>1. tgId'[k] = tgId[k] /\ (k \in ircKnown' <=> k \in ircKnown) /\ ~Played(k)
      BY <1>2, <1>5, <2>1, <2>3, MergedTables
    <3> QED
      BY <3>1 DEF Agreement, AsSaved
  <2> QED
    BY <2>2, <2>3
<1>10. Named'
  <2>1. display[p] # None /\ display[s] # None
    BY MergedTables, Kinds
  <2> QED
    BY <1>3, <1>5, <2>1 DEF Agreement, Named
<1>11. NamesLeadToPlayers'
  <2> SUFFICES ASSUME NEW n \in Names, NEW telegram \in BOOLEAN,
                      NEW k, k = NamesOf(telegram)'[n], k # None
               PROVE  /\ \E a \in AccountsOf(k)' : OnTelegram(a) = telegram
                      /\ telegram => display'[k] = n
    BY DEF NamesLeadToPlayers, NamesOf, OnTelegram, AccountsOf
  <2> DEFINE was == NamesOf(telegram)[n]
  <2>1. k = IF was = s THEN p ELSE was
    <3>1. /\ tgNames'[n] = IF tgNames[n] = s THEN p ELSE tgNames[n]
          /\ ircNicks'[n] = IF ircNicks[n] = s THEN p ELSE ircNicks[n]
      BY MergedTables
    <3>2. CASE telegram
      BY <3>1, <3>2 DEF NamesOf
    <3>3. CASE ~telegram
      BY <3>1, <3>3 DEF NamesOf
    <3> QED
      BY <3>2, <3>3
  <2>2. was # None
    BY <1>4, <2>1
  <2>3. PICK a \in AccountsOf(was) : OnTelegram(a) = telegram
    BY <2>2 DEF Agreement, NamesLeadToPlayers
  <2>4. telegram => display[was] = n
    BY <2>2 DEF Agreement, NamesLeadToPlayers
  <2> HIDE DEF was
  <2>5. a \in Accounts /\ accounts[a] = was
    BY <2>3 DEF AccountsOf
  <2>6. accounts'[a] = k /\ a \in AccountsOf(k)'
    BY <1>1, <2>1, <2>5 DEF AccountsOf
  <2>7. was \in Keys
    BY <2>2, <2>5 DEF WhoTypes, OrNone
  <2>8. ASSUME telegram PROVE display'[k] = n
    <3>1. OnTelegram(a)
      BY <2>3, <2>8
    <3>2. CASE was = s
      <4>1. a = c
        BY <1>1, <2>5, <3>2
      <4>2. ~OnTelegram(b) /\ k = p
        BY <2>1, <3>1, <3>2, <4>1 DEF OnTelegram
      <4> QED
        BY <1>3, <2>4, <2>8, <3>2, <4>2
    <3>3. CASE was = p
      BY <1>1, <1>3, <2>1, <2>4, <2>5, <2>8, <3>1, <3>3
    <3>4. CASE was \notin {p, s}
      BY <1>3, <2>1, <2>4, <2>7, <2>8, <3>4
    <3> QED
      BY <3>2, <3>3, <3>4
  <2> QED
    BY <2>3, <2>6, <2>8
<1>12. OnlyOnEvidence'
  <2> SUFFICES ASSUME NEW m \in Names, Played(m)'
               PROVE  \E a \in AccountsOf(m)' :
                        IF OnTelegram(a) THEN old'.telegram[m] = a
                        ELSE m \in old'.irc /\ old'.telegram[m] = None
    BY DEF OnlyOnEvidence, Played, OnTelegram, AccountsOf
  <2>1. m \in Keys /\ Played(m) /\ m # s
    BY <1>4, <1>5, Kinds DEF Played
  <2>2. PICK a \in AccountsOf(m) : IF OnTelegram(a) THEN old.telegram[m] = a
                                   ELSE m \in old.irc /\ old.telegram[m] = None
    BY <2>1 DEF Agreement, OnlyOnEvidence, Played
  <2>3. a \in AccountsOf(m)'
    BY <1>1, <2>1, <2>2 DEF AccountsOf
  <2> QED
    BY <2>2, <2>3
<1> QED
  BY <1>6, <1>7, <1>8, <1>9, <1>10, <1>11, <1>12 DEF Agreement

\* What the merge does to what they have.
MergeBooks(p, s) ==
  /\ palle' = Forget(palle, s, 0)
  /\ due' = [Forget(due, s, 0) EXCEPT ![p] = due[p] + due[s]]
  /\ filed' = filed \ {s} /\ welcomed' = welcomed \ {s}
  /\ strayed' = IF InUse(s) THEN strayed \cup {p, s} ELSE strayed

\* One player, of two with an account each.
Joins(p, s, b, c) ==
  /\ p \in Keys /\ s \in Keys /\ p # s /\ palle[s] = 0
  /\ b \in Accounts /\ c \in Accounts /\ OnTelegram(b) # OnTelegram(c)
  /\ AccountsOf(p) = {b} /\ AccountsOf(s) = {c}
  /\ MergeTables(p, s) /\ MergeBooks(p, s)

tables == <<accounts, tgNames, ircNicks, display, tgId, ircKnown>>

\* Who executes a command has played.
TasksAreOfPlayers ==
  \A t \in {"telegram", "irc"} : thread[t].step # "idle" => accounts[thread[t].account] # None

\* A link is refused, or asked for, or two players become one.
LEMMA LinkDoes ==
  ASSUME Types, Agreement, TasksAreOfPlayers, NEW t \in {"telegram", "irc"}, NEW n \in Names,
         Link(t, n)
  PROVE  /\ requests' \in [Accounts -> OrNone(Accounts)]
         /\ \/ UNCHANGED <<tables, welcomed, filed, palle, due, strayed>>
            \/ \E p, s, b, c : Joins(p, s, b, c)
<1> DEFINE mine == thread[t].account
           q == <<requests, tables, welcomed, filed, palle, due, strayed>>
<1>1. mine \in Accounts /\ accounts[mine] # None
  <2>1. thread[t].step = "handle"
    BY DEF Link
  <2> QED
    BY <2>1 DEF Types, TaskTypes, TasksAreOfPlayers
<1>2. requests \in [Accounts -> OrNone(Accounts)]
  BY DEF Types, WhoTypes
<1>3. \/ UNCHANGED q
      \/ \E theirs \in Theirs(mine, n) :
           \/ /\ requests' = [requests EXCEPT ![mine] = theirs]
              /\ UNCHANGED <<tables, welcomed, filed, palle, due, strayed>>
           \/ LinkStatus(mine, theirs) = "linked" /\ Merge(mine, theirs)
  <2>1. \/ UNCHANGED <<identity, welcomed, filed, palle, due, strayed>>
        \/ \E theirs \in Theirs(mine, n) :
             \/ /\ requests' = [requests EXCEPT ![mine] = theirs]
                /\ UNCHANGED <<accounts, tgNames, ircNicks, display, tgId, ircKnown, welcomed,
                               filed, palle, due, strayed>>
             \/ LinkStatus(mine, theirs) = "linked" /\ Merge(mine, theirs)
             \/ UNCHANGED <<identity, welcomed, filed, palle, due, strayed>>
    BY Zenon DEF Link
  <2> QED
    BY <2>1 DEF identity, tables
<1>4. CASE UNCHANGED q
  BY <1>2, <1>4
<1>5. ASSUME NEW theirs \in Theirs(mine, n), requests' = [requests EXCEPT ![mine] = theirs],
             UNCHANGED <<tables, welcomed, filed, palle, due, strayed>>
      PROVE  requests' \in [Accounts -> OrNone(Accounts)]
  <2>1. theirs \in Accounts
    BY DEF Theirs, AccountsOf
  <2> QED
    BY <1>1, <1>2, <1>5, <2>1 DEF OrNone
<1>6. ASSUME NEW theirs \in Theirs(mine, n), LinkStatus(mine, theirs) = "linked",
             Merge(mine, theirs)
      PROVE  /\ requests' \in [Accounts -> OrNone(Accounts)]
             /\ \E p, s, b, c : Joins(p, s, b, c)
  <2>1. theirs \in Accounts /\ accounts[theirs] # None /\ OnTelegram(theirs) # OnTelegram(mine)
    BY DEF Theirs, AccountsOf
  <2>2. requests' \in [Accounts -> OrNone(Accounts)]
    <3>1. requests' = [requests EXCEPT ![mine] = None, ![theirs] = None]
      BY <1>6 DEF Merge
    <3> QED
      BY <1>1, <1>2, <2>1, <3>1 DEF OrNone
  <2> DEFINE p == Primary(mine, theirs)
             s == Secondary(mine, theirs)
  <2>3. MergeTables(p, s) /\ MergeBooks(p, s)
    BY <1>6, Zenon DEF Merge, MergeTables, MergeBooks, Secondary
  <2>4. WhoTypes /\ MoneyTypes
    BY DEF Types
  <2> HIDE DEF mine
  <2>5. /\ p \in Keys /\ s \in Keys /\ p # s /\ palle[s] = 0
        /\ \E b \in Accounts, c \in Accounts :
             OnTelegram(b) # OnTelegram(c) /\ AccountsOf(p) = {b} /\ AccountsOf(s) = {c}
    BY <1>1, <1>6, <2>1, <2>4, MergeFacts
  <2> HIDE DEF p, s
  <2> QED
    BY <2>2, <2>3, <2>5 DEF Joins
<1> QED
  BY <1>3, <1>4, <1>5, <1>6

LEMMA AgreementStays ==
  Agreement /\ UNCHANGED <<old, tables>> => Agreement'
BY DEF Agreement, tables, Rooted, IdsAgree, AsSaved, Named, OneAccountEach, NamesLeadToPlayers,
       OnlyOnEvidence, Played, AccountsOf, NamesOf, OnTelegram

LEMMA LinkTypes ==
  ASSUME Types, Agreement, TasksAreOfPlayers, NEW t \in {"telegram", "irc"}, NEW n \in Names,
         Link(t, n)
  PROVE  Types' /\ Agreement'
<1> USE DEF Types
<1>1. /\ thread' = [thread EXCEPT ![t].step = "invite"] /\ thread[t].step = "handle"
      /\ UNCHANGED invites /\ UNCHANGED <<earned, rewards>> /\ UNCHANGED <<old, commands>>
  BY DEF Link, Handled
<1>2. InviteTypes' /\ old' \in Scenarios /\ commands' \in Nat
  BY <1>1, SameTypes DEF RestTypes
<1>3. TaskTypes'
  BY <1>1 DEF TaskTypes, Task
<1>4. requests' \in [Accounts -> OrNone(Accounts)]
  BY LinkDoes
<1>5. CASE UNCHANGED <<tables, welcomed, filed, palle, due, strayed>>
  <2>1. WhoTypes'
    BY <1>4, <1>5 DEF WhoTypes, tables
  <2>2. MoneyTypes'
    BY <1>1, <1>5 DEF MoneyTypes
  <2>3. RestTypes'
    BY <1>2, <1>5 DEF RestTypes
  <2>4. Agreement'
    BY <1>1, <1>5, AgreementStays
  <2> QED
    BY <1>2, <1>3, <2>1, <2>2, <2>3, <2>4
<1>6. ASSUME NEW p, NEW s, NEW b, NEW c, Joins(p, s, b, c)
      PROVE  Types' /\ Agreement'
  <2>1. /\ p \in Keys /\ s \in Keys /\ p # s
        /\ b \in Accounts /\ c \in Accounts /\ OnTelegram(b) # OnTelegram(c)
        /\ AccountsOf(p) = {b} /\ AccountsOf(s) = {c} /\ MergeTables(p, s)
    BY <1>6 DEF Joins
  <2>2. Agreement'
    BY <1>1, <2>1, MergeAgrees
  <2>3. WhoTypes'
    <3>1. accounts' \in [Accounts -> OrNone(Keys)] /\ tgNames' \in [Names -> OrNone(Keys)]
          /\ ircNicks' \in [Names -> OrNone(Keys)]
      BY <2>1 DEF MergeTables, Merged, WhoTypes, OrNone
    <3>2. tgId' \in [Keys -> OrNone(Telegrams)]
      BY <2>1 DEF MergeTables, WhoTypes, OrNone
    <3>3. ircKnown' \subseteq Keys
      BY <2>1 DEF MergeTables, WhoTypes
    <3>4. display' \in [Keys -> OrNone(Names)]
      <4>1. \A k \in Keys : display'[k] = IF k = s THEN None
                                ELSE IF k = p THEN display[IF OnTelegram(b) THEN p ELSE s]
                                ELSE display[k]
        BY <2>1, MergedTables
      <4>2. \A k \in Keys : display'[k] \in OrNone(Names)
        BY <2>1, <4>1 DEF WhoTypes, OrNone
      <4>3. display' = [k \in Keys |-> display'[k]]
        BY <2>1 DEF MergeTables, Forget, WhoTypes
      <4> HIDE DEF Types
      <4> QED
        BY <4>2, <4>3
    <3> QED
      BY <1>4, <3>1, <3>2, <3>3, <3>4 DEF WhoTypes
  <2>4. MoneyTypes' /\ RestTypes'
    <3>1. MergeBooks(p, s)
      BY <1>6 DEF Joins
    <3>2. palle' \in [Keys -> Nat] /\ filed' \subseteq Names
      BY <2>1, <3>1 DEF MergeBooks, Forget, MoneyTypes
    <3>3. due' \in [Keys -> Nat]
      <4>1. due \in [Keys -> Nat] /\ due[p] + due[s] \in Nat
        BY <2>1 DEF MoneyTypes
      <4>2. due' = [[due EXCEPT ![s] = 0] EXCEPT ![p] = due[p] + due[s]]
        BY <3>1 DEF MergeBooks, Forget
      <4> QED
        BY <2>1, <4>1, <4>2
    <3>4. welcomed' \subseteq Keys /\ strayed' \subseteq Keys
      BY <2>1, <3>1 DEF MergeBooks, RestTypes
    <3>5. earned' \in Nat /\ rewards' \in Nat
      BY <1>1 DEF MoneyTypes
    <3> QED
      BY <1>2, <3>2, <3>3, <3>4, <3>5 DEF MoneyTypes, RestTypes
  <2> QED
    BY <1>2, <1>3, <2>2, <2>3, <2>4
<1> QED
  BY <1>5, <1>6, LinkDoes

-----------------------------------------------------------------------------
(* The other handlers leave the tables alone. *)

LEMMA OthersLeaveTables ==
  ASSUME NEW t \in {"telegram", "irc"}, NEW n \in Names, NEW telegram \in BOOLEAN,
         Play(t) \/ InvitedBy(t, n, telegram) \/ PayInvite(t) \/ NoReply(t)
  PROVE  UNCHANGED <<old, identity, joined, days, welcomed, strayed, commands>>
BY DEF Play, InvitedBy, PayInvite, NoReply, invites

LEMMA PlayTypes ==
  ASSUME Types, TasksAreOfPlayers, NEW t \in {"telegram", "irc"}, Play(t)
  PROVE  Types'
<1> USE DEF Types
<1>1. thread[t].step = "handle" /\ thread' = [thread EXCEPT ![t].step = "invite"]
  BY DEF Play, Handled
<1>2. /\ UNCHANGED identity /\ UNCHANGED invites
      /\ UNCHANGED <<old, welcomed, strayed, commands>> /\ rewards' = rewards
  BY DEF Play
<1>3. WhoTypes' /\ InviteTypes' /\ RestTypes'
  BY <1>2, SameTypes
<1>4. TaskTypes'
  BY <1>1 DEF TaskTypes, Task
<1>5. MoneyTypes'
  <2> DEFINE key == thread[t].key
             who == accounts[thread[t].account]
  <2>1. key \in Keys /\ who \in Keys
    BY <1>1 DEF TaskTypes, TasksAreOfPlayers, WhoTypes, OrNone
  <2>2. CASE UNCHANGED <<filed, palle, earned, due>>
    BY <1>2, <2>2 DEF MoneyTypes
  <2>3. CASE /\ earned' = earned + 1
             /\ palle' = [palle EXCEPT ![key] = @ + 1]
             /\ filed' = filed \cup ({key} \cap Names)
             /\ due' = [due EXCEPT ![who] = @ + 1]
    <3> HIDE DEF key, who
    <3> QED
      BY <1>2, <2>1, <2>3 DEF MoneyTypes
  <2> QED
    BY <2>2, <2>3 DEF Play
<1> QED
  BY <1>3, <1>4, <1>5

\* Whom a name leads to is a player.
LEMMA ByNameIs ==
  ASSUME WhoTypes, NEW n \in Names, NEW telegram \in BOOLEAN
  PROVE  player_by_name(n, telegram) \in OrNone(Keys)
<1>1. NamesOf(telegram)[n] \in OrNone(Keys)
  BY DEF NamesOf, WhoTypes
<1>2. n \in Keys
  BY Kinds
<1> QED
  BY <1>1, <1>2 DEF player_by_name, OrNone

LEMMA InvitedByTypes ==
  ASSUME Types, NEW t \in {"telegram", "irc"}, NEW n \in Names, NEW telegram \in BOOLEAN,
         InvitedBy(t, n, telegram)
  PROVE  Types'
<1> USE DEF Types
<1>1. thread[t].step = "handle" /\ thread' = [thread EXCEPT ![t].step = "invite"]
  BY DEF InvitedBy, Handled
<1>2. /\ UNCHANGED identity /\ UNCHANGED money /\ UNCHANGED <<joined, days, paid>>
      /\ UNCHANGED <<old, welcomed, strayed, commands>>
  BY DEF InvitedBy
<1>3. WhoTypes' /\ MoneyTypes' /\ RestTypes'
  BY <1>2, SameTypes
<1>4. TaskTypes'
  BY <1>1 DEF TaskTypes, Task
<1>5. InviteTypes'
  <2>1. player_by_name(n, telegram) \in OrNone(Keys) /\ thread[t].key \in Keys
    BY <1>1, ByNameIs DEF TaskTypes
  <2>2. \/ UNCHANGED invitedBy
        \/ invitedBy' = [invitedBy EXCEPT ![thread[t].key] = player_by_name(n, telegram)]
    BY DEF InvitedBy
  <2>3. invitedBy' \in [Keys -> OrNone(Keys)]
    BY <2>1, <2>2 DEF InviteTypes
  <2> QED
    BY <1>2, <2>3 DEF InviteTypes
<1> QED
  BY <1>3, <1>4, <1>5

\* What an invite pays to each.
Share(key, k) == IF k = key \/ k = invitedBy[key] THEN Reward ELSE 0

LEMMA PayInviteTypes ==
  ASSUME Types, NEW t \in {"telegram", "irc"}, PayInvite(t)
  PROVE  Types'
<1> USE DEF Types
<1> DEFINE key == thread[t].key
<1>1. thread[t].step = "invite" /\ thread' = [thread EXCEPT ![t] = Idle] /\ key \in Keys
  BY DEF PayInvite, TaskTypes
<1>2. /\ UNCHANGED identity /\ UNCHANGED <<joined, invitedBy, days>>
      /\ UNCHANGED <<old, welcomed, strayed, commands>>
  BY DEF PayInvite
<1>3. WhoTypes' /\ RestTypes'
  BY <1>2, SameTypes
<1>4. TaskTypes'
  BY <1>1 DEF TaskTypes, Task, Idle, OrNone
<1>5. InviteTypes'
  <2>1. paid' = paid \/ paid' = [paid EXCEPT ![key] = -1] \/ paid' = [paid EXCEPT ![key] = 1]
    BY DEF PayInvite
  <2> HIDE DEF key
  <2>2. paid' \in [Keys -> -1 .. 1]
    BY <1>1, <2>1 DEF InviteTypes
  <2> QED
    BY <1>2, <2>2 DEF InviteTypes
<1>6. MoneyTypes'
  <2>1. CASE UNCHANGED money
    BY <2>1, SameTypes
  <2>2. CASE /\ palle' = [k \in Keys |-> palle[k] + Share(key, k)]
             /\ due' = [k \in Keys |-> due[k] + Share(key, k)]
             /\ filed' = filed \cup ({key, invitedBy[key]} \cap Names)
             /\ rewards' = rewards + 2 * Reward
             /\ UNCHANGED earned
    <3>1. \A k \in Keys : Share(key, k) \in Nat
      BY Kinds DEF Share
    <3> HIDE DEF key
    <3>2. palle' \in [Keys -> Nat] /\ due' \in [Keys -> Nat]
      BY <2>2, <3>1 DEF MoneyTypes
    <3>3. rewards' \in Nat
      BY <2>2, Kinds DEF MoneyTypes
    <3> QED
      BY <2>2, <3>2, <3>3 DEF MoneyTypes
  <2> QED
    BY <2>1, <2>2 DEF PayInvite, Share
<1> QED
  BY <1>3, <1>4, <1>5, <1>6

LEMMA NoReplyTypes ==
  ASSUME Types, NEW t \in {"telegram", "irc"}, NoReply(t)
  PROVE  Types'
<1>1. thread' = [thread EXCEPT ![t] = Idle]
  BY DEF NoReply
<1>2. /\ UNCHANGED identity /\ UNCHANGED invites /\ UNCHANGED money
      /\ UNCHANGED <<old, welcomed, strayed, commands>>
  BY DEF NoReply
<1>3. TaskTypes'
  BY <1>1 DEF Types, TaskTypes, Task, Idle, OrNone
<1> QED
  BY <1>2, <1>3, SameTypes DEF Types

-----------------------------------------------------------------------------
(* Whose the palle are. *)

\* A command goes by the key of whoever it is executed for, or of one of two who were
\* merged while it was executed.
Tasks ==
  \A t \in {"telegram", "irc"} : thread[t].step # "idle" =>
    LET account == thread[t].account IN
    /\ accounts[account] # None
    /\ thread[t].key = accounts[account] \/ {thread[t].key, accounts[account]} \subseteq strayed

\* Who was merged under the feet of a command has both his accounts, and so is never
\* merged again; and the key that was given up is never played again.
StrayedAre ==
  \A k \in strayed :
    \/ Linked(k)
    \/ /\ ~Played(k)
       /\ IF k \in Accounts THEN accounts[k] # None ELSE tgId[k] = None /\ k \notin ircKnown

\* Nobody invites himself.
OthersInvite == \A k \in Keys : invitedBy[k] # k

PalleAreDue == \A k \in Keys \ strayed : palle[k] = due[k]

PaidKeys == {k \in Keys : paid[k] = 1}

RewardsCounted ==
  IsFiniteSet(PaidKeys) /\ rewards = 2 * Reward * Cardinality(PaidKeys)

CoinsCounted ==
  /\ IsFiniteSet(CoinsOf(palle))
  /\ Cardinality(CoinsOf(palle)) = Cardinality(old.filed) + earned + rewards

Inv ==
  /\ Types /\ Agreement
  /\ Tasks /\ StrayedAre /\ OthersInvite
  /\ PalleAreDue /\ RewardsCounted /\ CoinsCounted

LEMMA TasksPlay == Tasks => TasksAreOfPlayers
BY DEF Tasks, TasksAreOfPlayers

LEMMA Stays ==
  /\ Tasks /\ StrayedAre /\ UNCHANGED <<thread, tables, strayed>> => Tasks' /\ StrayedAre'
  /\ StrayedAre /\ UNCHANGED <<tables, strayed>> => StrayedAre'
  /\ OthersInvite /\ UNCHANGED invitedBy => OthersInvite'
  /\ PalleAreDue /\ UNCHANGED <<palle, due, strayed>> => PalleAreDue'
  /\ RewardsCounted /\ UNCHANGED <<paid, rewards>> => RewardsCounted'
  /\ CoinsCounted /\ UNCHANGED <<old, palle, earned, rewards>> => CoinsCounted'
<1>1. StrayedAre /\ UNCHANGED <<tables, strayed>> => StrayedAre'
  BY DEF StrayedAre, tables, Linked, Played, AccountsOf, OnTelegram
<1>2. Tasks /\ UNCHANGED <<thread, tables, strayed>> => Tasks'
  BY DEF Tasks, tables
<1>3. OthersInvite /\ UNCHANGED invitedBy => OthersInvite'
  BY DEF OthersInvite
<1>4. PalleAreDue /\ UNCHANGED <<palle, due, strayed>> => PalleAreDue'
  BY DEF PalleAreDue
<1>5. RewardsCounted /\ UNCHANGED <<paid, rewards>> => RewardsCounted'
  BY DEF RewardsCounted, PaidKeys
<1>6. CoinsCounted /\ UNCHANGED <<old, palle, earned, rewards>> => CoinsCounted'
  BY DEF CoinsCounted, CoinsOf
<1> QED
  BY <1>1, <1>2, <1>3, <1>4, <1>5, <1>6

\* The thread goes on to the next step of the same command, or is done with it.
LEMMA TasksGoOn ==
  ASSUME TaskTypes, Tasks, NEW t \in {"telegram", "irc"}, UNCHANGED <<tables, strayed>>,
         thread' = [thread EXCEPT ![t] = Idle]
           \/ (thread[t].step = "handle" /\ thread' = [thread EXCEPT ![t].step = "invite"])
  PROVE  Tasks'
<1> SUFFICES ASSUME NEW u \in {"telegram", "irc"}, thread'[u].step # "idle"
             PROVE  /\ accounts'[thread'[u].account] # None
                    /\ \/ thread'[u].key = accounts'[thread'[u].account]
                       \/ {thread'[u].key, accounts'[thread'[u].account]} \subseteq strayed'
  BY DEF Tasks
<1>1. /\ thread'[u].account = thread[u].account /\ thread'[u].key = thread[u].key
      /\ thread[u].step # "idle"
  <2>1. CASE thread' = [thread EXCEPT ![t] = Idle]
    BY <2>1 DEF TaskTypes, Task, Idle
  <2>2. CASE thread[t].step = "handle" /\ thread' = [thread EXCEPT ![t].step = "invite"]
    BY <2>2 DEF TaskTypes, Task
  <2> QED
    BY <2>1, <2>2
<1>2. accounts' = accounts /\ strayed' = strayed
  BY DEF tables
<1> QED
  BY <1>1, <1>2 DEF Tasks

LEMMA SeenStep ==
  ASSUME Inv, NEW t \in {"telegram", "irc"}, NEW a \in Accounts, NEW n \in Names, Seen(t, a, n)
  PROVE  Inv'
<1> DEFINE key == SeenKey(a, n)
<1>1. /\ SeenTables(a, n, key)
      /\ thread' = [thread EXCEPT ![t] = [step |-> "handle", account |-> a, key |-> key]]
      /\ UNCHANGED <<old, invitedBy, paid, money, strayed>>
  BY SeenDoes DEF Inv
<1>2. /\ key \in Keys
      /\ accounts[a] # None => key = accounts[a]
      /\ accounts[a] = None =>
           /\ ~Played(key)
           /\ \/ key = a
              \/ /\ key \in Names
                 /\ IF OnTelegram(a) THEN tgId[key] = a ELSE key \in ircKnown /\ tgId[key] = None
  BY SeenKeyIs DEF Inv, Types
<1>3. Types' /\ Agreement'
  <2>1. Types'
    BY SeenTypes DEF Inv
  <2>2. WhoTypes /\ RestTypes /\ Agreement /\ UNCHANGED old
    BY <1>1 DEF Inv, Types
  <2> HIDE DEF key
  <2>3. key = SeenKey(a, n)
    BY DEF key
  <2> QED
    BY <1>1, <2>1, <2>2, <2>3, SeenAgrees
<1> HIDE DEF key
<1>4. WhoTypes /\ TaskTypes /\ RestTypes /\ Tasks /\ StrayedAre
  BY DEF Inv, Types
<1>5. /\ \A b \in Accounts : accounts'[b] = IF b = a THEN key ELSE accounts[b]
      /\ key # None
  BY <1>1, <1>2, <1>4, Kinds DEF SeenTables, WhoTypes
<1>6. \A b \in Accounts : accounts[b] # None => accounts'[b] = accounts[b]
  BY <1>2, <1>5
<1>7. Tasks'
  <2> SUFFICES ASSUME NEW u \in {"telegram", "irc"}, thread'[u].step # "idle"
               PROVE  /\ accounts'[thread'[u].account] # None
                      /\ \/ thread'[u].key = accounts'[thread'[u].account]
                         \/ {thread'[u].key, accounts'[thread'[u].account]} \subseteq strayed'
    BY DEF Tasks
  <2>1. CASE u = t
    <3>1. thread'[u].account = a /\ thread'[u].key = key
      BY <1>1, <1>4, <2>1 DEF TaskTypes
    <3> QED
      BY <1>5, <3>1
  <2>2. CASE u # t
    <3>1. thread'[u] = thread[u] /\ thread[u].account \in Accounts
      BY <1>1, <1>4, <2>2 DEF TaskTypes
    <3>2. accounts'[thread[u].account] = accounts[thread[u].account]
      BY <1>4, <1>6, <3>1 DEF Tasks
    <3> QED
      BY <1>1, <1>4, <3>1, <3>2 DEF Tasks
  <2> QED
    BY <2>1, <2>2
<1>8. StrayedAre'
  <2> SUFFICES ASSUME NEW k \in strayed
               PROVE  \/ Linked(k)'
                      \/ /\ ~Played(k)'
                         /\ IF k \in Accounts THEN accounts'[k] # None
                            ELSE tgId'[k] = None /\ k \notin ircKnown'
    BY <1>1 DEF StrayedAre
  <2>1. CASE Linked(k)
    <3>1. PICK b \in AccountsOf(k), c \in AccountsOf(k) : OnTelegram(b) # OnTelegram(c)
      BY <2>1 DEF Linked
    <3>2. k # None
      BY <1>4, Kinds DEF RestTypes
    <3>3. b \in AccountsOf(k)' /\ c \in AccountsOf(k)'
      BY <1>6, <3>1, <3>2 DEF AccountsOf
    <3> QED
      BY <3>1, <3>3 DEF Linked, OnTelegram
  <2>2. CASE ~Linked(k)
    <3>1. /\ ~Played(k)
          /\ IF k \in Accounts THEN accounts[k] # None ELSE tgId[k] = None /\ k \notin ircKnown
      BY <1>4, <2>2 DEF StrayedAre
    <3>2. k # key
      <4>1. CASE accounts[a] = None
        BY <1>2, <3>1, <4>1, Kinds
      <4>2. CASE accounts[a] # None
        BY <1>2, <3>1, <4>2, PlayedBy
      <4> QED
        BY <4>1, <4>2
    <3>3. ~Played(k)'
      BY <1>5, <3>1, <3>2 DEF Played, AccountsOf
    <3>4. CASE k \in Accounts
      BY <1>6, <3>1, <3>3, <3>4
    <3>5. CASE k \notin Accounts
      BY <1>1, <1>4, <3>1, <3>2, <3>3, <3>5 DEF SeenTables, WhoTypes, RestTypes
    <3> QED
      BY <3>4, <3>5
  <2> QED
    BY <2>1, <2>2
<1>9. OthersInvite' /\ PalleAreDue' /\ RewardsCounted' /\ CoinsCounted'
  BY <1>1, Stays DEF Inv, money
<1> QED
  BY <1>3, <1>7, <1>8, <1>9 DEF Inv

\* Two players become one: neither had been merged under the feet of a command before.
LEMMA JoinsKeep ==
  ASSUME Inv, NEW t \in {"telegram", "irc"}, NEW n \in Names, Link(t, n),
         NEW p, NEW s, NEW b, NEW c, Joins(p, s, b, c)
  PROVE  Tasks' /\ StrayedAre' /\ PalleAreDue' /\ UNCHANGED palle
<1> USE DEF Inv, Types
<1>1. /\ p \in Keys /\ s \in Keys /\ p # s /\ palle[s] = 0
      /\ b \in Accounts /\ c \in Accounts /\ OnTelegram(b) # OnTelegram(c)
      /\ AccountsOf(p) = {b} /\ AccountsOf(s) = {c}
      /\ MergeTables(p, s) /\ MergeBooks(p, s)
  BY DEF Joins
<1>2. \A a \in Accounts : /\ accounts[a] = p <=> a = b
                          /\ accounts[a] = s <=> a = c
                          /\ accounts'[a] = IF a = c THEN p ELSE accounts[a]
  BY <1>1, MergedTables
<1>3. \A k \in Keys : tgId'[k] = IF k = s THEN None
                                 ELSE IF k = p THEN IF OnTelegram(b) THEN b ELSE c
                                 ELSE tgId[k]
  BY <1>1, MergedTables
<1>4. (\A k \in Keys \ {p, s} : k \in ircKnown' <=> k \in ircKnown) /\ s \notin ircKnown'
  BY <1>1, MergedTables
<1>5. p # None /\ s # None /\ b # c /\ p \in Keys /\ s \in Keys
  BY <1>1, Kinds
<1>6. p \notin strayed /\ s \notin strayed
  <2>1. Played(p) /\ Played(s)
    BY <1>1 DEF Played
  <2>2. ~Linked(p) /\ ~Linked(s)
    BY <1>1 DEF Linked
  <2> QED
    BY <2>1, <2>2 DEF StrayedAre
<1>7. strayed' = IF InUse(s) THEN strayed \cup {p, s} ELSE strayed
  BY <1>1 DEF MergeBooks
<1>8. thread[t].step = "handle" /\ thread' = [thread EXCEPT ![t].step = "invite"]
  BY DEF Link, Handled
<1>9. Tasks'
  <2> SUFFICES ASSUME NEW u \in {"telegram", "irc"}, thread'[u].step # "idle"
               PROVE  /\ accounts'[thread'[u].account] # None
                      /\ \/ thread'[u].key = accounts'[thread'[u].account]
                         \/ {thread'[u].key, accounts'[thread'[u].account]} \subseteq strayed'
    BY DEF Tasks
  <2> DEFINE a == thread[u].account
  <2>1. /\ thread'[u].account = a /\ thread'[u].key = thread[u].key
        /\ thread[u].step # "idle" /\ a \in Accounts
    BY <1>8 DEF TaskTypes, Task
  <2>2. /\ accounts[a] # None
        /\ thread[u].key = accounts[a] \/ {thread[u].key, accounts[a]} \subseteq strayed
    BY <2>1 DEF Tasks
  <2>3. u \in DOMAIN thread
    BY DEF TaskTypes
  <2> HIDE DEF a
  <2>4. CASE accounts[a] = s
    <3>1. thread[u].key = s
      BY <1>6, <2>2, <2>4
    <3>2. strayed' = strayed \cup {p, s}
      BY <1>7, <2>3, <3>1 DEF InUse
    <3>3. accounts'[a] = p
      BY <1>2, <2>1, <2>4
    <3> QED
      BY <1>5, <2>1, <3>1, <3>2, <3>3
  <2>5. CASE accounts[a] # s
    <3>1. accounts'[a] = accounts[a]
      BY <1>2, <2>1, <2>5
    <3> QED
      BY <1>7, <2>1, <2>2, <3>1
  <2> QED
    BY <2>4, <2>5
<1>10. StrayedAre'
  <2> SUFFICES ASSUME NEW k \in strayed'
               PROVE  \/ Linked(k)'
                      \/ /\ ~Played(k)'
                         /\ IF k \in Accounts THEN accounts'[k] # None
                            ELSE tgId'[k] = None /\ k \notin ircKnown'
    BY DEF StrayedAre
  <2>1. CASE k = p
    <3>1. b \in AccountsOf(p)' /\ c \in AccountsOf(p)'
      BY <1>1, <1>2, <1>5 DEF AccountsOf
    <3> QED
      BY <1>1, <2>1, <3>1 DEF Linked, OnTelegram
  <2>2. CASE k = s
    <3>1. ~Played(s)'
      BY <1>2, <1>5 DEF Played, AccountsOf
    <3>2. ASSUME s \in Accounts PROVE accounts'[s] # None
      <4>1. accounts[c] = s
        BY <1>1, <1>2
      <4>2. accounts[s] # None
        BY <1>1, <3>2, <4>1 DEF Agreement, Rooted
      <4> QED
        BY <1>2, <1>5, <3>2, <4>2
    <3>3. tgId'[s] = None /\ s \notin ircKnown'
      BY <1>3, <1>4, <1>5
    <3> QED
      BY <2>2, <3>1, <3>2, <3>3
  <2>3. CASE k \notin {p, s}
    <3>1. k \in strayed /\ k \in Keys /\ k # None
      BY <1>7, <2>3, Kinds DEF RestTypes
    <3>2. CASE Linked(k)
      <4>1. PICK d \in AccountsOf(k), e \in AccountsOf(k) : OnTelegram(d) # OnTelegram(e)
        BY <3>2 DEF Linked
      <4>2. d \in AccountsOf(k)' /\ e \in AccountsOf(k)'
        BY <1>2, <2>3, <4>1 DEF AccountsOf
      <4> QED
        BY <4>1, <4>2 DEF Linked, OnTelegram
    <3>3. CASE ~Linked(k)
      <4>1. /\ ~Played(k)
            /\ IF k \in Accounts THEN accounts[k] # None ELSE tgId[k] = None /\ k \notin ircKnown
        BY <3>1, <3>3 DEF StrayedAre
      <4>2. ~Played(k)'
        BY <1>2, <2>3, <4>1 DEF Played, AccountsOf
      <4>3. k \in Accounts => accounts'[k] # None
        BY <1>2, <1>5, <4>1
      <4>4. k \notin Accounts => tgId'[k] = None /\ k \notin ircKnown'
        BY <1>3, <1>4, <2>3, <3>1, <4>1
      <4> QED
        BY <4>2, <4>3, <4>4
    <3> QED
      BY <3>2, <3>3
  <2> QED
    BY <2>1, <2>2, <2>3
<1>11. palle' = palle
  <2>1. palle \in [Keys -> Nat] /\ palle' = [palle EXCEPT ![s] = 0]
    BY <1>1 DEF MergeBooks, Forget, MoneyTypes
  <2> QED
    BY <1>1, <2>1
<1>12. PalleAreDue'
  <2> SUFFICES ASSUME NEW k \in Keys, k \notin strayed' PROVE palle'[k] = due'[k]
    BY DEF PalleAreDue
  <2>1. palle[k] = due[k] /\ palle[p] = due[p] /\ due[s] = 0
    BY <1>1, <1>6, <1>7 DEF PalleAreDue
  <2>2. due \in [Keys -> Nat] /\ palle \in [Keys -> Nat]
    BY DEF MoneyTypes
  <2>3. due' = [[due EXCEPT ![s] = 0] EXCEPT ![p] = due[p] + due[s]]
    BY <1>1 DEF MergeBooks, Forget
  <2>4. due[p] + due[s] = due[p]
    BY <1>1, <2>1, <2>2
  <2>5. due'[k] = IF k = p THEN due[p] ELSE IF k = s THEN 0 ELSE due[k]
    BY <1>1, <2>2, <2>3, <2>4
  <2>6. due'[k] = due[k]
    BY <2>1, <2>5
  <2> QED
    BY <1>11, <2>1, <2>6
<1> QED
  BY <1>9, <1>10, <1>11, <1>12

LEMMA LinkStep ==
  ASSUME Inv, NEW t \in {"telegram", "irc"}, NEW n \in Names, Link(t, n)
  PROVE  Inv'
<1>1. TasksAreOfPlayers /\ Types /\ Agreement
  BY TasksPlay DEF Inv
<1>2. Types' /\ Agreement'
  BY <1>1, LinkTypes
<1>3. /\ thread[t].step = "handle" /\ thread' = [thread EXCEPT ![t].step = "invite"]
      /\ UNCHANGED <<old, paid, invitedBy, earned, rewards>>
  BY DEF Link, Handled, invites
<1>4. OthersInvite' /\ RewardsCounted'
  BY <1>3, Stays DEF Inv
<1>5. CASE UNCHANGED <<tables, welcomed, filed, palle, due, strayed>>
  <2>1. Tasks'
    BY <1>3, <1>5, TasksGoOn DEF Inv, Types
  <2>2. StrayedAre' /\ PalleAreDue' /\ CoinsCounted'
    BY <1>3, <1>5, Stays DEF Inv
  <2> QED
    BY <1>2, <1>4, <2>1, <2>2 DEF Inv
<1>6. ASSUME NEW p, NEW s, NEW b, NEW c, Joins(p, s, b, c) PROVE Inv'
  <2>1. Tasks' /\ StrayedAre' /\ PalleAreDue' /\ UNCHANGED palle
    BY <1>6, JoinsKeep
  <2>2. CoinsCounted'
    BY <1>3, <2>1, Stays DEF Inv
  <2> QED
    BY <1>2, <1>4, <2>1, <2>2 DEF Inv
<1> QED
  BY <1>1, <1>5, <1>6, LinkDoes

LEMMA PlayStep ==
  ASSUME Inv, NEW t \in {"telegram", "irc"}, Play(t)
  PROVE  Inv'
<1> DEFINE key == thread[t].key
           who == accounts[thread[t].account]
<1>1. Types'
  BY PlayTypes, TasksPlay DEF Inv
<1>2. /\ thread[t].step = "handle" /\ thread' = [thread EXCEPT ![t].step = "invite"]
      /\ UNCHANGED <<old, tables, invitedBy, paid, rewards, strayed>>
  BY DEF Play, Handled, identity, invites, tables
<1>3. /\ key \in Keys /\ who \in Keys
      /\ key = who \/ {key, who} \subseteq strayed
  <2>1. key \in Keys /\ thread[t].account \in Accounts
    BY <1>2 DEF Inv, Types, TaskTypes
  <2>2. who # None /\ (key = who \/ {key, who} \subseteq strayed)
    BY <1>2 DEF Inv, Tasks
  <2> QED
    BY <2>1, <2>2 DEF Inv, Types, WhoTypes, OrNone
<1>4. \/ UNCHANGED <<filed, palle, earned, due>>
      \/ /\ earned' = earned + 1
         /\ palle' = [palle EXCEPT ![key] = @ + 1]
         /\ due' = [due EXCEPT ![who] = @ + 1]
  BY DEF Play
<1> HIDE DEF key, who
<1>5. Agreement' /\ Tasks' /\ StrayedAre' /\ OthersInvite' /\ RewardsCounted'
  BY <1>2, AgreementStays, TasksGoOn, Stays DEF Inv, Types
<1>6. CASE UNCHANGED <<filed, palle, earned, due>>
  BY <1>1, <1>2, <1>5, <1>6, Stays DEF Inv
<1>7. CASE /\ earned' = earned + 1
           /\ palle' = [palle EXCEPT ![key] = @ + 1]
           /\ due' = [due EXCEPT ![who] = @ + 1]
  <2>1. /\ palle \in [Keys -> Nat] /\ due \in [Keys -> Nat] /\ earned \in Nat /\ rewards \in Nat
        /\ IsFiniteSet(old.filed)
    BY OldTypes DEF Inv, Types, MoneyTypes
  <2>2. PalleAreDue'
    BY <1>2, <1>3, <1>7, <2>1 DEF Inv, PalleAreDue
  <2>3. /\ IsFiniteSet(CoinsOf(palle'))
        /\ Cardinality(CoinsOf(palle')) = Cardinality(CoinsOf(palle)) + 1
    <3>1. IsFiniteSet(CoinsOf(palle))
      BY DEF Inv, CoinsCounted
    <3>2. More(palle, palle', key, 1)
      BY <1>3, <1>7, <2>1 DEF More
    <3> QED
      BY <3>1, <3>2, MoreCoins
  <2>4. CoinsCounted'
    <3> DEFINE first == Cardinality(old.filed)
               now == Cardinality(CoinsOf(palle))
    <3>1. first \in Nat
      BY <2>1, FS_CardinalityType
    <3>2. now = first + earned + rewards
      BY DEF Inv, CoinsCounted
    <3>3. Cardinality(CoinsOf(palle')) = now + 1
      BY <2>3
    <3> HIDE DEF first, now
    <3>4. Cardinality(CoinsOf(palle')) = first + earned' + rewards'
      BY <1>2, <1>7, <2>1, <3>1, <3>2, <3>3
    <3>5. IsFiniteSet(CoinsOf(palle')) /\ CoinsOf(palle)' = CoinsOf(palle') /\ old' = old
      BY <1>2, <2>3 DEF CoinsOf
    <3> QED
      BY <3>4, <3>5, Zenon DEF CoinsCounted, first
  <2> QED
    BY <1>1, <1>5, <2>2, <2>4 DEF Inv
<1> QED
  BY <1>4, <1>6, <1>7

LEMMA InvitedByStep ==
  ASSUME Inv, NEW t \in {"telegram", "irc"}, NEW n \in Names, NEW telegram \in BOOLEAN,
         InvitedBy(t, n, telegram)
  PROVE  Inv'
<1>1. Types'
  BY InvitedByTypes DEF Inv
<1>2. /\ thread[t].step = "handle" /\ thread' = [thread EXCEPT ![t].step = "invite"]
      /\ UNCHANGED <<old, tables, paid, palle, due, earned, rewards, strayed>>
  BY DEF InvitedBy, Handled, identity, money, tables
<1>3. /\ Agreement' /\ Tasks' /\ StrayedAre'
      /\ PalleAreDue' /\ RewardsCounted' /\ CoinsCounted'
  BY <1>2, AgreementStays, TasksGoOn, Stays DEF Inv, Types
<1>4. OthersInvite'
  <2> DEFINE key == thread[t].key
             inviter == player_by_name(n, telegram)
  <2>1. \/ UNCHANGED invitedBy
        \/ inviter # key /\ invitedBy' = [invitedBy EXCEPT ![key] = inviter]
    BY DEF InvitedBy
  <2> HIDE DEF key, inviter
  <2>2. invitedBy \in [Keys -> OrNone(Keys)] /\ OthersInvite
    BY DEF Inv, Types, InviteTypes
  <2> QED
    BY <2>1, <2>2 DEF OthersInvite
<1> QED
  BY <1>1, <1>3, <1>4 DEF Inv

LEMMA PayInviteStep ==
  ASSUME Inv, NEW t \in {"telegram", "irc"}, PayInvite(t)
  PROVE  Inv'
<1> DEFINE key == thread[t].key
           inviter == invitedBy[key]
<1>1. Types'
  BY PayInviteTypes DEF Inv
<1>2. /\ thread[t].step = "invite" /\ thread' = [thread EXCEPT ![t] = Idle]
      /\ UNCHANGED <<old, tables, invitedBy, strayed>>
  BY DEF PayInvite, identity, tables
<1>3. Agreement' /\ Tasks' /\ StrayedAre' /\ OthersInvite'
  BY <1>2, AgreementStays, TasksGoOn, Stays DEF Inv, Types
<1>4. /\ key \in Keys /\ paid \in [Keys -> -1 .. 1] /\ invitedBy \in [Keys -> OrNone(Keys)]
      /\ inviter # key /\ IsFiniteSet(old.filed)
      /\ palle \in [Keys -> Nat] /\ due \in [Keys -> Nat] /\ earned \in Nat /\ rewards \in Nat
  BY <1>2, OldTypes DEF Inv, Types, TaskTypes, InviteTypes, MoneyTypes, OthersInvite
<1>5. \/ UNCHANGED <<paid, money>>
      \/ paid[key] = 0 /\ paid' = [paid EXCEPT ![key] = -1] /\ UNCHANGED money
      \/ /\ paid[key] = 0 /\ inviter # None
         /\ paid' = [paid EXCEPT ![key] = 1]
         /\ palle' = [k \in Keys |-> palle[k] + Share(key, k)]
         /\ due' = [k \in Keys |-> due[k] + Share(key, k)]
         /\ rewards' = rewards + 2 * Reward /\ UNCHANGED earned
  BY DEF PayInvite, InviteDue, Share
<1> HIDE DEF key
<1>6. CASE UNCHANGED <<paid, money>>
  BY <1>1, <1>2, <1>3, <1>6, Stays DEF Inv, money
<1>7. CASE paid[key] = 0 /\ paid' = [paid EXCEPT ![key] = -1] /\ UNCHANGED money
  <2>1. PaidKeys' = PaidKeys
    BY <1>4, <1>7 DEF PaidKeys
  <2>2. RewardsCounted'
    BY <1>7, <2>1 DEF Inv, RewardsCounted, money
  <2>3. PalleAreDue' /\ CoinsCounted'
    BY <1>2, <1>7, Stays DEF Inv, money
  <2> QED
    BY <1>1, <1>3, <2>2, <2>3 DEF Inv
<1>8. CASE /\ paid[key] = 0 /\ inviter # None
           /\ paid' = [paid EXCEPT ![key] = 1]
           /\ palle' = [k \in Keys |-> palle[k] + Share(key, k)]
           /\ due' = [k \in Keys |-> due[k] + Share(key, k)]
           /\ rewards' = rewards + 2 * Reward /\ UNCHANGED earned
  <2>1. inviter \in Keys
    BY <1>4, <1>8 DEF OrNone
  <2>2. PalleAreDue'
    BY <1>2, <1>8 DEF Inv, PalleAreDue
  <2>3. RewardsCounted'
    <3>1. PaidKeys' = PaidKeys \cup {key} /\ key \notin PaidKeys
      BY <1>4, <1>8 DEF PaidKeys
    <3> DEFINE c == Cardinality(PaidKeys)
    <3>2. IsFiniteSet(PaidKeys) /\ c \in Nat /\ rewards = 2 * Reward * c
      BY FS_CardinalityType DEF Inv, RewardsCounted
    <3>3. IsFiniteSet(PaidKeys') /\ Cardinality(PaidKeys') = c + 1
      BY <3>1, <3>2, FS_AddElement
    <3> HIDE DEF c
    <3>4. 2 * Reward * (c + 1) = 2 * Reward * c + 2 * Reward
      BY <3>2, Kinds
    <3>5. rewards' = 2 * Reward * Cardinality(PaidKeys')
      BY <1>8, <3>2, <3>3, <3>4, Zenon
    <3> QED
      BY <3>3, <3>5 DEF RewardsCounted
  <2>4. CoinsCounted'
    <3> DEFINE f == [palle EXCEPT ![key] = @ + Reward]
    <3>1. IsFiniteSet(CoinsOf(palle)) /\ Reward \in Nat
      BY Kinds DEF Inv, CoinsCounted
    <3>2. More(palle, f, key, Reward)
      BY <1>4, <3>1 DEF More
    <3>3. More(f, palle', inviter, Reward)
      <4>1. f \in [Keys -> Nat] /\ palle' \in [Keys -> Nat]
        <5>1. palle' \in [Keys -> Nat]
          BY <1>1 DEF Types, MoneyTypes
        <5> QED
          BY <1>4, <3>1, <5>1
      <4>2. palle'[inviter] = f[inviter] + Reward
        BY <1>4, <1>8, <2>1 DEF Share
      <4>3. \A j \in Keys : j # inviter => palle'[j] = f[j]
        BY <1>4, <1>8 DEF Share
      <4> QED
        BY <2>1, <3>1, <4>1, <4>2, <4>3 DEF More
    <3> HIDE DEF f
    <3>4. /\ IsFiniteSet(CoinsOf(f)) /\ IsFiniteSet(CoinsOf(palle'))
          /\ Cardinality(CoinsOf(f)) = Cardinality(CoinsOf(palle)) + Reward
          /\ Cardinality(CoinsOf(palle')) = Cardinality(CoinsOf(f)) + Reward
      BY <3>1, <3>2, <3>3, MoreCoins
    <3> DEFINE first == Cardinality(old.filed)
               now == Cardinality(CoinsOf(palle))
    <3>5. first \in Nat
      BY <1>4, FS_CardinalityType
    <3>6. now = first + earned + rewards
      BY DEF Inv, CoinsCounted
    <3>7. Cardinality(CoinsOf(palle')) = now + Reward + Reward
      BY <3>4
    <3> HIDE DEF first, now
    <3>8. Cardinality(CoinsOf(palle')) = first + earned' + rewards'
      BY <1>4, <1>8, <3>1, <3>5, <3>6, <3>7
    <3>9. CoinsOf(palle)' = CoinsOf(palle') /\ old' = old
      BY <1>2 DEF CoinsOf
    <3> QED
      BY <3>4, <3>8, <3>9, Zenon DEF CoinsCounted, first
  <2> QED
    BY <1>1, <1>3, <2>2, <2>3, <2>4 DEF Inv
<1> QED
  BY <1>5, <1>6, <1>7, <1>8

LEMMA NoReplyStep ==
  ASSUME Inv, NEW t \in {"telegram", "irc"}, NoReply(t)
  PROVE  Inv'
<1>1. Types'
  BY NoReplyTypes DEF Inv
<1>2. /\ thread' = [thread EXCEPT ![t] = Idle]
      /\ UNCHANGED <<old, tables, invitedBy, paid, palle, due, earned, rewards, strayed>>
  BY DEF NoReply, identity, invites, money, tables
<1>3. /\ Agreement' /\ Tasks' /\ StrayedAre' /\ OthersInvite'
      /\ PalleAreDue' /\ RewardsCounted' /\ CoinsCounted'
  BY <1>2, AgreementStays, TasksGoOn, Stays DEF Inv, Types
<1> QED
  BY <1>1, <1>3 DEF Inv

-----------------------------------------------------------------------------
(* From the old save on. *)

LEMMA InitInv == Init => Inv
<1> SUFFICES ASSUME Init PROVE Inv
  OBVIOUS
<1>1. old \in Scenarios /\ old \in Scenario
  BY ConstantsOK DEF Init
<1>2. /\ IsFiniteSet(old.filed) /\ old.filed \subseteq Names /\ old.irc \subseteq Names
      /\ old.telegram \in [Names -> OrNone(Telegrams)]
  BY <1>1, ConstantsOK DEF Scenario, OrNone
<1>3. Types
  <2>1. WhoTypes
    BY <1>2, Kinds DEF Init, WhoTypes, OrNone
  <2>2. InviteTypes
    BY Kinds DEF Init, InviteTypes, OrNone
  <2>3. MoneyTypes
    BY <1>2 DEF Init, MoneyTypes
  <2>4. TaskTypes
    BY DEF Init, TaskTypes, Task, Idle, OrNone
  <2>5. RestTypes
    BY <1>1, <1>2, Kinds DEF Init, RestTypes, KnownPlayers
  <2> QED
    BY <2>1, <2>2, <2>3, <2>4, <2>5 DEF Types
<1>4. /\ \A a \in Accounts : accounts[a] = None
      /\ \A k \in Keys : ~Played(k)
      /\ \A k : k # None => AccountsOf(k) = {}
  <2>1. \A a \in Accounts : accounts[a] = None
    BY DEF Init
  <2>2. \A k : k # None => AccountsOf(k) = {}
    BY <2>1 DEF AccountsOf
  <2> QED
    BY <2>1, <2>2, Kinds DEF Played
<1>5. Agreement
  <2>1. Rooted /\ OneAccountEach
    BY <1>4, Kinds DEF Rooted, OneAccountEach
  <2>2. IdsAgree
    BY <1>4, Kinds DEF Init, IdsAgree
  <2>3. AsSaved
    BY Kinds DEF Init, AsSaved
  <2>4. Named
    BY <1>4 DEF Named
  <2>5. NamesLeadToPlayers
    BY DEF Init, NamesLeadToPlayers, NamesOf
  <2>6. OnlyOnEvidence
    BY <1>4, Kinds DEF OnlyOnEvidence
  <2> QED
    BY <2>1, <2>2, <2>3, <2>4, <2>5, <2>6 DEF Agreement
<1>6. Tasks /\ StrayedAre
  BY DEF Init, Tasks, StrayedAre, Idle
<1>7. OthersInvite /\ PalleAreDue
  BY Kinds DEF Init, OthersInvite, PalleAreDue
<1>8. RewardsCounted
  <2>1. PaidKeys = {}
    BY DEF Init, PaidKeys
  <2>2. IsFiniteSet({}) /\ Cardinality({}) = 0
    BY FS_EmptySet
  <2>3. 2 * Reward * 0 = 0 /\ rewards = 0
    BY Kinds DEF Init
  <2> QED
    BY <2>1, <2>2, <2>3, Zenon DEF RewardsCounted
<1>9. CoinsCounted
  <2>1. palle = [k \in Keys |-> IF k \in old.filed THEN 1 ELSE 0] /\ earned = 0 /\ rewards = 0
    BY DEF Init
  <2>2. old.filed \in SUBSET Keys
    BY <1>2, Kinds
  <2>3. IsFiniteSet(CoinsOf(palle)) /\ Cardinality(CoinsOf(palle)) = Cardinality(old.filed)
    BY <1>2, <2>1, <2>2, FirstCoins
  <2>4. Cardinality(old.filed) \in Nat
    BY <1>2, FS_CardinalityType
  <2>5. Cardinality(old.filed) + earned + rewards = Cardinality(old.filed)
    BY <2>1, <2>4
  <2> QED
    BY <2>3, <2>5, Zenon DEF CoinsCounted
<1> QED
  BY <1>3, <1>5, <1>6, <1>7, <1>8, <1>9 DEF Inv

LEMMA NextInv == Inv /\ [Next]_vars => Inv'
<1> SUFFICES ASSUME Inv, [Next]_vars PROVE Inv'
  OBVIOUS
<1>1. DOMAIN thread = {"telegram", "irc"}
  BY DEF Inv, Types, TaskTypes
<1>2. ASSUME Next PROVE Inv'
  <2>1. PICK t \in {"telegram", "irc"} :
          \/ \E a \in Accounts, n \in Names : Seen(t, a, n)
          \/ \E n \in Names : Link(t, n) \/ (\E telegram \in BOOLEAN : InvitedBy(t, n, telegram))
          \/ Play(t) \/ PayInvite(t) \/ NoReply(t)
    BY <1>1, <1>2, Zenon DEF Next
  <2> QED
    BY <2>1, SeenStep, LinkStep, InvitedByStep, PlayStep, PayInviteStep, NoReplyStep, Zenon
<1>3. ASSUME UNCHANGED vars PROVE Inv'
  <2>1. /\ UNCHANGED identity /\ UNCHANGED invites /\ UNCHANGED money /\ UNCHANGED thread
        /\ UNCHANGED <<old, welcomed, strayed, commands>>
    BY <1>3 DEF vars
  <2>2. Types'
    BY <2>1, SameTypes DEF Inv, Types
  <2>3. UNCHANGED <<old, tables, invitedBy, paid, palle, due, earned, rewards, strayed>>
    BY <2>1 DEF identity, invites, money, tables
  <2>4. /\ Agreement' /\ Tasks' /\ StrayedAre' /\ OthersInvite'
        /\ PalleAreDue' /\ RewardsCounted' /\ CoinsCounted'
    BY <2>1, <2>3, AgreementStays, Stays DEF Inv
  <2> QED
    BY <2>2, <2>4 DEF Inv
<1> QED
  BY <1>2, <1>3

LEMMA Always == Spec => []Inv
BY InitInv, NextInv, PTL DEF Spec

\* The variables keep their types, and none counts below zero.
THEOREM TypesHold == Spec => []TypeOK
<1>1. Inv => TypeOK
  BY TypesAreTypeOK DEF Inv
<1> QED
  BY <1>1, Always, PTL

\* Nobody plays with two accounts of one platform, a name leads to a player who is there
\* and goes by it, and a name of an old save is played only on the evidence of the save:
\* whatever player_seen and player_link do, in whatever order.
THEOREM WhoIsWho == Spec => []TablesAgree
<1>1. Inv => TablesAgree
  BY DEF Inv, Agreement, TablesAgree
<1> QED
  BY <1>1, Always, PTL

\* Nothing is lost, won or moved to another by a change of name or by a link
\* (player_link refuses where both have something), and an invite pays once.
THEOREM PalleStayTheirs == Spec => []PalleFollowThePlayer
<1>1. Inv => PalleFollowThePlayer
  <2> SUFFICES ASSUME Inv PROVE PalleFollowThePlayer
    OBVIOUS
  <2>1. DOMAIN palle = Keys
    BY DEF Inv, Types, MoneyTypes
  <2>2. CoinsOf(palle) = Coins
    BY <2>1 DEF CoinsOf, Coins
  <2> QED
    BY <2>2 DEF Inv, PalleFollowThePlayer, PalleAreDue, RewardsCounted, PaidKeys, CoinsCounted
<1> QED
  BY <1>1, Always, PTL

=============================================================================
