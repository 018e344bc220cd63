------------------------------ MODULE Identity ------------------------------
(***************************************************************************)
(* Who is who: the accounts on the two platforms, the players they play,    *)
(* the names that lead to them, linking two accounts, and the invites,      *)
(* which pay whoever is named.  From src/src/game.cpp (player_seen,         *)
(* legacy_owner, player_by_name, player_link, invite_record, invite_due)    *)
(* and src/src/commands.cpp (dispatch, command_dispatch).                   *)
(*                                                                         *)
(* A command is up to three transactions: the sender is seen, the handler   *)
(* runs with the key that came of it, an invite may fall due (a fourth, the *)
(* guide's, decides nothing).  The two threads that execute commands take   *)
(* turns between any two of them, and the key is not looked up again.       *)
(*                                                                         *)
(* A name is one spelling of it.  Palle stand for all that has_assets       *)
(* counts.  Days go by as the model likes.                                  *)
(***************************************************************************)
EXTENDS Integers, FiniteSets

CONSTANTS
  Telegrams,   \* accounts "tg:..."
  Ircs,        \* accounts "irc:..."
  Names,       \* what somebody may be called, on either platform or in an old save
  None,        \* no player, no account, no name
  Scenarios,   \* how it starts: an old save, the configuration, and how much may happen
  DaysNeeded,  \* invite_days_needed
  Reward       \* what an invite pays, to each of the two

Accounts == Telegrams \cup Ircs

\* A player's key is the account that first played him or, in a save from before the
\* accounts, his name.
Keys == Accounts \cup Names

\* Of an old save, the names with anything on file and where each was seen; are newcomers
\* told apart (AppConfig::newcomers); and the bounds: commands, palle earned by playing,
\* the names each account goes by.
Scenario == [filed : SUBSET Names, telegram : [Names -> Telegrams \cup {None}], irc : SUBSET Names,
             newcomers : BOOLEAN,
             commands : Nat, earned : Nat, called : [Accounts -> SUBSET Names]]

ASSUME ConstantsOK ==
  /\ None \notin Keys
  /\ Telegrams \cap Ircs = {} /\ Accounts \cap Names = {}
  /\ \A s \in Scenarios : s \in Scenario /\ IsFiniteSet(s.filed)
  /\ DaysNeeded \in Nat \ {0} /\ Reward \in Nat \ {0}

VARIABLES
  old,       \* the scenario: how it all started
  accounts,  \* state.accounts, None for one never seen
  tgNames,   \* state.telegram_names
  ircNicks,  \* state.irc_nicks
  display,   \* state.display_names
  tgId,      \* state.telegram_ids
  ircKnown,  \* state.irc_names
  filed,     \* the names with an entry in scores, ids, balloons...: see known_player
  palle,     \* state.scores
  welcomed,  \* state.welcomed
  requests,  \* state.link_requests
  joined,    \* state.joined
  invitedBy, \* state.invited_by
  days,      \* state.invite_days
  paid,      \* state.invite_paid: 0 when there is none
  thread,    \* what each thread executes: the step, the account, the key it goes by
  earned,    \* history: palle earned by playing
  rewards,   \* history: palle paid for invites
  due,       \* history: what each player should have
  strayed,   \* history: players merged under the feet of a command or of an invite
  commands   \* history, for the bound

identity == <<accounts, tgNames, ircNicks, display, tgId, ircKnown, requests>>
invites == <<joined, invitedBy, days, paid>>
money == <<filed, palle, earned, rewards, due>>
vars == <<old, identity, invites, money, welcomed, thread, strayed, commands>>

Idle == [step |-> "idle", account |-> None, key |-> None]

-----------------------------------------------------------------------------
(* Looking players up. *)

OnTelegram(account) == account \in Telegrams

AccountsOf(key) == {a \in Accounts : accounts[a] = key}

\* A name seen on both platforms, that no account has claimed yet.
ambiguous_legacy(key) == display[key] = None /\ tgId[key] # None /\ key \in ircKnown

\* Who an old save says this is: by the Telegram ID, or by a nick seen on IRC.
Candidates(account, name) ==
  IF OnTelegram(account) THEN {k \in Keys : tgId[k] = account}
  ELSE {k \in {name} : k \in filed /\ k \in ircKnown /\ tgId[k] = None}

\* "Never give a historical name to a different Telegram ID or to an IRC namesake."
legacy_owner(account, name) ==
  LET sure == {k \in Candidates(account, name) :
                 ~ambiguous_legacy(k) /\ AccountsOf(k) \subseteq {account}} IN
  IF Cardinality(Candidates(account, name)) = 1 /\ sure # {} THEN CHOOSE k \in sure : TRUE
  ELSE None

NamesOf(telegram) == IF telegram THEN tgNames ELSE ircNicks

\* A player by the name he goes by on a platform, or by the one an old save has.
player_by_name(name, telegram) ==
  IF NamesOf(telegram)[name] # None THEN NamesOf(telegram)[name]
  ELSE IF /\ name \in filed /\ display[name] = None /\ ~ambiguous_legacy(name)
          /\ IF telegram THEN tgId[name] # None ELSE tgId[name] = None /\ name \in ircKnown
       THEN name
  ELSE None

-----------------------------------------------------------------------------
(* player_seen, at the start of every command. *)

\* The player goes by this name now, and by no other.
Renamed(names, key, name) ==
  [n \in Names |-> IF n = name THEN key ELSE IF names[n] = key THEN None ELSE names[n]]

\* His name on Telegram is the one displayed, wherever he speaks.
Displayed(account, key) == OnTelegram(account) \/ tgId[key] = None

Seen(t, account, name) ==
  LET legacy == legacy_owner(account, name)
      key == IF accounts[account] # None THEN accounts[account]
             ELSE IF legacy # None THEN legacy
             ELSE account
      new == key \notin welcomed /\ key \notin joined
  IN
  /\ thread[t] = Idle /\ OnTelegram(account) = (t = "telegram")
  /\ name \in old.called[account] /\ commands < old.commands
  /\ commands' = commands + 1
  /\ accounts' = [accounts EXCEPT ![account] = key]
  /\ IF OnTelegram(account)
     THEN /\ tgNames' = Renamed(tgNames, key, name)
          /\ tgId' = [tgId EXCEPT ![key] = account]
          /\ UNCHANGED <<ircNicks, ircKnown>>
     ELSE /\ ircNicks' = Renamed(ircNicks, key, name)
          /\ ircKnown' = ircKnown \cup {key}
          /\ UNCHANGED <<tgNames, tgId>>
  /\ display' = IF Displayed(account, key) THEN [display EXCEPT ![key] = name] ELSE display
  /\ joined' = IF old.newcomers /\ new THEN joined \cup {key} ELSE joined
  /\ welcomed' = welcomed \cup {key}
  /\ \/ UNCHANGED days
     \/ /\ old.newcomers /\ key \in joined' /\ paid[key] = 0 /\ days[key] < DaysNeeded
        /\ days' = [days EXCEPT ![key] = @ + 1]
  /\ thread' = [thread EXCEPT ![t] = [step |-> "handle", account |-> account, key |-> key]]
  /\ UNCHANGED <<old, requests, invitedBy, paid, money, strayed>>

-----------------------------------------------------------------------------
(* player_link. *)

Theirs(mine, name) ==
  LET key == NamesOf(~OnTelegram(mine))[name] IN
  IF key = None THEN {} ELSE {a \in AccountsOf(key) : OnTelegram(a) # OnTelegram(mine)}

\* Mutant: whoever has a player of his own may be linked again.
MayLinkAgain(mine, theirs) == FALSE

\* One of the two plays with another account of the other's platform already.
AlreadyLinked(mine, theirs) ==
  \E a \in Accounts \ {mine, theirs} :
    \/ accounts[a] = accounts[mine] /\ OnTelegram(a) = OnTelegram(theirs)
    \/ accounts[a] = accounts[theirs] /\ OnTelegram(a) = OnTelegram(mine)

\* What player_link answers.
LinkStatus(mine, theirs) ==
  IF accounts[mine] = accounts[theirs] THEN "self"
  ELSE IF requests[theirs] # mine THEN "pending"
  ELSE IF AlreadyLinked(mine, theirs) THEN "already_linked"
  ELSE IF palle[accounts[mine]] > 0 /\ palle[accounts[theirs]] > 0 THEN "conflict"
  ELSE "linked"

\* Mutant: it is always the one who confirms.
PrimaryIsMine(mine, theirs) == accounts[mine]

\* The one of the two players that stays: he who has something.
Primary(mine, theirs) ==
  IF palle[accounts[theirs]] > 0 THEN accounts[theirs] ELSE accounts[mine]

Merged(table, secondary, primary) ==
  [x \in DOMAIN table |-> IF table[x] = secondary THEN primary ELSE table[x]]

Forget(table, key, nothing) == [table EXCEPT ![key] = nothing]

display_name(names, key) == IF names[key] = None THEN key ELSE names[key]

\* Mutant: looked up once the one that goes has been forgotten.
TelegramDisplayAfter(primary, secondary) ==
  IF tgId[primary] # None THEN display_name(display, primary)
  ELSE IF tgId[secondary] # None THEN display_name(Forget(display, secondary, None), secondary)
  ELSE None

\* What the two are called together, if either is on Telegram.
TelegramDisplay(primary, secondary) ==
  IF tgId[primary] # None THEN display_name(display, primary)
  ELSE IF tgId[secondary] # None THEN display_name(display, secondary)
  ELSE None

\* Whoever the threads or the invites still know by a key.
InUse(key) == (\E t \in DOMAIN thread : thread[t].key = key) \/ (\E k \in Keys : invitedBy[k] = key)

\* Two players become one: "so that he does not linger as a second, empty player".
Merge(mine, theirs) ==
  LET primary == Primary(mine, theirs)
      secondary == CHOOSE k \in {accounts[mine], accounts[theirs]} : k # primary
      shown == TelegramDisplay(primary, secondary)
  IN
  /\ accounts' = Merged(accounts, secondary, primary)
  /\ tgNames' = Merged(tgNames, secondary, primary)
  /\ ircNicks' = Merged(ircNicks, secondary, primary)
  /\ palle' = Forget(palle, secondary, 0)
  /\ filed' = filed \ {secondary}
  /\ welcomed' = welcomed \ {secondary}
  /\ tgId' = IF tgId[secondary] = None THEN tgId
             ELSE [tgId EXCEPT ![primary] = tgId[secondary], ![secondary] = None]
  /\ ircKnown' = IF secondary \in ircKnown THEN (ircKnown \ {secondary}) \cup {primary} ELSE ircKnown
  /\ display' = [Forget(display, secondary, None) EXCEPT
                   ![primary] = IF shown = None THEN @ ELSE shown]
  /\ requests' = [requests EXCEPT ![mine] = None, ![theirs] = None]
  /\ due' = [Forget(due, secondary, 0) EXCEPT ![primary] = due[primary] + due[secondary]]
  /\ strayed' = IF InUse(secondary) THEN strayed \cup {primary, secondary} ELSE strayed

Handled(t) == thread' = [thread EXCEPT ![t].step = "invite"]

Link(t, name) ==
  LET mine == thread[t].account IN
  /\ thread[t].step = "handle"
  /\ Handled(t)
  /\ \/ Theirs(mine, name) = {}
        /\ UNCHANGED <<identity, welcomed, filed, palle, due, strayed>>
     \/ \E theirs \in Theirs(mine, name) :
          CASE LinkStatus(mine, theirs) = "pending" ->
                 /\ requests' = [requests EXCEPT ![mine] = theirs]
                 /\ UNCHANGED <<accounts, tgNames, ircNicks, display, tgId, ircKnown, welcomed,
                                filed, palle, due, strayed>>
            [] LinkStatus(mine, theirs) = "linked" -> Merge(mine, theirs)
            [] OTHER -> UNCHANGED <<identity, welcomed, filed, palle, due, strayed>>
  /\ UNCHANGED <<old, invites, earned, rewards, commands>>

-----------------------------------------------------------------------------
(* The other handlers, and what follows them. *)

\* Anything a player may do, with the key he was seen by: he earns palle, or not.  What
\* he earns is due to whoever he is by now.
Play(t) ==
  LET key == thread[t].key IN
  /\ thread[t].step = "handle"
  /\ Handled(t)
  /\ \/ UNCHANGED <<filed, palle, earned, due>>
     \/ /\ earned < old.earned
        /\ earned' = earned + 1
        /\ palle' = [palle EXCEPT ![key] = @ + 1]
        /\ filed' = filed \cup ({key} \cap Names)
        /\ due' = [due EXCEPT ![accounts[thread[t].account]] = @ + 1]
  /\ UNCHANGED <<old, identity, invites, rewards, welcomed, strayed, commands>>

\* invite_record: a newcomer says who brought him, unless it is late for that.
InvitedBy(t, name, telegram) ==
  LET key == thread[t].key
      inviter == player_by_name(name, telegram)
  IN
  /\ thread[t].step = "handle"
  /\ Handled(t)
  /\ \/ UNCHANGED invitedBy
     \/ /\ key \in joined /\ invitedBy[key] = None /\ inviter \notin {None, key}
        /\ invitedBy' = [invitedBy EXCEPT ![key] = inviter]
  /\ UNCHANGED <<old, identity, joined, days, paid, money, welcomed, strayed, commands>>

\* Whether an invite falls due.
InviteDue(key) == invitedBy[key] # None /\ paid[key] = 0 /\ days[key] >= DaysNeeded

\* invite_due: the sentinel may find that the two are one person, who gets nothing.
PayInvite(t) ==
  LET key == thread[t].key
      inviter == invitedBy[key]
      Paid(k) == IF k = key \/ k = inviter THEN Reward ELSE 0
  IN
  /\ thread[t].step = "invite"
  /\ thread' = [thread EXCEPT ![t] = Idle]
  /\ \/ ~InviteDue(key) /\ UNCHANGED <<paid, money>>
     \/ /\ InviteDue(key)
        /\ paid' = [paid EXCEPT ![key] = -1]
        /\ UNCHANGED money
     \/ /\ InviteDue(key)
        /\ paid' = [paid EXCEPT ![key] = 1]
        /\ palle' = [k \in Keys |-> palle[k] + Paid(k)]
        /\ due' = [k \in Keys |-> due[k] + Paid(k)]
        /\ filed' = filed \cup ({key, inviter} \cap Names)
        /\ rewards' = rewards + 2 * Reward
        /\ UNCHANGED earned
  /\ UNCHANGED <<old, identity, joined, invitedBy, days, welcomed, strayed, commands>>

\* No answer where nothing may be claimed: a blocked player, a reply kept private.
NoReply(t) ==
  /\ thread[t].step = "invite"
  /\ thread' = [thread EXCEPT ![t] = Idle]
  /\ UNCHANGED <<old, identity, invites, money, welcomed, strayed, commands>>

\* known_players, each of whom is welcomed as the bot starts: nobody in an old save is new.
KnownPlayers == old.filed \cup old.irc \cup {n \in Names : old.telegram[n] # None}

Init ==
  /\ old \in Scenarios
  /\ accounts = [a \in Accounts |-> None]
  /\ tgNames = [n \in Names |-> None] /\ ircNicks = [n \in Names |-> None]
  /\ display = [k \in Keys |-> None]
  /\ tgId = [k \in Keys |-> IF k \in Names THEN old.telegram[k] ELSE None]
  /\ ircKnown = old.irc
  /\ filed = old.filed
  /\ palle = [k \in Keys |-> IF k \in old.filed THEN 1 ELSE 0]
  /\ welcomed = KnownPlayers
  /\ requests = [a \in Accounts |-> None]
  /\ joined = {}
  /\ invitedBy = [k \in Keys |-> None]
  /\ days = [k \in Keys |-> 0] /\ paid = [k \in Keys |-> 0]
  /\ thread = [t \in {"telegram", "irc"} |-> Idle]
  /\ earned = 0 /\ rewards = 0 /\ due = palle /\ strayed = {} /\ commands = 0

Next ==
  \E t \in DOMAIN thread :
    \/ \E a \in Accounts, n \in Names : Seen(t, a, n)
    \/ \E n \in Names : Link(t, n) \/ (\E telegram \in BOOLEAN : InvitedBy(t, n, telegram))
    \/ Play(t) \/ PayInvite(t) \/ NoReply(t)

Spec == Init /\ [][Next]_vars

-----------------------------------------------------------------------------
(* Properties. *)

OrNone(S) == S \cup {None}

\* The variables keep their types.
TypeOK ==
  /\ old \in Scenarios
  /\ accounts \in [Accounts -> OrNone(Keys)] /\ requests \in [Accounts -> OrNone(Accounts)]
  /\ {tgNames, ircNicks} \subseteq [Names -> OrNone(Keys)]
  /\ display \in [Keys -> OrNone(Names)]
  /\ tgId \in [Keys -> OrNone(Telegrams)]
  /\ ircKnown \subseteq Keys /\ filed \subseteq Names
  /\ {welcomed, joined, strayed} \subseteq SUBSET Keys
  /\ invitedBy \in [Keys -> OrNone(Keys)]
  /\ days \in [Keys -> 0 .. DaysNeeded] /\ paid \in [Keys -> -1 .. 1]
  /\ {palle, due} \subseteq [Keys -> Nat]
  /\ thread \in [{"telegram", "irc"} -> [step : {"idle", "handle", "invite"},
                                         account : OrNone(Accounts), key : OrNone(Keys)]]
  /\ {earned, rewards, commands} \subseteq Nat

\* Nobody plays with two accounts of one platform.
OneAccountEach ==
  \A a, b \in Accounts :
    a # b /\ accounts[a] # None /\ accounts[a] = accounts[b] => OnTelegram(a) # OnTelegram(b)

\* A name on a platform leads to a player who is there with an account, and the one on
\* Telegram is the one displayed.
NamesLeadToPlayers ==
  \A n \in Names, telegram \in BOOLEAN :
    LET key == NamesOf(telegram)[n] IN
    key # None => /\ \E a \in AccountsOf(key) : OnTelegram(a) = telegram
                  /\ telegram => display[key] = n

\* A name of an old save is played only by who the save says it was, or linked to him.
OnlyOnEvidence ==
  \A n \in Names : AccountsOf(n) # {} =>
    \E a \in AccountsOf(n) :
      IF OnTelegram(a) THEN old.telegram[n] = a ELSE n \in old.irc /\ old.telegram[n] = None

\* Whatever is seen, renamed and linked in whatever order, the accounts, the names and the
\* players agree.
TablesAgree == OneAccountEach /\ NamesLeadToPlayers /\ OnlyOnEvidence

\* All the palle there are, one by one.
Coins == UNION {{k} \X (1 .. palle[k]) : k \in Keys}

\* Nothing is lost, won or moved to another by a change of name or by a link, and an
\* invite pays once; except that a player merged while a command or an invite went by
\* his old key may miss what comes of it.
PalleFollowThePlayer ==
  /\ \A k \in Keys \ strayed : palle[k] = due[k]
  /\ rewards = 2 * Reward * Cardinality({k \in Keys : paid[k] = 1})
  /\ Cardinality(Coins) = Cardinality(old.filed) + earned + rewards

=============================================================================
