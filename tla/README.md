# A model of norelecbot

norelecbot is a chat game. Players on Telegram and IRC take turns holding
@TheConquister37 for a palla a second, ride to each other's houses to rob, give or
throw things, hang emoji with powers in their house or carry them along, and add
quotes. Four threads serve it: the Telegram poller, the IRC client, the raid keeper
and a small HTTP server. They share one `Storage`, which keeps the game state and the
quotes in two JSON files and runs every operation as a transaction under one mutex.

This directory holds TLA+ modules translated from the source, configurations that
check them with TLC on small instances, and proofs that TLAPS checks for every value
of the constants. `PROJECT.json` maps each definition to the lines it models and lists
the runs, the mutants that show each property can fail, the findings, the hazards and
the theorems.

## The system's parts

| Part | Source | State | Operations | Talks to |
|---|---|---|---|---|
| Place and rides | `game.cpp` | `current`, `raids`, `scores`, `balloons`, `cooldowns`, `frozen`, `joined`, `entered` | `conquister_claim`, `raid_start`, `raid_due`, `furniture_burn`, `gear_take`, `gear_store`, `player_seen` | Storage, belongings |
| Belongings | `game.cpp` | `furniture`, `equipped`, `smeared`, `knocks` | buying, hanging, moving, burning, landing, boarding, the 🦖, presents | Storage |
| Children and eggs | `game.cpp` | `pregnancies`, `children`, `eggs_at` | `births`, `grow`, `lay_eggs`, courtship | belongings (slots) |
| Worth of a hold | `game.cpp`, `zodiac.cpp` | `lightning_percent`, `bolts`, `banked`, `counted_from` | `hold_value`, `settle_hold`, `lose_bolts` | place |
| Identity | `game.cpp` | `accounts`, names, `link_requests`, ids | `player_seen`, `player_link` | every key of the state |
| Invites, guide | `game.cpp` | `invited_by`, `invite_days`, `invite_paid`, `guided` | `invite_record`, `invite_due`, `guide_due` | sentinel |
| Quotes | `game.cpp` | quotes file, `quote_authors`, `quotes_added` | `quote_add`, `quote_delete`, pages | Storage |
| Storage | `storage.cpp` | two files, their `.tmp`, backups, the mutex | `transaction`, `save`, `backup` | the file system |
| IRC session | `irc_session.cpp` | `registrations_`, `asked_`, `waiting_`, `joined_` | `handle`, `tick`, `connected` | server, commands |
| IRC connection | `irc.cpp` | outbox, waiting replies, answers for Telegram | `pump`, `irc_say`, reconnection | session, Telegram |
| Telegram poller | `telegram.cpp` | offset | `getUpdates`, `process_message`, `telegram_say` | commands, IRC replies |
| Raid keeper | `raids.cpp` | round, golden hour, last save | `raids_run` every few seconds | rides, sentinel, both chats |
| Sentinel | `sentinel.cpp` | what each player did lately, blocks | `heard`, `claim`, `ride`, `report`, `block` | commands, keeper |
| Pulse | `pulse.cpp` | hourly counters | `message`, `event`, `save` | nothing reads it |
| Commands | `commands.cpp` | none | parsing, one operation, the reply | all of the above |
| Start and stop | `main.cpp` | threads, stop flag | `run` | all threads |
| HTTP, config, text, map | the rest | none | read-only routes, pure functions | Storage |

What is hard here:

* **sequences of legal calls** that meet in one state: turning around twice, a ☢️ on
  somebody who is riding, a claim between a departure and a homecoming;
* **values read at one moment and used at another**: the newcomer's protection, the
  length of a leg, what NickServ said;
* **steps that can fail one by one**: two files that must agree, a backup before a
  reset, a reply lost after its command took effect;
* **late and lost answers**: WHOIS replies, link drops, crashes between steps.

* **a process that ends or dies at any moment**, with three threads that each hold part
  of what the others have to repeat, confirm or save.

What makes each part correct is stated below, where it is modelled.

## The modules

### Journeys (and JourneysProofs)

`Journeys` models who is where. A handler is one action, because it runs inside
`Storage::transaction`; its refusals change nothing and are the negated guards. The
keeper's `raid_due` walks the list of raids in the order they set off while it holds
the mutex, and each raid it visits may change the state the next visit reads. So a
round is `RoundBegins`, one `Visit` per raid and branch, and `RoundEnds` (the final
`erase_if`); `walk` is the position in the list and keeps every handler out meanwhile.

A caller reads the clock, then waits for the mutex, so the times by which calls act need
not grow: `clock` is what `seconds_now()` returns, `now` the moment the call at hand
brought along. They are the same unless a `LateCall` gets the mutex; then one handler, or
one round of the keeper, runs at that earlier moment, or the call is refused (`InVain`),
and `CallReturns` brings `now` back to the clock. One call runs at a time, but many may
have waited, and one may be later than the next. The clock itself is never set back.

| In the module | In the code |
|---|---|
| `hold`, `Empty` | `state.current` |
| `raids[p]`, with `order` | the `Raid` whose raider is p, and its place in the vector |
| `balloon[p]` | where p's 🎈 is among `furniture` and `equipped` |
| `wear[p]` | `state.balloons` |
| `ClaimDefended`, `ClaimTaken` | `conquister_claim` |
| `SetOff`, `TurnAround`, `WalkOut` | `raid_start` |
| `GearErrand` | `gear_take`, `gear_store`, through `go_home` |
| `BurnBalloon`, `ThrowAtPlace` | `furniture_burn` |
| `StartOver`, `StartAllOver`, `Land` | `start_over` (both), `land` |
| `DeliverPalle`, `DeliverPresent`, `ThrowAtHouse`, `HeldOff`, `Rob`, `ComeHome`, `PassBy`, `RoundEnds` | the branches of `raid_due` |

Abstracted: dice are choices; other emoji appear as what they allow (a 🥷 may spare a
🎈, the ⏳ any part of the wait, the 🐶 and 🥺 any part of the loot, the 🧂 a share, the
🔥 any part of the ice); distances are any length in `Legs` and any loot up to `Road`;
a hold is worth its seconds (the ⚡ share is `Belongings`'). A player has at most one 🎈.

`ledger` and `late` are history variables: what the place paid, less what a ☢️ destroyed;
and the seconds late calls waited. No action depends on them, but for the bound `MaxLate`.
A second in the place can be paid twice: one player reads 9 and waits, the holder leaves
at 10 and is paid to 10, then the first one's claim begins its hold at 9.
`NoSecondPaidTwice` says that this is the only way: what was paid, with what the hold in
progress is worth, exceeds the time gone by at most by `late`. Without a late call it says
that no second is paid twice.

### Documents, AtomicStore, Storage (and StorageProofs)

`Documents` says what transactions do to the pair of documents: quotes are added,
paid and signed; deleted and unsigned; the state is reset. It is pure and shared by
the two levels.

`AtomicStore` is what `Storage` promises: transactions one at a time, whole or not at
all. Two files cannot be replaced at once, so it allows what the code cannot avoid:
when the process dies between the two renames, or the undo fails, the quotes alone may
be ahead (`Torn`). It never allows the opposite, nor half a document.

`Storage` is the code step by step: waiting for the mutex, loading, the backup copy,
writing a `.tmp`, renaming it, the second document, the undo, letting go. Any call may
fail, and the process may die between any two steps and in the middle of a write. It
begins with a process that is not up and with any of the files there, missing, or left
by an older version; a start that finds an old state writes it anew, and may fail at it.
A file that is not there reads as an empty document, and a backup of it keeps nothing.
`Atomic == INSTANCE AtomicStore WITH store <- Committed, outcome <- ...` is the
refinement: the store is what another caller would find, quotes ahead of the state
counting only once they stay so, and a transaction is over when its last rename is.
The process dies but the machine does not: what was written stays written.

### IrcSession (and IrcSessionProofs)

`IrcSession` models which IRC nicks may play. One action per kind of line that
`Session::handle` tells apart and per branch, plus `tick` and `connected`. The server is
the environment: one ordered stream of lines towards the session, WHOIS requests it
answers late or never, each reply's lines together. `lines` is what the last handler
returned for the channel. `vouched` and `toldAt` are history variables set from the
lines the session reads, not from what it remembers: they are what the properties
compare its memory with. A nick may also be kicked by another (`Kick`): `Kicked` does what
the code does, which forgets whoever sent the line and goes on remembering who was
kicked, for `registration_seconds` at most. So "vouched for" means: by the server, on this
link, not too long ago, and no NICK, QUIT, PART or KICK of his own since. `Kept` is what erasing from the deque
leaves. Left out: getting into the channel, the account name of a 330, and the texts.

### Belongings (and BelongingsProofs, EmojiProofs)

`Belongings` models what the players own: `house` and `gear` are `state.furniture` and
`state.equipped`, slot by slot; `rides` is what each raid carries; `hold` is the part of
`state.current` that counts ⚡ and what a 🦞 became; `expecting` and `children` are the
pregnancies and who lives in which slot. An emoji is its power.

| In the module | In the code |
|---|---|
| `Welcome`, `SortOut` | `welcome`; `equipment_sort_out`, run on saves from before `split` |
| `Buy`, `FurnitureMove`, `Burn`, `BurnChild`, `ThrowAtPlace` | `furniture_buy`, `furniture_move`, `furniture_burn` |
| `GearTake`, `GearStore`, `SetOff`, `TurnBack`, `Claim`, `Leave` | `gear_take`, `gear_store`, `raid_start`, `conquister_claim` |
| `Deliver`, `NothingHung`, `ThrowAtHouse`, `Rob`, `ComeHome`, `RoundEnds` | the branches of `raid_due`, with `land` and `board` |
| `Birth`, `Grow` | `births`, `grow` |

Prices are left out (a purchase may always be too dear), and time, which `Journeys` has.
`BoltPercent` may be 0, as the configuration allows: then a hold counts no ⚡
(`Worthwhile`). It is the same from the beginning of a hold to its end; a restart with
another percent in the middle of one is not modelled.
The visits of a round come in any order; nothing else happens before the round is over.

### Relay (and RelayProofs)

`Relay` models the process: `run` in `main.cpp` with the poller in the main thread, the
IRC connection and the raid keeper, each of them one step per call that can fail or be
interrupted. What is said on one chat is repeated on the other through `waiting_replies`
(poller and keeper to IRC) and `answers_for_telegram` (IRC to poller). The process may be
told to stop, or die, between any two steps, and start again with what is on disk: the
news file (one with a text in it) and the sentinel's file. A reply is a number, so that order, loss and
repetition can be told. A write to IRC may also take for ever, because the socket has a
timeout for reads only and `send_line` does not look at the stop flag (`Stall`); the server
may read again, or the link be cut (`Unstall`), and need not. Of the sentinel it has the report, the block and `/unblock`; whom
it is sure of is a choice. `Scenarios` says how the bot is configured and how much of
everything may happen to it: TLC starts from each.

### Identity (and IdentityProofs)

`Identity` models who is who. A command is up to three transactions (`player_seen`, the
handler, `invite_due`) that go by a key looked up in the first; the thread of the other
platform may come between any two. Saves from before the accounts, in which a player is
a name, are among the initial states, with every piece of evidence about who the name
was. `due` and `strayed` are history: what each player should have, and who was merged
while a command or an invite still went by his old key.

## What the runs check

TLC explores each run completely. Every property of a passing run has a mutant of the
code's model that breaks it.

| Run | Instance | Shows |
|---|---|---|
| `Journeys` | 2 players, 2 rides, legs of 1 and 2, presents and ☢️, 4 seconds, calls late by a second in all, no penalties | types; the holder is never away; only a late call has a second paid twice; palle are conserved; nobody both gives and robs; nobody comes home later |
| `JourneysPlace` | a veteran and a newcomer, 1 ride, 🧊, penalties, movable 🎈, 3 seconds, calls on time | newcomers are spared; a 🎈 wears only where it guards; every ride ends |
| `JourneysTurn` | 1 ride of 2 seconds a leg | a finding: turning around twice |
| `JourneysReset` | 2 rides | a finding: an ended ride not settled |
| `Belongings` | 2 players, houses of 2 slots and a third that must stay empty, 2 slots on a player, 5 ways to begin, 3 commands | children keep their slots; there is room to come home; houses keep their limit; the hold counts its ⚡; a 🎈 stays its owner's; emoji are neither doubled nor lost on the way |
| `Relay` | 8 configurations and histories: up to 2 updates, commands, events, links, faults and processes | what waits is the latest; nothing old is told; order; the group hears after the channel; the sentinel remembers; old updates stay alone; the news is not given up untried; updates are executed; a stop ends everything, unless an IRC server reads no more |
| `RelayLetIn` | 1 update, 2 processes, nothing fails | a finding: who is let in during the last seconds is blocked again |
| `Identity` | 2 accounts a platform, 2 names, 6 ways to begin, up to 6 commands | the tables agree; palle follow whoever earned them |
| `Storage` | 2 threads, 3 transactions of every kind, 2 seconds, 2 failures, 1 crash | types and whole files; the documents agree; no reset without a copy; it implements `AtomicStore`; the mutex is let go |
| `StorageCopy` | 3 transactions, 2 seconds | a finding: two resets, one copy |
| `IrcSession` | 2 nicks, 2 commands, 1 departure or kick, 1 lost link | types; WHOIS and waiting agree; order; only the vouched-for are answered; told sparingly; every command is settled |
| `IrcSessionLate` | 1 nick, up to 3 commands | a finding: a reply in time is ignored |

Why the bounds are enough. Two rides are what one ride needs to change another one's
during a round, in both orders. Two players are robber and robbed, holder and claimer,
thrower and hit; the proofs below lift the same properties to any number. Four seconds
hold a leg of two seconds out and back with a turn, and an outward leg of one inside
it. One late second is enough for the claim above; penalties, which would only refuse
claims, are off in that run. In `JourneysPlace` calls are on time, for want of room: what a
late one could change there is proved for all (`NewcomersSpared`, `WornWhereItGuards`), and
a keeper who is late leaves to his next round what he did not see. In `Storage`, one thread in a transaction and one that waits, fails or enters next
is every pair the mutex tells apart; two failures are a save and its undo. In
`IrcSession` two commands of one nick share a WHOIS, or come from two nicks; with a
timeout of one second and a memory of two, each expires before, at and after the other
events. In `Belongings` two slots are one to take and one to be full; the third slot of
a house is there only to show that nothing ever reaches it; each of the dowries brings
together what meets rarely (a 🦞 and two ⚡, a 🏴‍☠️ and a ☢️, a 💦 and a full house, a boy
and a girl about to be of age, a save with more to wear than there is room for). In
`Relay` a cap of two is reached and passed by three replies; two processes are a crash
and what the next one finds; each scenario lets one part of the process be busy, since
their product is out of reach. In `Identity` four accounts are two players who link, and
a third and a fourth to be in the way. `MaxRaids`, `MaxServed`, `MaxSaid`, `MaxActs`, the
scenarios' bounds and the like bound how often the environment acts, in guards; nothing
in the code corresponds to them. Deadlock is not checked: at its bounds every instance
may stop.

Fairness. `Journeys!FairSpec` asks that the keeper keeps going (`raids_run` is a loop
that swallows exceptions) and that the clock goes on; no player has to do anything.
`Storage!FairSpec` asks that the thread with the mutex runs and that the bot is
restarted; not that a waiting thread ever gets the mutex, which `std::mutex` does not
promise. `IrcSession!FairSpec` asks that `pump` reads and ticks and that the clock goes
on; the server owes no answer, so commands are settled even if it never replies.
`Relay!FairSpec` asks that the main thread, the IRC thread and the keeper go on while
there is a process and that a process all of whose threads are joined ends; nobody has to
write, to stop it or to start it again, and calls may fail within the bound. Calls to
Telegram, reads from IRC and attempts to connect have timeouts; writes to IRC have none
(`irc.cpp:163-166`, `237-251`), so nothing is asked of a thread in the middle of one
(`"stuck"`): `StopEndsEverything` says that a process told to stop ends or is held there.

## Findings

Each one is a violation run: the property is what a comment or a log line of the
repository says, and TLC shows the code doing otherwise.

* **A second turn shortens the way home** (`JourneysTurn`; `game.cpp:1797-1806`). The
  leg is recomputed as `back - arrive` after an earlier turn moved `back`. Out at 0 to
  arrive at 2; turned at 1, home at 2; named again at 1, the leg now seems to be 0, and
  the road walked `1 - (2 - 0)`, so he is home at once.
* **An ended ride may go unsettled** (`JourneysReset`; `game.cpp:1377-1378`, `2424`). A
  ☢️ ends the ride of whoever it hits; if the keeper's loop has passed that ride
  already, the `erase_if` at the end removes it without a homecoming. No palle are lost
  (the ☢️ had cleared them); the return is not announced and the sentinel not told.
* **Two resets in a second keep one backup** (`StorageCopy`; `game.cpp:1429`, `1455`,
  `2189`, `2456`; `storage.cpp:455`).
* **A WHOIS reply in time is ignored** (`IrcSessionLate`; `irc_session.hpp:40`,
  `irc_session.cpp:194`, `206-214`). Two commands share a WHOIS; the older one times
  out and takes the WHOIS with it; the reply that comes then finds nobody, and the
  younger command is dropped unanswered when its own time is up.
* **An `/unblock` on the way out is lost** (`RelayLetIn`; `raids.cpp:111`, `196`;
  `telegram.cpp:174-181`; `sentinel.cpp:570`). The keeper saves the sentinel for the last
  time within a second of the stop signal, while the main thread may still be in its long
  poll and executes what that call hands over. Whom an owner lets in then is blocked
  again by the next process.

Met while modelling, with no run of their own because the repository says nothing
definite against them, or only a comment that is nearly right:

* `telegram.hpp:13` says updates received while offline are skipped. When the first
  `getUpdates` fails, or more than one batch is waiting, they are executed after all:
  `OldUpdatesAreLeftAlone` excepts both (`full`).
* A start that fails at `main.cpp:61` or `76` returns from `run` with the keeper running
  and the stop flag clear, so it waits for a signal; `StopEndsEverything` says that the
  signal does end it.
* After a link, the key merged away may be written to again by a command that looked it
  up before (`commands.cpp:1961`), and an invite may pay it (`strayed`); a newcomer's own
  invite is dropped with the merge.
* The clock is read before the mutex (`game.cpp:597-604`, `storage.hpp:217`), so two calls
  may act by times in the opposite order; `NoSecondPaidTwice` bounds what that pays twice.
* `raids.cpp:45` says that the news' file is gone once it has been said. It is gone once
  that has been tried: `telegram_say` does not report a failure (`telegram.cpp:151-158`),
  `irc_say` only queues, and the next link starts with an empty queue (`irc.cpp:393`);
  without a group and without IRC nothing is said at all. `NewsGoesOnceTried` is what
  holds.
* On a KICK, `irc_session.cpp:161-163` forgets the kicker; the kicked nick stays remembered,
  and if he comes back before that expires he is answered without being looked up again.
* With a server that reads no more, `run` may wait for the IRC thread for ever
  (`irc.cpp:237-251`), as said under fairness.
* `game.cpp:2403` hangs in the house what has no slot on its owner. `RoomToComeHome` shows
  that this does not happen, but for a save from before the gear that is sorted out while
  its owner is on the road with an emoji, which `Belongings!Init` leaves out.
* `Sentinel::save` (`sentinel.cpp:783`) looks whether the file opens and
  is replaced, not whether it was written whole.

## What is proved

`JourneysProofs` proves, from `ConstantsOK` alone, hence for any number of players and
rides and any rules:

* `Typed`: `TypeOK` is inductive. It carries the numeric facts (no negative palle, a 🎈
  below its last attempt) that the other proofs use. `HandlerType` and `VisitType` do one
  case per action.
* `HolderStays`: `HolderIsNotAway` is inductive with types. A claim requires no ride, a
  departure no hold, and nothing else adds to either side.
* `PaidOnce`: `NoSecondPaidTwice` needs the invariant `Accounts`: no hold began after what
  the clock shows, though it may have after what a late call has read; what was paid stays
  within the beginning of the hold and what calls waited, this one's wait not yet used up.
* `HomeOnTime`: an action property. `TurnedHomeBack` is its heart: however wrong the leg
  is (see the first finding), the time left never exceeds the one there was.
* `WornWhereItGuards`: an action property, one case per action that wears a 🎈.
* `NewcomersSpared`: needs `SparedInv`, that whoever is ridden to is somebody the bot
  knows; otherwise somebody could become a newcomer with a blow on its way to him.
* `GiveOrRob`: inductive with types; the loot is set on arrival only, for rides with
  nothing to give, and nothing is loaded on a ride after it sets off.
* `NoPalleMadeOrLost`: `PalleAccounted`, for any players. `PalleInv` adds that a
  ride which gives has no loot yet (`NobodyBothGivesAndRobs`), that no two rides share a
  place in the list (`Orders`) and that the walk only erases rides whose palle are home
  (`RoundGoesOn`). A step moves some of one purse or ride to another (`Counting`).

`StorageProofs` proves, from `StorageOK` (which says that the markers for a missing, a
half-written and an old file are not documents), for any threads, players and quotes and
any number of failures and crashes:

* `Typed`: neither file is ever half written. Types alone are not inductive: a rename
  puts in place what is in the `.tmp`, so one must know that it is what this thread wrote.
  `Inv` adds mutual exclusion (`Exclusive`), that nobody is served by a process that is
  not up (`Running`), what the callers know (`Answered`) and, for the thread that saves,
  that what it loaded is still on disk but for the quotes it has saved (`Saved`).
* `Implements`: every step is one of `AtomicStore`'s or changes nothing the callers see.
  While a thread is served, `Committed` is what it found (`CommittedBefore`); only a
  transaction's last rename changes it, to one of the request's `Outcomes`; a crash or a
  failed undo between the renames is `Torn`.
* `TheDocumentsAgree`: the two documents agree in `Committed` unless they are torn
  (`CommittedAgrees`). `Whole` says that a step leaves `Committed` alone or makes it one of
  a request's outcomes; `OutcomesAgree`, that each of these adds or takes a quote and its
  signature together (`OneMore`, `OneLess`). Quotes signed by one player are counted, so
  the invariant also says that they are finitely many.
* `CopiedBeforeReset`: `NothingResetWithoutACopy` from `Copied`, which follows the copy
  through the steps: whoever is about to copy found a ☢️, hence a file; from then until
  the state is renamed, the copy under his second is the state on disk.

`BelongingsProofs` proves, from `ConstantsOK` and `DowriesOK` (what an old game saved has
its children in their slots and nothing past the limit), for any players, emoji, dowries,
limits and bounds:

* `ChildrenKeepTheirSlots`: a set of children and a table of slots that agree. Most steps
  are `Sound`: they hang an emoji where there is no child, or take one away, and
  `SoundStep` says that the two still agree. `BirthInv`, `GrowInv`, `FurnitureMoveInv`,
  `BurnChildInv`, `StartOverInv` and `SortOutInv` are the ones that touch both.
* `RoomIsKept`: whoever sets off with an emoji frees the slot it was in, or had one free
  (`HandsFor`); while he is away nothing is put on him, for who is away receives in his
  house (`Deliver`), and a 🏴‍☠️ boards only for a rider with nothing to give (`Rob`).
* `LimitHolds`: `WithinTheLimit` is not inductive alone: `ComeHome` hangs with no limit.
  `RoomToComeHome` says that it never needs to.

`Inv` adds to the three that whoever rides is welcomed (he is not about to be given a 🎈)
and that nobody rides in a game whose belongings are still to be sorted out.

`EmojiProofs` goes on from that invariant:

* `HoldIsWhatHeShows`: a hold counts the ⚡ its holder shows, none if they are worth nothing. `Holding` adds that its
  holder is welcomed and not on the road: so nobody else's ride, present or 🎈 touches what
  he has on him (`GoesOn`). What does is his own errand, which ends the hold
  (`ErrandHold`), and what burns or goes off, which only takes away (`Less`, `FewerShown`):
  then `LoseBoltsHold` says that the integer division of `lose_bolts` gives back exactly
  what one ⚡ adds.
* `TheBalloonsStay` and `NoneIsDoubledOrLost` count: `Hung` is how many of a kind some
  players have in their houses and on them. One slot that changes, changes it by one
  (`OneSlot`); a helper is one or two such changes (`TakenHung`, `PutOnHung`,
  `BoardedHung`, `SwappedHung`...), a handler one helper or two. Two steps change many slots
  at once: a child's slot never shows an emoji (`GrowHung`), and `SortedHung` pairs each
  slot the sorting out empties with the one it fills. With one player that is his 🎈; with
  all of them, and what the rides carry, the emoji of the game.
* Neither is inductive alone. A ☢️ on the place leaves the 🎈 only to whom it is given, so
  `Newcomers` says that whoever is not welcomed has no emoji; hence nobody may be on the
  road to him, and nothing may leave the list with a rider who is home (`OnTheWay`).
* `BelongingsKeepTheirTypes`: a girl's chances are counted over children, of which there
  are finitely many (`ChildIsFinite`), and an empty place holds no ⚡ (`Rest`).

The types and `NoneIsDoubledOrLost` need `PlayersOK`: finitely many players, who are
those of one saved document.

`RelayProofs` proves, for any configuration, numbers of updates, faults and restarts
(`Scenarios` may hold any: its assumption only gives the bounds their types), eight of
the properties of the `Relay` run. Their invariant has a part per hand-over:

* `OldUpdatesLeftAlone` needs `PollsOn`: a batch is what comes after the last update
  Telegram takes for done (`Done`), and a process that polls has left behind all that was
  there before it and all that was executed.
* `LatestWait`, `NothingOld` and `HeardInOrder` need `Waits` and `GoesInOrder`: what waits
  is of the link there is, and along the channel, the outbox and the queue the numbers
  only grow. The order is stated of pairs of queues (`Ahead`), so that moving a message
  from one to the next, dropping the oldest, or losing a link each disturb one of them.
* `GroupAfterChannel` needs `Vouched`: an answer for the group is in the outbox or has
  left it; so a lost link, which empties the outbox, must empty the answers too.
* `TheSentinelRemembers` needs that the file agrees with what the owners were told
  outside of the steps between telling them and saving (`Remembered`).
* `NewsIsTried` needs that whoever removes the file has been through the list
  (`RoundGoesOn`).

`IdentityProofs` proves, for any players, names and bounds, and any saves whose `filed`
names are finitely many:

* `WhoIsWho`: `TablesAgree` is inductive only with the accounts' roots (`Rooted`: an
  account's own key is played only once that account plays), the second copies of the
  same facts (`IdsAgree`: `telegram_ids` and the irc nicks seen), and that names not yet
  played are as the save has them (`AsSaved`). `LinkDoes` reduces a link to one relation,
  `Joins`, of the four accounts and keys in it.
* `PalleStayTheirs`: `due` follows `palle` but for who was merged while a command went by
  his old key. `Tasks` says that these are the only two ways for a command's key and its
  account to disagree, and `StrayedAre` that such a player has both his accounts, so he
  is never merged again, and that the key given up is never played again. The total is
  counted without induction (`Counting`, which `JourneysProofs` shares): palle are a set
  of coins, a reward adds coins that were not there, and a merge maps one set of coins
  onto the other one to one.

`IrcSessionProofs` proves the safety of `IrcSession` from `IrcSessionOK`:

* `AskedAreAwaited` and `CommandsKeepTheirOrder` are inductive together: a nick that is
  asked about waits, who waits is not known, and both survive a clock that only makes
  nicks less known. `KeptIs` says what erasing from the middle of a queue leaves.
* `OnlyTheVouchedForAreAnswered`, in the sense above, needs `VouchedFor` (memory never outlives the word it
  rests on) and `Backed`: a nick is marked vouched for in the middle of a WHOIS only while
  its end comes next in the stream and says the same. A drop empties both.
* `NobodyIsToldTooOften` needs `ToldIsRemembered`: whoever was told lately is remembered
  until he may be told again. Release is then the only one who tells: `ToldAsItBegan` says
  that a nick known not to be registered was told when that began, and so
  `TheRefusedHearNothingMore`: the branch of `handle` that would tell him (lines 187 to
  190 of `irc_session.cpp`) is never taken while a WHOIS is only sent for who waits.

Every invariant and every action property of the passing runs is a theorem. Only
model-checked: the liveness properties (`EveryRideEnds`, `MutexIsReleased`,
`EveryCommandIsSettled`, `EveryUpdateIsSettled`, `StopEndsEverything`), which rest on
fairness; and the findings, which are counterexamples.

## The plan

Done: `Journeys`, `Documents`, `AtomicStore`, `Storage`, `IrcSession`, `Belongings`,
`Relay` and `Identity`, each with its proofs.

What is left, the most useful first:

1. `HoldWorth`: ⚡ taken, lost and banked in time; that a hold is worth the sum of its
   stretches at the percent each had. Proof: no stretch counts twice.
2. What the sentinel hears and counts, and when that makes it sure.
3. `IrcSession`: getting into the channel, and the account name of a 330.

## Not modelled

Parsing of commands and the texts of replies (`commands.cpp`, `text.cpp`), the HTTP
routes (transactions that change nothing), configuration, logging, the pulse (written
and never read), distances and the zodiac (pure functions whose every result the
models allow), sockets and TLS. None of them decides anything the properties speak of.

Within the modelled parts: `/unblock` said on IRC (`irc.cpp:364`; the same call of the
sentinel as from Telegram), saves older than `quotes_added` (`storage.hpp:134`), in which
it may count quotes nobody signed (`Storage` begins in agreement), prices and the palle thrown in the fire, the 🦖's eggs (palle
from nowhere into one score), the house of the day (a factor on a hold), the golden hour
(two more announcements), `guide_due` (it only adds a text), the sentinel's statistics
(a choice in `Relay`), the seconds of the backoff between links (any number of attempts).
