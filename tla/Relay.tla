-------------------------------- MODULE Relay --------------------------------
(***************************************************************************)
(* The process around the game: the three threads that talk to the chats,   *)
(* and what each tells the others to repeat.  From src/src/main.cpp (run),  *)
(* telegram.cpp (the poller, which runs in the main thread), irc.cpp (the   *)
(* connection) and raids.cpp (the keeper's round).                          *)
(*                                                                         *)
(* Whatever is executed is a transaction of the storage and an action here; *)
(* every call to Telegram, every hand-over under waiting_mutex and every    *)
(* line written is another, since the process may die, be told to stop or   *)
(* lose a link between any two of them.  A reply or an event is a number.   *)
(* "Told" is what the code can know: a call made, a line written.           *)
(*                                                                         *)
(* Of sentinel.cpp it has what outlives the process: the day it reported,   *)
(* and whether the one player it is sure of is blocked.  Its days begin at  *)
(* sentinel_hour, so that a block lasts one of them.                        *)
(***************************************************************************)
EXTENDS Integers, Sequences

CONSTANTS
  Scenarios, \* how a process is set up, and how much of everything may happen to it
  Batch,     \* updates Telegram hands over in one call
  Cap        \* max_waiting_replies

VARIABLES
  up,        \* the process runs
  conf,      \* AppConfig, as far as it decides which threads there are
  bound,     \* bounds: updates, commands, events, links, faults, starts
  stop,      \* stop_requested
  main,      \* what the main thread is doing
  offset,    \* telegram_run's offset, -1 when it has none
  batch,     \* the updates it was handed and has not processed
  ircs,      \* what the IRC thread is doing
  joined,    \* Session::joined_
  outbox,    \* Connection::outbox_
  answers,   \* answers_for_telegram
  waiting,   \* waiting_replies
  keeper,    \* what the keeper is doing
  todo,      \* what it has left to announce in this round
  rounds,    \* its rounds: none, one, more
  news,      \* the news file: is it there
  watch,     \* the sentinel: the day of its last report, is its script blocked
  file,      \* what its file says of it
  day,       \* the sentinel's day
  sent,      \* Telegram: updates so far, numbered from 1
  confirmed, \* Telegram: the last one it will not hand over again
  ran,       \* history: updates executed, in order
  before,    \* history: updates already sent when this process began to poll
  full,      \* history: the backlog call of this process failed, or left some out
  links,     \* history: connections made
  said,      \* history: things said for the channel to hear, so far
  answered,  \* history: commands answered in the channel, so far
  channel,   \* history: what was written to the channel
  heard,     \* history: answers to IRC commands the group was told
  newsTold,  \* history: this process has told the group the news, or tried and could not
  settled,   \* history: events settled
  owed,      \* history: day and block as the owners know of them
  spoilt,    \* history: a report was cut short or not saved
  faults,    \* history, for the bound
  starts     \* history, for the bound

process == <<up, conf, bound, stop, starts>>
poller == <<main, offset, batch, before, full>>
telegram == <<sent, confirmed>>
connection == <<ircs, joined, outbox, answers, links>>
keeping == <<keeper, todo, rounds, news, newsTold, settled>>
sentinel == <<watch, file, day, owed, spoilt>>
chats == <<waiting, ran, said, answered, channel, heard>>
vars == <<process, poller, telegram, connection, keeping, sentinel, chats, faults>>

Config == [token : BOOLEAN, enabled : BOOLEAN, irc : {"on", "missing", "off"}]
Bound == [updates : Nat, said : Nat, events : Nat, links : Nat, faults : Nat, starts : Nat,
          days : Nat]

ASSUME ConstantsOK ==
  /\ \A s \in Scenarios : s.conf \in Config /\ s.bound \in Bound /\ s.news \in BOOLEAN
  /\ Batch \in Nat \ {0} /\ Cap \in Nat \ {0}

Nothing == [day |-> 0, blocked |-> FALSE]

Message == [kind : {"said", "answer"}, n : Nat, link : Nat]

\* Something goes wrong in the world.
Fault == faults < bound.faults /\ faults' = faults + 1

\* telegram_api: a call that may fail, and telegram_say ignores what came of it.
MayFail == UNCHANGED faults \/ Fault

-----------------------------------------------------------------------------
(* What the threads share: the replies waiting for the channel. *)

\* Mutant: when there is no room it is the last one that is lost.
PushedIfRoom(q, m) == IF Len(q) >= Cap THEN q ELSE Append(q, m)

\* A channel that is away keeps the last ones.
Pushed(q, m) == Append(IF Len(q) >= Cap THEN Tail(q) ELSE q, m)

\* irc_say, where the IRC client is enabled.
IrcSay ==
  IF conf.irc = "off" THEN UNCHANGED <<waiting, said>>
  ELSE /\ said' = said + 1
       /\ waiting' = Pushed(waiting, [kind |-> "said", n |-> said + 1, link |-> links])

-----------------------------------------------------------------------------
(* The main thread: telegram_run, or nothing but waiting. *)

\* Where run() gets to with a configuration: "joining" is the end of the scope of
\* the threads, whose destructors wait for them.
FirstStep(c) ==
  IF c.irc = "missing" THEN "joining"
  ELSE IF ~c.enabled THEN "idle"
  ELSE IF ~c.token THEN "joining"
  ELSE "backlog"

Polling == main \in {"poll", "tell", "repeat"}

\* The updates a call hands over, past those it confirms.
HandedOver(done) ==
  [i \in 1 .. (IF sent - done > Batch THEN Batch ELSE sent - done) |-> done + i]

\* Mutant: the update is not past.
AdvanceOffsetShort(update) == update

\* Mutant: the one after it is past too.
AdvanceOffsetPast(update) == update + 2

\* advance_offset.
AdvanceOffset(update) == update + 1

\* The first call, without an offset: what came while the bot was off is skipped.
Backlog ==
  /\ main = "backlog"
  /\ main' = "poll"
  /\ LET old == HandedOver(confirmed) IN
     \/ /\ offset' = IF old = <<>> THEN offset ELSE AdvanceOffset(old[Len(old)])
        /\ full' = (Len(old) < sent - confirmed)
        /\ UNCHANGED faults
     \/ Fault /\ full' = TRUE /\ UNCHANGED offset
  /\ before' = sent
  /\ UNCHANGED <<process, telegram, connection, keeping, batch, sentinel, chats>>

\* getUpdates in the loop.  A call that fails may have confirmed all the same.
Poll ==
  LET done == IF offset - 1 > confirmed THEN offset - 1 ELSE confirmed IN
  /\ main = "poll" /\ batch = <<>> /\ ~stop
  /\ confirmed' = done
  /\ \/ batch' = HandedOver(done) /\ UNCHANGED faults
     \/ Fault /\ UNCHANGED batch
  /\ UNCHANGED <<process, connection, keeping, main, offset, before, full, sent, sentinel,
                 chats>>

\* /unblock, from an owner.
LetIn ==
  /\ watch.blocked
  /\ watch' = [watch EXCEPT !.blocked = FALSE]
  /\ owed' = [owed EXCEPT !.blocked = FALSE]
  /\ UNCHANGED <<file, day, spoilt>>

\* The next update of the batch: the offset moves on, then the command is executed.
\* It may have nothing to answer; what it answers may be for the group or not.
Execute ==
  /\ main = "poll" /\ batch # <<>>
  /\ offset' = AdvanceOffset(Head(batch))
  /\ batch' = Tail(batch)
  /\ ran' = Append(ran, Head(batch))
  /\ main' \in {"poll", "tell"}
  /\ UNCHANGED sentinel \/ LetIn
  /\ UNCHANGED <<process, telegram, connection, keeping, before, full, waiting, said,
                 answered, channel, heard, faults>>

\* process_message: the reply to the chat it came from...
TellChat ==
  /\ main = "tell"
  /\ MayFail
  /\ main' \in {"poll", "repeat"}
  /\ UNCHANGED <<process, telegram, connection, keeping, offset, batch, before, full,
                 sentinel, chats>>

\* ...and, said in the group, once more for the channel.
Repeat ==
  /\ main = "repeat"
  /\ IrcSay
  /\ main' = "poll"
  /\ UNCHANGED <<process, telegram, connection, keeping, offset, batch, before, full, ran,
                 answered, channel, heard, faults, sentinel>>

\* The loop is over, whatever it last fetched unconfirmed; or an exception leaves it.
StopsPolling ==
  /\ \/ main = "poll" /\ batch = <<>> /\ stop /\ UNCHANGED faults
     \/ main = "idle" /\ stop /\ UNCHANGED faults
     \/ main = "poll" /\ batch # <<>> /\ Fault
  /\ main' = "joining"
  /\ UNCHANGED <<process, telegram, connection, keeping, offset, batch, before, full,
                 sentinel, chats>>

MainStep == Backlog \/ Poll \/ Execute \/ TellChat \/ Repeat \/ StopsPolling

-----------------------------------------------------------------------------
(* The IRC thread: irc_run. *)

\* Mutant: what waited for the last link is there for the next.
Kept(queue) == queue

\* A new link starts clean.
StartsClean(queue) == <<>>

\* Mutant: the answers that waited for the last link are there for the next.
StillOwed(queue) == queue

\* answers_for_telegram().clear().
Cleared(queue) == <<>>

\* connect_to, start_tls and a new Connection: NICK and USER are not counted.
Connect ==
  /\ ircs = "connect" /\ ~stop
  /\ links < bound.links
  /\ links' = links + 1
  /\ ircs' = "read"
  /\ joined' = FALSE
  /\ outbox' = <<>>
  /\ waiting' = StartsClean(waiting)
  /\ answers' = Cleared(answers)
  /\ UNCHANGED <<process, poller, telegram, keeping, ran, said, answered, channel, heard,
                 faults, sentinel>>

\* pump's read fails, or the server closes.
LinkBreaks ==
  /\ ircs = "read"
  /\ Fault
  /\ ircs' = "connect"
  /\ UNCHANGED <<process, poller, telegram, keeping, joined, outbox, answers, links,
                 sentinel, chats>>

\* Session::handle, as far as being in the channel goes.
JoinOrKick ==
  /\ ircs = "read"
  /\ \/ ~joined /\ joined' = TRUE /\ UNCHANGED faults
     \/ joined /\ joined' = FALSE /\ Fault
  /\ UNCHANGED <<process, poller, telegram, keeping, ircs, outbox, answers, links, sentinel,
                 chats>>

\* A command whose sender is vouched for: executed, its answer queued for the channel
\* and put aside for the group.
Answer ==
  /\ ircs = "read" /\ joined
  /\ answered < bound.said
  /\ answered' = answered + 1
  /\ LET m == [kind |-> "answer", n |-> answered + 1, link |-> links] IN
     /\ outbox' = Append(outbox, m)
     /\ answers' = IF conf.token THEN Append(answers, m) ELSE answers
  /\ UNCHANGED <<process, poller, telegram, keeping, ircs, joined, links, waiting, ran,
                 said, channel, heard, faults, sentinel>>

\* Mutant: what is taken stays.
LeftThere(queue) == queue

\* take_waiting_replies leaves nothing.
LeftAfterTaking(queue) == <<>>

\* The rest of pump: in the channel, it takes what the others left.
Take ==
  /\ ircs = "read"
  /\ ircs' = "flush"
  /\ IF joined THEN outbox' = outbox \o waiting /\ waiting' = LeftAfterTaking(waiting)
               ELSE UNCHANGED <<outbox, waiting>>
  /\ UNCHANGED <<process, poller, telegram, keeping, joined, answers, links, ran, said,
                 answered, channel, heard, faults, sentinel>>

\* flush, line by line: one that is not written is lost with the link, and with it
\* whatever is behind.
Flush ==
  /\ ircs = "flush" /\ outbox # <<>>
  /\ outbox' = Tail(outbox)
  /\ \/ channel' = Append(channel, Head(outbox)) /\ UNCHANGED <<ircs, faults>>
     \/ Fault /\ ircs' = "connect" /\ UNCHANGED channel
  /\ UNCHANGED <<process, poller, telegram, keeping, joined, answers, links, waiting, ran,
                 said, answered, heard, sentinel>>

\* send_answers_to_telegram, once everything has left for the channel.
TellGroup ==
  /\ ircs = "flush" /\ outbox = <<>> /\ answers # <<>>
  /\ MayFail
  /\ heard' = heard \cup {Head(answers).n}
  /\ answers' = Tail(answers)
  /\ UNCHANGED <<process, poller, telegram, keeping, ircs, joined, outbox, links, waiting,
                 ran, said, answered, channel, sentinel>>

\* Mutant: the loop around pump minds the link only.
AfterPumpAnyway == "read"

\* Back to the loop's condition; at the end a QUIT is written.
AfterPump == IF stop THEN "quit" ELSE "read"

PumpAgain ==
  /\ ircs = "flush" /\ outbox = <<>> /\ answers = <<>>
  /\ ircs' = AfterPump
  /\ UNCHANGED <<process, poller, telegram, keeping, joined, outbox, answers, links, faults,
                 sentinel, chats>>

\* Whatever becomes of it.
Quit ==
  /\ ircs = "quit"
  /\ ircs' = "ended"
  /\ UNCHANGED <<process, poller, telegram, keeping, joined, outbox, answers, links, faults,
                 sentinel, chats>>

\* send_line: only reads have a timeout.  A write to a server that reads no more waits
\* for it, whatever the flag says, be it a reply, a line that is not counted or QUIT...
Stall ==
  /\ \/ ircs = "flush" /\ (outbox # <<>> \/ answers = <<>>)
     \/ ircs = "quit"
  /\ Fault
  /\ ircs' = "stuck"
  /\ UNCHANGED <<process, poller, telegram, keeping, joined, outbox, answers, links, sentinel,
                 chats>>

\* ...until it reads again, or the link is cut.
Unstall ==
  /\ ircs = "stuck"
  /\ ircs' \in {IF outbox = <<>> THEN AfterPump ELSE "flush", "connect"}
  /\ UNCHANGED <<process, poller, telegram, keeping, joined, outbox, answers, links, faults,
                 sentinel, chats>>

\* Away, the thread minds the flag between attempts and every second of the backoff.
StopsConnecting ==
  /\ ircs = "connect" /\ stop
  /\ ircs' = "ended"
  /\ UNCHANGED <<process, poller, telegram, keeping, joined, outbox, answers, links, faults,
                 sentinel, chats>>

IrcStep == Connect \/ JoinOrKick \/ Answer \/ Take \/ Flush \/ TellGroup \/ PumpAgain
           \/ Quit \/ StopsConnecting \/ LinkBreaks

-----------------------------------------------------------------------------
(* The keeper: raids_run. *)

\* Mutant: the file goes first.
AfterReadGone(step) ==
  CASE step = "read" -> "remove" [] step = "remove" -> "tell"
    [] step = "tell" -> "repeat" [] step = "repeat" -> "settle"

\* announce_news: read, told to the group, repeated to the channel, removed.
NewsAfter(step) ==
  CASE step = "read" -> "tell" [] step = "tell" -> "repeat"
    [] step = "repeat" -> "remove" [] step = "remove" -> "settle"

\* A round begins: the news waits for the second one.
RoundBegins ==
  /\ keeper = "rest" /\ ~stop
  /\ rounds' = IF rounds < 2 THEN rounds + 1 ELSE 2
  /\ IF rounds = 1 /\ news THEN keeper' = NewsAfter("read") /\ todo' = <<"news">>
                            ELSE keeper' = "settle" /\ UNCHANGED todo
  /\ UNCHANGED <<process, poller, telegram, connection, news, newsTold, settled, faults,
                 sentinel, chats>>

\* raid_due, committed whole; then each event is announced.
Settle ==
  /\ keeper = "settle"
  /\ \E k \in 0 .. bound.events - settled :
       /\ settled' = settled + k
       /\ todo' = [i \in 1 .. k |-> "event"]
       /\ keeper' = IF k = 0 THEN "watch" ELSE "tell"
  /\ UNCHANGED <<process, poller, telegram, connection, rounds, news, newsTold, faults,
                 sentinel, chats>>

\* announce, for the group: without a group or after a call that failed it goes on as if
\* it had told it...
Announce ==
  /\ keeper = "tell"
  /\ \E outcome \in {"told", "failed"} :
       /\ outcome = "told" => conf.token
       /\ IF outcome = "failed" /\ conf.token THEN Fault ELSE UNCHANGED faults
       /\ newsTold' = IF Head(todo) = "news" THEN outcome ELSE newsTold
  /\ keeper' = IF Head(todo) = "news" THEN NewsAfter("tell") ELSE "repeat"
  /\ UNCHANGED <<process, poller, telegram, connection, todo, rounds, news, settled,
                 sentinel, chats>>

\* ...and for the channel, which hears it if the link holds.
AnnounceToIrc ==
  /\ keeper = "repeat"
  /\ IrcSay
  /\ todo' = Tail(todo)
  /\ keeper' = IF Head(todo) = "news" THEN NewsAfter("repeat")
               ELSE IF Tail(todo) = <<>> THEN "watch" ELSE "tell"
  /\ UNCHANGED <<process, poller, telegram, connection, rounds, news, newsTold, settled, ran,
                 answered, channel, heard, faults, sentinel>>

\* The file is removed, or cannot be.
RemoveNews ==
  /\ keeper = "remove"
  /\ keeper' = NewsAfter("remove")
  /\ \/ news' = FALSE /\ UNCHANGED faults
     \/ Fault /\ UNCHANGED news
  /\ UNCHANGED <<process, poller, telegram, connection, todo, rounds, newsTold, settled,
                 sentinel, chats>>

\* Mutant: it is saved with everything else, now and then.
SavedLater == "rest"

\* Once the owners have been told, what was decided is saved.
AfterTelling == "save"

\* sentinel_round: at its hour, once a day, whom it is sure of is blocked and the owners
\* are told.  It may fail before that, but after the day is taken as done; or it is not
\* the hour, and what it has is saved now and then.
Watch ==
  /\ keeper = "watch"
  /\ \/ /\ conf.token /\ watch.day # day
        /\ \E sure \in BOOLEAN : watch' = [day |-> day, blocked |-> watch.blocked \/ sure]
        /\ owed' = watch'
        /\ keeper' = "owners"
        /\ UNCHANGED <<spoilt, faults>>
     \/ /\ conf.token /\ watch.day # day
        /\ watch' = [watch EXCEPT !.day = day]
        /\ keeper' = "rest"
        /\ spoilt' = TRUE /\ UNCHANGED owed
        /\ Fault
     \/ /\ \/ keeper' = "rest"
           \/ keeper' = "save" /\ watch # file
        /\ UNCHANGED <<watch, owed, spoilt, faults>>
  /\ UNCHANGED <<process, poller, telegram, connection, todo, rounds, news, newsTold,
                 settled, file, day, chats>>

TellOwners ==
  /\ keeper = "owners"
  /\ MayFail
  /\ keeper' = AfterTelling
  /\ UNCHANGED <<process, poller, telegram, connection, todo, rounds, news, newsTold,
                 settled, sentinel, chats>>

\* Sentinel::save checks neither what it writes nor the rename: the file may stay as it
\* was, or be one that load cannot read.
SaveWatch ==
  /\ keeper \in {"save", "last save"}
  /\ \/ file' = watch /\ UNCHANGED <<spoilt, faults>>
     \/ file' \in {file, Nothing} /\ spoilt' = TRUE /\ Fault
  /\ keeper' = IF keeper = "save" THEN "rest" ELSE "ended"
  /\ UNCHANGED <<process, poller, telegram, connection, todo, rounds, news, newsTold,
                 settled, watch, day, owed, chats>>

\* The flag is seen between rounds only: a round that has begun tells everything.  Then
\* the sentinel is saved for the last time, whatever the other threads still execute.
StopsKeeping ==
  /\ keeper = "rest" /\ stop
  /\ keeper' = "last save"
  /\ UNCHANGED <<process, poller, telegram, connection, todo, rounds, news, newsTold,
                 settled, faults, sentinel, chats>>

KeeperStep == RoundBegins \/ Settle \/ Announce \/ AnnounceToIrc \/ RemoveNews
              \/ Watch \/ TellOwners \/ SaveWatch \/ StopsKeeping

-----------------------------------------------------------------------------
(* The process. *)

\* What a process begins with.
Fresh ==
  /\ stop' = FALSE
  /\ main' = FirstStep(conf)
  /\ offset' = -1 /\ batch' = <<>>
  /\ before' = 0 /\ full' = FALSE
  /\ ircs' = IF conf.irc = "on" THEN "connect" ELSE "ended"
  /\ joined' = FALSE /\ outbox' = <<>> /\ answers' = <<>> /\ waiting' = <<>>
  /\ keeper' = "rest" /\ todo' = <<>> /\ rounds' = 0 /\ newsTold' = "untold"

Start ==
  /\ ~up /\ starts < bound.starts
  /\ up' = TRUE
  /\ starts' = starts + 1
  /\ UNCHANGED <<conf, bound, stop, poller, telegram, connection, keeping, faults, sentinel,
                 chats>>

\* SIGINT or SIGTERM.
RequestStop ==
  /\ up /\ ~stop
  /\ stop' = TRUE
  /\ UNCHANGED <<up, conf, bound, starts, poller, telegram, connection, keeping, faults,
                 sentinel, chats>>

\* Every thread has been joined.
AllJoined == main = "joining" /\ ircs = "ended" /\ keeper = "ended"

\* Nothing in memory outlives the process; the next one is set up alike, and loads the
\* sentinel's file.
Ends ==
  /\ up
  /\ up' = FALSE
  /\ Fresh
  /\ watch' = file
  /\ spoilt' = (spoilt \/ keeper \in {"owners", "save"})
  /\ UNCHANGED <<file, day, owed>>
  /\ UNCHANGED <<conf, bound, starts, telegram, links, news, settled, ran, said, answered,
                 channel, heard>>

Exit == AllJoined /\ Ends /\ UNCHANGED faults
Crash == Fault /\ Ends

\* Somebody writes to the bot on Telegram.
Send ==
  /\ sent < bound.updates
  /\ sent' = sent + 1
  /\ UNCHANGED <<process, poller, confirmed, connection, keeping, faults, sentinel, chats>>

\* A day goes by, and with it the blocks.
DayPasses ==
  /\ day < bound.days
  /\ day' = day + 1
  /\ watch' = [watch EXCEPT !.blocked = FALSE]
  /\ file' = [file EXCEPT !.blocked = FALSE]
  /\ owed' = [owed EXCEPT !.blocked = FALSE]
  /\ UNCHANGED <<process, poller, telegram, connection, keeping, spoilt, chats, faults>>

Init ==
  /\ up = TRUE /\ stop = FALSE /\ starts = 1 /\ faults = 0
  /\ \E s \in Scenarios : conf = s.conf /\ bound = s.bound /\ news = s.news
  /\ main = FirstStep(conf)
  /\ offset = -1 /\ batch = <<>> /\ before = 0 /\ full = FALSE
  /\ ircs = IF conf.irc = "on" THEN "connect" ELSE "ended"
  /\ joined = FALSE /\ outbox = <<>> /\ answers = <<>> /\ waiting = <<>> /\ links = 0
  /\ keeper = "rest" /\ todo = <<>> /\ rounds = 0 /\ newsTold = "untold" /\ settled = 0
  /\ sent \in 0 .. bound.updates /\ confirmed = 0
  /\ watch = Nothing /\ file = Nothing /\ owed = Nothing /\ day = 0
  /\ spoilt = FALSE
  /\ ran = <<>> /\ said = 0 /\ answered = 0 /\ channel = <<>> /\ heard = {}

Main == up /\ MainStep
Irc == up /\ IrcStep
IrcServer == up /\ (Stall \/ Unstall)
Keeper == up /\ KeeperStep

Next == Main \/ Irc \/ IrcServer \/ Keeper \/ Start \/ RequestStop \/ Exit \/ Crash \/ Send
        \/ DayPasses

Spec == Init /\ [][Next]_vars

\* Every thread goes on while there is a process: calls to Telegram, reads and attempts
\* to connect have their timeouts.  Writes to IRC have none: nothing is asked of a server
\* that reads no more.
FairSpec == Spec /\ WF_vars(Main) /\ WF_vars(Irc) /\ WF_vars(Keeper) /\ WF_vars(Exit)

-----------------------------------------------------------------------------
(* Properties. *)

\* The variables keep their types.
TypeOK ==
  /\ {up, stop, joined, news, full, spoilt} \subseteq BOOLEAN
  /\ newsTold \in {"untold", "told", "failed"}
  /\ conf \in Config /\ bound \in Bound
  /\ main \in {"backlog", "poll", "tell", "repeat", "idle", "joining"}
  /\ offset \in Nat \cup {-1}
  /\ \A q \in {batch, ran} : q \in Seq(1 .. sent)
  /\ ircs \in {"connect", "read", "flush", "stuck", "quit", "ended"}
  /\ \A q \in {outbox, answers, waiting, channel} : q \in Seq(Message)
  /\ keeper \in {"rest", "settle", "tell", "repeat", "remove", "watch", "owners", "save",
                "last save", "ended"}
  /\ {watch, file, owed} \subseteq [day : 0 .. day, blocked : BOOLEAN]
  /\ todo \in Seq({"news", "event"})
  /\ rounds \in 0 .. 2
  /\ confirmed \in 0 .. sent /\ before \in 0 .. sent
  /\ {sent, links, said, answered, settled, faults, starts, day} \subseteq Nat
  /\ heard \subseteq Nat

\* What waits for the channel is the last of what was said, in order and with nothing
\* missing, and never more than max_waiting_replies ("must not pile up replies for ever").
WaitingIsTheLatest ==
  /\ Len(waiting) <= Cap
  /\ \A i \in DOMAIN waiting : waiting[i].n = said - Len(waiting) + i

\* "Ten minutes of old replies are of no use to anyone": whatever is on its way to
\* the channel was said since the link it goes by was made.
NothingOldIsTold ==
  ircs \in {"read", "flush", "stuck", "quit"} => \A i \in DOMAIN outbox : outbox[i].link = links

\* The channel hears what was said elsewhere in the order it was said, and what it
\* asked for in the order it asked; nothing twice.
ChannelHearsInOrder ==
  \A j \in DOMAIN channel : \A i \in 1 .. j - 1 :
    channel[i].kind = channel[j].kind => channel[i].n < channel[j].n

\* The group hears an answer only once it has left for the channel, whatever becomes
\* of the link ("once they have left for the channel").
GroupHearsAfterTheChannel ==
  \A n \in heard : \E i \in DOMAIN channel : channel[i].kind = "answer" /\ channel[i].n = n

\* No command is executed twice, and none from before the start is, unless the first
\* call failed or there was more than a batch of them.
OldUpdatesAreLeftAlone ==
  [][ran' # ran /\ ~full =>
       LET u == ran'[Len(ran')] IN
       u > before /\ \A i \in DOMAIN ran : ran[i] < u]_vars

\* The news may be told again after a crash, but its file never goes before the process
\* that removes it has told the group, or has tried: a call that fails, or a bot without a
\* group, loses it, for announce_news looks at neither.
NewsGoesOnceTried == [][news /\ ~news' => newsTold # "untold"]_vars

\* One report a day, and who it blocks is "kept out of the game for a day": no restart
\* and no crash makes the sentinel report again or forget whom it blocked, once the
\* round in which it did is over and saved.
SentinelRemembers ==
  ~spoilt /\ keeper \notin {"owners", "save"} =>
    watch.day = owed.day /\ (owed.blocked => watch.blocked)

\* "Until an owner lets them back in" (raids.cpp): as long as nothing fails, whom an
\* owner has let in is not found blocked again.
LetInForGood == faults = 0 => (watch.blocked => owed.blocked)

MostUpdates == CHOOSE n \in {s.bound.updates : s \in Scenarios} :
                 \A s \in Scenarios : s.bound.updates <= n

\* An update sent to a bot that polls is executed, unless the process ends first.
EveryUpdateIsSettled ==
  \A u \in 1 .. MostUpdates :
    (up /\ Polling /\ ~stop /\ sent >= u /\ u > before)
      ~> (\E i \in DOMAIN ran : ran[i] = u) \/ ~up \/ stop \/ ~Polling

\* Told to stop, the process ends, wherever its threads are: polling, away from IRC, in
\* the middle of a round, or held up by a start that failed.  Only an IRC server that
\* reads no more can hold it up, for as long as it does (send_line).
StopEndsEverything == (up /\ stop) ~> ~up \/ ircs = "stuck"

=============================================================================
