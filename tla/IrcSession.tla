----------------------------- MODULE IrcSession -----------------------------
(***************************************************************************)
(* Who may play from IRC: irc::Session (src/src/irc_session.cpp) asks the   *)
(* server about a nick it does not know, keeps the nick's commands waiting  *)
(* meanwhile, and remembers for a while what NickServ said of him.          *)
(*                                                                         *)
(* The server and the players are the environment: a WHOIS is answered late *)
(* or never, everything reaches the session in one stream, in order, and    *)
(* the link may drop.  A nick stands for its lower case; 307 and 330 are one *)
(* kind of line; a command is its number.  What only joins the channel is   *)
(* not modelled here.                                                      *)
(***************************************************************************)
EXTENDS Integers, Sequences, FiniteSets

CONSTANTS
  Nicks,
  RegistrationSeconds,  \* how long what NickServ said is remembered
  WhoisSeconds,         \* how long a command waits for it
  Never,
  MaxTime,              \* bound: the clock stops here
  MaxSaid,              \* bound: how many commands are said
  MaxLeft,              \* bound: how often somebody leaves or is kicked out
  MaxLost               \* bound: how often the link drops

VARIABLES
  now,            \* seconds_now(), as the last pump read it
  registrations,  \* registrations_: what is known of a nick, until when
  asked,          \* asked_: the nicks with a WHOIS in flight: vouched for yet?
  waiting,        \* waiting_: the commands of nicks not known yet
  lines,          \* what the last handler says in the channel
  stream,         \* the server's lines the session has not read
  whois,          \* the WHOIS the server has not answered
  said, left, lost,
  vouched,        \* history: when the session last read that NickServ vouches for him
  toldAt          \* history: when he was last told to register

session == <<registrations, asked, waiting>>
server == <<stream, whois>>
counts == <<said, left, lost>>
history == <<vouched, toldAt>>
vars == <<now, session, lines, server, counts, history>>

ASSUME IrcSessionOK ==
  /\ RegistrationSeconds \in Nat \ {0}
  /\ WhoisSeconds \in Nat \ {0}
  /\ Never \notin Int
  /\ MaxTime \in Nat /\ MaxSaid \in Nat /\ MaxLeft \in Nat /\ MaxLost \in Nat

Line == [is : {"command"}, of : Nicks, id : 1 .. MaxSaid]
        \cup [is : {"vouched", "unknown", "left"}, of : Nicks]
        \cup [is : {"kicked"}, of : Nicks, by : Nicks]
        \cup [is : {"end"}, of : Nicks, vouches : BOOLEAN]

\* The epoch is long past when the bot starts.
Start == RegistrationSeconds

With(f, n, value) == [m \in DOMAIN f \cup {n} |-> IF m = n THEN value ELSE f[m]]
Without(f, ns) == [m \in DOMAIN f \ ns |-> f[m]]

\* What is left of a sequence, in the same order, where only these places are kept.
Kept(s, places) ==
  [i \in 1 .. Cardinality(places) |->
     s[CHOOSE p \in places : Cardinality({q \in places : q <= p}) = i]]

\* Where n waits.
PlacesOf(n) == {i \in DOMAIN waiting : waiting[i].nick = n}

Awaited == {waiting[i].nick : i \in DOMAIN waiting}

-----------------------------------------------------------------------------
(* What the session says. *)

Answer(n, id) == [to |-> n, says |-> "answer", id |-> id]
Refusal(n) == [to |-> n, says |-> "register"]

\* Mutant: what was remembered is used until the next tick forgets it.
KnownUntilTick(n) == n \in DOMAIN registrations

Known(n) == n \in DOMAIN registrations /\ registrations[n].expires > now

\* Somebody not registered is told so once in a while.
Tells(entry) == entry.told + RegistrationSeconds <= now

-----------------------------------------------------------------------------
(* The lines the session reads: Session::handle. *)

Reading(kind, n) == stream # <<>> /\ Head(stream).is = kind /\ Head(stream).of = n

\* Read, and nothing to say.
Read == stream' = Tail(stream)

CommandAnswered(n) ==
  /\ Reading("command", n)
  /\ Known(n)
  /\ registrations[n].registered
  /\ Read
  /\ lines' = <<Answer(n, Head(stream).id)>>
  /\ UNCHANGED <<now, session, whois, counts, history>>

CommandRefused(n) ==
  LET entry == registrations[n] IN
  /\ Reading("command", n)
  /\ Known(n)
  /\ ~entry.registered
  /\ Read
  /\ IF Tells(entry)
     THEN /\ registrations' = [registrations EXCEPT ![n].told = now]
          /\ lines' = <<Refusal(n)>>
          /\ toldAt' = [toldAt EXCEPT ![n] = now]
     ELSE lines' = <<>> /\ UNCHANGED <<registrations, toldAt>>
  /\ UNCHANGED <<now, asked, waiting, whois, counts, vouched>>

\* Mutant: the wrong one of the two constants.
DeadlineOfMemory == now + RegistrationSeconds

Deadline == now + WhoisSeconds

\* One WHOIS is enough for all that wait.
CommandWaits(n) ==
  /\ Reading("command", n)
  /\ ~Known(n)
  /\ Read
  /\ waiting' = Append(waiting, [nick |-> n, id |-> Head(stream).id, deadline |-> Deadline])
  /\ IF n \in DOMAIN asked THEN UNCHANGED <<asked, whois>>
     ELSE asked' = With(asked, n, FALSE) /\ whois' = Append(whois, n)
  /\ lines' = <<>>
  /\ UNCHANGED <<now, registrations, counts, history>>

\* 307 and 330: of some use only while somebody waits to know.
Vouched(n) ==
  /\ Reading("vouched", n)
  /\ Read
  /\ asked' = IF n \in DOMAIN asked THEN [asked EXCEPT ![n] = TRUE] ELSE asked
  /\ lines' = <<>>
  /\ UNCHANGED <<now, registrations, waiting, whois, counts, history>>

Heard(n) == vouched' = IF Head(stream).vouches THEN [vouched EXCEPT ![n] = now] ELSE vouched

\* Mutant: only the first of them is released.
StillWaitingBehind(n) ==
  LET first == CHOOSE i \in DOMAIN waiting :
                 waiting[i].nick = n /\ \A j \in 1 .. i - 1 : waiting[j].nick # n
  IN  Kept(waiting, DOMAIN waiting \ {first})

StillWaiting(n) == Kept(waiting, DOMAIN waiting \ PlacesOf(n))

\* 318, the end of a WHOIS: release() remembers what was said and answers whoever
\* waited, in the order he spoke.
Released(n) ==
  LET entry == [registered |-> asked[n], expires |-> now + RegistrationSeconds,
                told |-> IF n \in DOMAIN registrations THEN registrations[n].told ELSE 0]
      his == Kept(waiting, PlacesOf(n))
      tells == ~asked[n] /\ his # <<>> /\ Tells(entry)
  IN
  /\ Reading("end", n)
  /\ n \in DOMAIN asked
  /\ Read
  /\ asked' = Without(asked, {n})
  /\ waiting' = StillWaiting(n)
  /\ registrations' = With(registrations, n, [entry EXCEPT !.told = IF tells THEN now ELSE @])
  /\ lines' = IF asked[n] THEN [i \in DOMAIN his |-> Answer(n, his[i].id)]
              ELSE IF tells THEN <<Refusal(n)>> ELSE <<>>
  /\ toldAt' = IF tells THEN [toldAt EXCEPT ![n] = now] ELSE toldAt
  /\ Heard(n)
  /\ UNCHANGED <<now, whois, counts>>

\* One nobody asked for, or that came too late.
EndIgnored(n) ==
  /\ Reading("end", n)
  /\ n \notin DOMAIN asked
  /\ Read
  /\ lines' = <<>>
  /\ Heard(n)
  /\ UNCHANGED <<now, session, whois, counts, toldAt>>

\* Mutant: the question is thought still open.
AskedOf(n) == asked

AskedOfOthers(n) == Without(asked, {n})

\* 401: the nick is gone, nothing to answer.
Unknown(n) ==
  /\ Reading("unknown", n)
  /\ Read
  /\ asked' = AskedOfOthers(n)
  /\ waiting' = StillWaiting(n)
  /\ lines' = <<>>
  /\ UNCHANGED <<now, registrations, whois, counts, history>>

\* Mutant: remembered though he left.
RememberedStill(n) == registrations

Forgotten(n) == Without(registrations, {n})

\* NICK, QUIT or PART: nothing worth remembering of him.
Left(n) ==
  /\ Reading("left", n)
  /\ Read
  /\ registrations' = Forgotten(n)
  /\ lines' = <<>>
  /\ vouched' = [vouched EXCEPT ![n] = Never]
  /\ toldAt' = [toldAt EXCEPT ![n] = Never]
  /\ UNCHANGED <<now, asked, waiting, whois, counts>>

\* KICK goes by the sender of the line like those: forgotten is who kicked n out, and
\* n stays remembered.
Kicked(n) ==
  /\ Reading("kicked", n)
  /\ Read
  /\ registrations' = Forgotten(Head(stream).by)
  /\ lines' = <<>>
  /\ toldAt' = [toldAt EXCEPT ![Head(stream).by] = Never]
  /\ UNCHANGED <<now, asked, waiting, whois, counts, vouched>>

-----------------------------------------------------------------------------
(* The session's clock and its link. *)

\* Mutant: only those with a WHOIS in flight are given up.
LateAndAsked(w) == w.deadline <= now /\ w.nick \in DOMAIN asked

Late(w) == w.deadline <= now

\* Mutant: a tick forgets every nick, and when each was told.
ForgetsAll(entry) == TRUE

Forgets(entry) == entry.expires <= now

\* Session::tick: giving up on a command gives up on its nick's WHOIS too.
SessionTick ==
  LET late == {i \in DOMAIN waiting : Late(waiting[i])} IN
  /\ asked' = Without(asked, {waiting[i].nick : i \in late})
  /\ waiting' = Kept(waiting, DOMAIN waiting \ late)
  /\ registrations' = Without(registrations, {n \in DOMAIN registrations : Forgets(registrations[n])})
  /\ lines' = <<>>
  /\ UNCHANGED <<now, server, counts, history>>

\* The link drops, with all that was under way; connected() starts clean on a new one.
Reconnected ==
  /\ lost < MaxLost
  /\ lost' = lost + 1
  /\ registrations' = Without(registrations, Nicks)
  /\ asked' = Without(asked, Nicks)
  /\ waiting' = <<>>
  /\ stream' = <<>>
  /\ whois' = <<>>
  /\ lines' = <<>>
  /\ vouched' = [n \in Nicks |-> Never]
  /\ toldAt' = [n \in Nicks |-> Never]
  /\ UNCHANGED <<now, said, left>>

-----------------------------------------------------------------------------
(* The server and the players. *)

\* Early enough for its deadline to come: a bound, like Clock's.
Say(n) ==
  /\ said < MaxSaid
  /\ now + WhoisSeconds <= MaxTime
  /\ said' = said + 1
  /\ stream' = Append(stream, [is |-> "command", of |-> n, id |-> said + 1])
  /\ lines' = <<>>
  /\ UNCHANGED <<now, session, whois, left, lost, history>>

Leave(n) ==
  /\ left < MaxLeft
  /\ left' = left + 1
  /\ stream' = Append(stream, [is |-> "left", of |-> n])
  /\ lines' = <<>>
  /\ UNCHANGED <<now, session, whois, said, lost, history>>

Kick(n, by) ==
  /\ left < MaxLeft
  /\ left' = left + 1
  /\ stream' = Append(stream, [is |-> "kicked", of |-> n, by |-> by])
  /\ lines' = <<>>
  /\ UNCHANGED <<now, session, whois, said, lost, history>>

\* The lines of one reply come together.
ReplyToWhois ==
  /\ whois # <<>>
  /\ LET n == Head(whois)
         end(vouches) == [is |-> "end", of |-> n, vouches |-> vouches]
     IN  \E reply \in {<<[is |-> "vouched", of |-> n], end(TRUE)>>,
                       <<end(FALSE)>>,
                       <<[is |-> "unknown", of |-> n], end(FALSE)>>} :
           stream' = stream \o reply
  /\ whois' = Tail(whois)
  /\ lines' = <<>>
  /\ UNCHANGED <<now, session, counts, history>>

Clock ==
  /\ now < MaxTime
  /\ now + WhoisSeconds < MaxTime \/ stream = <<>>
  /\ now' = now + 1
  /\ lines' = <<>>
  /\ UNCHANGED <<session, server, counts, history>>

Init ==
  /\ now = Start
  /\ registrations = [n \in {} |-> 0]
  /\ asked = [n \in {} |-> FALSE]
  /\ waiting = <<>>
  /\ lines = <<>>
  /\ stream = <<>>
  /\ whois = <<>>
  /\ said = 0 /\ left = 0 /\ lost = 0
  /\ vouched = [n \in Nicks |-> Never]
  /\ toldAt = [n \in Nicks |-> Never]

Handle ==
  \E n \in Nicks :
    \/ CommandAnswered(n) \/ CommandRefused(n) \/ CommandWaits(n)
    \/ Vouched(n) \/ Released(n) \/ EndIgnored(n) \/ Unknown(n)
    \/ Left(n) \/ Kicked(n)

Next ==
  \/ Handle \/ SessionTick \/ Reconnected
  \/ \E n \in Nicks : Say(n) \/ Leave(n) \/ \E by \in Nicks : Kick(n, by)
  \/ ReplyToWhois \/ Clock

Spec == Init /\ [][Next]_vars

\* pump() reads what there is and ticks at every turn; nothing is asked of the server.
FairSpec == Spec /\ WF_vars(Handle) /\ WF_vars(SessionTick) /\ WF_vars(Clock)

-----------------------------------------------------------------------------
(* Properties. *)

\* The variables keep their types; nothing is remembered, nor waited for, beyond its time.
TypeOK ==
  /\ now \in Nat
  /\ DOMAIN registrations \subseteq Nicks
  /\ registrations \in [DOMAIN registrations -> [registered : BOOLEAN, expires : 0 .. now + RegistrationSeconds,
                                           told : 0 .. now]]
  /\ DOMAIN asked \subseteq Nicks
  /\ asked \in [DOMAIN asked -> BOOLEAN]
  /\ waiting \in Seq([nick : Nicks, id : 1 .. MaxSaid, deadline : 0 .. now + WhoisSeconds])
  /\ lines \in Seq([to : Nicks, says : {"answer"}, id : 1 .. MaxSaid]
                   \cup [to : Nicks, says : {"register"}])
  /\ stream \in Seq(Line)
  /\ whois \in Seq(Nicks)
  /\ said \in 0 .. MaxSaid /\ left \in 0 .. MaxLeft /\ lost \in 0 .. MaxLost
  /\ vouched \in [Nicks -> (0 .. now) \cup {Never}]
  /\ toldAt \in [Nicks -> (0 .. now) \cup {Never}]

\* A WHOIS is in flight only for a nick somebody waits for (asked_ and waiting_ are
\* emptied apart): a stale one would keep the nick's next command from asking again.
AskedIsAwaited == DOMAIN asked \subseteq Awaited

\* A command waits only while nothing is known of its nick, so none that is answered
\* at once overtakes it (handle, release).
NobodyIsOvertaken == \A n \in Awaited : ~Known(n)

\* Whoever is answered, NickServ vouched for on this link, not longer ago than what it
\* says is remembered, and he has not gone by himself since (NICK, QUIT, PART): "only a
\* nick NickServ vouches for gets this far" (irc_run's responder, release, tick).  Being
\* kicked out is no part of it: the session goes on remembering him until his time is up.
AnsweredIsVouchedFor ==
  [][\A i \in DOMAIN lines' :
       lines'[i].says = "answer" =>
         LET since == vouched'[lines'[i].to] IN
         since # Never /\ now - since < RegistrationSeconds]_vars

\* Nobody is told to register twice in registration_seconds, unless he left or kicked
\* somebody out meanwhile (Registration::told, which several places set and others forget).
ToldSparingly ==
  [][\A i \in DOMAIN lines' :
       lines'[i].says = "register" =>
         LET since == toldAt[lines'[i].to] IN
         since = Never \/ now - since >= RegistrationSeconds]_vars

\* Every command is answered or given up, even if the server never replies (tick).
EveryCommandIsSettled ==
  \A id \in 1 .. MaxSaid :
    LET waits == \E i \in DOMAIN waiting : waiting[i].id = id IN waits ~> ~waits

\* tick "gives up on the WHOIS replies that never came": one that comes is no longer
\* waited for.
AReplyReleasesWhoeverWaits ==
  [][\A n \in Nicks :
       Reading("end", n) /\ stream' = Tail(stream) =>
         \A i \in DOMAIN waiting' : waiting'[i].nick # n]_vars
=============================================================================
