----------------------------- MODULE RelayProofs -----------------------------
(***************************************************************************)
(* What is proved of Relay, for every set-up of the process, every length   *)
(* of a batch and of the queue for the channel, and any number of updates,  *)
(* events, links, failures and starts.                                      *)
(*                                                                         *)
(* The invariant is a conjunction of parts, one per thing the threads hand  *)
(* to each other; a part is kept by every step once the ones it mentions    *)
(* hold before the step.  The lemmas in front say which steps touch what.   *)
(***************************************************************************)
EXTENDS Relay, SequenceTheorems, TLAPS

\* TypeOK, a group of variables at a time.
ProcessTypes ==
  /\ up \in BOOLEAN /\ stop \in BOOLEAN /\ conf \in Config /\ bound \in Bound /\ starts \in Nat
  /\ faults \in Nat

TelegramTypes == sent \in Nat /\ confirmed \in 0 .. sent

PollerTypes ==
  /\ main \in {"backlog", "poll", "tell", "repeat", "idle", "joining"}
  /\ offset \in Nat \cup {-1}
  /\ batch \in Seq(1 .. sent)
  /\ before \in 0 .. sent
  /\ full \in BOOLEAN

ConnectionTypes ==
  /\ ircs \in {"connect", "read", "flush", "stuck", "quit", "ended"}
  /\ joined \in BOOLEAN
  /\ outbox \in Seq(Message) /\ answers \in Seq(Message)
  /\ links \in Nat

KeepingTypes ==
  /\ keeper \in {"rest", "settle", "tell", "repeat", "remove", "watch", "owners", "save",
                "last save", "ended"}
  /\ todo \in Seq({"news", "event"})
  /\ rounds \in 0 .. 2
  /\ news \in BOOLEAN /\ newsTold \in {"untold", "told", "failed"}
  /\ settled \in Nat

SentinelTypes ==
  /\ day \in Nat
  /\ watch \in [day : 0 .. day, blocked : BOOLEAN]
  /\ file \in [day : 0 .. day, blocked : BOOLEAN]
  /\ owed \in [day : 0 .. day, blocked : BOOLEAN]
  /\ spoilt \in BOOLEAN

ChatsTypes ==
  /\ waiting \in Seq(Message) /\ channel \in Seq(Message)
  /\ ran \in Seq(1 .. sent)
  /\ said \in Nat /\ answered \in Nat
  /\ heard \subseteq Nat

Types ==
  /\ ProcessTypes /\ TelegramTypes /\ PollerTypes /\ ConnectionTypes
  /\ KeepingTypes /\ SentinelTypes /\ ChatsTypes

LEMMA TypesAreTypeOK == Types <=> TypeOK
BY DEF Types, TypeOK, ProcessTypes, TelegramTypes, PollerTypes, ConnectionTypes, KeepingTypes,
   SentinelTypes, ChatsTypes

\* A group none of whose variables changes keeps its types.
LEMMA SameTypes ==
  /\ ProcessTypes /\ UNCHANGED <<process, faults>> => ProcessTypes'
  /\ TelegramTypes /\ UNCHANGED telegram => TelegramTypes'
  /\ PollerTypes /\ UNCHANGED <<poller, telegram>> => PollerTypes'
  /\ ConnectionTypes /\ UNCHANGED connection => ConnectionTypes'
  /\ KeepingTypes /\ UNCHANGED keeping => KeepingTypes'
  /\ SentinelTypes /\ UNCHANGED sentinel => SentinelTypes'
  /\ ChatsTypes /\ UNCHANGED <<chats, telegram>> => ChatsTypes'
<1>1. ProcessTypes /\ UNCHANGED <<process, faults>> => ProcessTypes'
  BY DEF ProcessTypes, process
<1>2. TelegramTypes /\ UNCHANGED telegram => TelegramTypes'
  BY DEF TelegramTypes, telegram
<1>3. PollerTypes /\ UNCHANGED <<poller, telegram>> => PollerTypes'
  BY DEF PollerTypes, poller, telegram
<1>4. ConnectionTypes /\ UNCHANGED connection => ConnectionTypes'
  BY DEF ConnectionTypes, connection
<1>5. KeepingTypes /\ UNCHANGED keeping => KeepingTypes'
  BY DEF KeepingTypes, keeping
<1>6. SentinelTypes /\ UNCHANGED sentinel => SentinelTypes'
  BY DEF SentinelTypes, sentinel
<1>7. ChatsTypes /\ UNCHANGED <<chats, telegram>> => ChatsTypes'
  BY DEF ChatsTypes, chats, telegram
<1> QED
  BY <1>1, <1>2, <1>3, <1>4, <1>5, <1>6, <1>7

\* What may fail is counted.
LEMMA FaultTypes ==
  ASSUME ProcessTypes, UNCHANGED process, MayFail
  PROVE  ProcessTypes'
BY DEF MayFail, Fault, ProcessTypes, process

-----------------------------------------------------------------------------
(* Sequences. *)

\* What Telegram hands over is past what is done, one by one, and was sent.
LEMMA HandedOverIs ==
  ASSUME NEW done \in 0 .. sent, sent \in Nat
  PROVE  /\ HandedOver(done) \in Seq(1 .. sent)
         /\ Len(HandedOver(done)) \in 0 .. sent - done
         /\ Len(HandedOver(done)) = sent - done \/ Len(HandedOver(done)) = Batch
         /\ \A i \in 1 .. Len(HandedOver(done)) : HandedOver(done)[i] = done + i
<1> DEFINE k == IF sent - done > Batch THEN Batch ELSE sent - done
<1>1. k \in Nat /\ k <= sent - done /\ k \in {sent - done, Batch}
  BY ConstantsOK
<1>2. \A i \in 1 .. k : done + i \in 1 .. sent
  BY <1>1
<1>3. HandedOver(done) = [i \in 1 .. k |-> done + i]
  BY DEF HandedOver
<1> HIDE DEF k
<1>4. HandedOver(done) \in [1 .. k -> 1 .. sent]
  BY <1>2, <1>3
<1>5. HandedOver(done) \in Seq(1 .. sent)
  BY <1>1, <1>4, SeqDef
<1>6. Len(HandedOver(done)) = k
  BY <1>1, <1>3, <1>5, LenProperties
<1> QED
  BY <1>1, <1>3, <1>5, <1>6

\* With room made for one more, the queue has the new one last, and what is left of it
\* in front.
LEMMA PushedIs ==
  ASSUME NEW q \in Seq(Message), NEW m \in Message, Len(q) <= Cap
  PROVE  /\ Pushed(q, m) \in Seq(Message)
         /\ \E lost \in {0, 1} :
              /\ lost <= Len(q)
              /\ Len(Pushed(q, m)) = Len(q) - lost + 1 /\ Len(Pushed(q, m)) <= Cap
              /\ \A i \in 1 .. Len(q) - lost : Pushed(q, m)[i] = q[i + lost]
              /\ Pushed(q, m)[Len(q) - lost + 1] = m
<1>1. Cap \in Nat \ {0} /\ Len(q) \in Nat
  BY ConstantsOK, LenProperties
<1>2. CASE Len(q) >= Cap
  <2>1. q # <<>> /\ Pushed(q, m) = Append(Tail(q), m)
    BY <1>1, <1>2 DEF Pushed
  <2>2. /\ Tail(q) \in Seq(Message) /\ Len(Tail(q)) = Len(q) - 1
        /\ \A i \in 1 .. Len(Tail(q)) : Tail(q)[i] = q[i + 1]
    BY <2>1, HeadTailProperties
  <2>3. /\ Append(Tail(q), m) \in Seq(Message) /\ Len(Append(Tail(q), m)) = Len(q)
        /\ \A i \in 1 .. Len(q) - 1 : Append(Tail(q), m)[i] = q[i + 1]
        /\ Append(Tail(q), m)[Len(q)] = m
    BY <1>1, <2>2, AppendProperties
  <2>4. 1 <= Len(q) /\ Len(q) - 1 + 1 = Len(q) /\ Len(q) <= Cap
    BY <1>1, <1>2
  <2> QED
    BY <2>1, <2>3, <2>4
<1>3. CASE ~(Len(q) >= Cap)
  <2>1. Pushed(q, m) = Append(q, m)
    BY <1>3 DEF Pushed
  <2>2. /\ Append(q, m) \in Seq(Message) /\ Len(Append(q, m)) = Len(q) + 1
        /\ \A i \in 1 .. Len(q) : Append(q, m)[i] = q[i]
        /\ Append(q, m)[Len(q) + 1] = m
    BY AppendProperties
  <2>3. 0 <= Len(q) /\ Len(q) - 0 + 1 = Len(q) + 1 /\ Len(q) + 1 <= Cap /\ Len(q) - 0 = Len(q)
        /\ \A i \in 1 .. Len(q) : i + 0 = i
    BY <1>1, <1>3
  <2> QED
    BY <2>1, <2>2, <2>3
<1> QED
  BY <1>2, <1>3

-----------------------------------------------------------------------------
(* Types. *)

\* What is said for the channel keeps its types.
LEMMA SayTypes ==
  ASSUME ChatsTypes, links \in Nat, Len(waiting) <= Cap, IrcSay
  PROVE  said' \in Nat /\ waiting' \in Seq(Message)
<1> DEFINE m == [kind |-> "said", n |-> said + 1, link |-> links]
<1>1. m \in Message
  BY DEF ChatsTypes, Message
<1>2. Pushed(waiting, m) \in Seq(Message)
  BY <1>1, PushedIs DEF ChatsTypes
<1>3. CASE conf.irc = "off"
  BY <1>3 DEF IrcSay, ChatsTypes
<1>4. CASE conf.irc # "off"
  <2>1. said' = said + 1 /\ waiting' = Pushed(waiting, m)
    BY <1>4 DEF IrcSay
  <2> QED
    BY <2>1, <1>2 DEF ChatsTypes
<1> QED
  BY <1>3, <1>4

LEMMA InitTypes == Init => Types
<1> SUFFICES ASSUME Init PROVE Types
  OBVIOUS
<1>1. PICK s \in Scenarios : conf = s.conf /\ bound = s.bound /\ news = s.news
  BY DEF Init
<1>2. conf \in Config /\ bound \in Bound /\ news \in BOOLEAN
  BY <1>1, ConstantsOK
<1>3. bound.updates \in Nat
  BY <1>2 DEF Bound
<1>4. \A S : <<>> \in Seq(S)
  BY EmptySeq
<1>5. ProcessTypes
  BY <1>2 DEF Init, ProcessTypes
<1>6. TelegramTypes
  BY <1>3 DEF Init, TelegramTypes
<1>7. PollerTypes
  BY <1>4, <1>6 DEF Init, PollerTypes, FirstStep, TelegramTypes
<1>8. ConnectionTypes
  BY <1>4 DEF Init, ConnectionTypes
<1>9. KeepingTypes
  <2>1. todo \in Seq({"news", "event"})
    BY <1>4 DEF Init
  <2>2. keeper = "rest" /\ rounds = 0 /\ settled = 0
    BY DEF Init
  <2>3. newsTold \in {"untold", "told", "failed"}
    BY DEF Init
  <2> QED
    BY <1>2, <2>1, <2>2, <2>3 DEF KeepingTypes
<1>10. SentinelTypes
  <2>1. Nothing \in [day : 0 .. 0, blocked : BOOLEAN]
    BY DEF Nothing
  <2> QED
    BY <2>1 DEF Init, SentinelTypes
<1>11. ChatsTypes
  BY <1>4 DEF Init, ChatsTypes
<1> QED
  BY <1>5, <1>6, <1>7, <1>8, <1>9, <1>10, <1>11 DEF Types

LEMMA MainTypes ==
  ASSUME Types, Len(waiting) <= Cap, offset <= sent + 1, MainStep
  PROVE  Types'
<1> USE DEF Types
<1>1. CASE Backlog
  <2> DEFINE old == HandedOver(confirmed)
  <2>1. /\ old \in Seq(1 .. sent)
        /\ old # <<>> => Len(old) \in 1 .. Len(old) /\ old[Len(old)] \in 1 .. sent
    <3>1. old \in Seq(1 .. sent)
      BY HandedOverIs DEF TelegramTypes
    <3> HIDE DEF old
    <3>2. old # <<>> => Len(old) \in 1 .. Len(old)
      BY <3>1, EmptySeq
    <3> QED
      BY <3>1, <3>2, ElementOfSeq
  <2>2. /\ \/ offset' = IF old = <<>> THEN offset ELSE AdvanceOffset(old[Len(old)])
           \/ offset' = offset
        /\ full' \in BOOLEAN /\ main' = "poll" /\ before' = sent /\ batch' = batch
        /\ MayFail
        /\ UNCHANGED <<process, telegram, connection, keeping, sentinel, chats>>
    <3>1. MayFail
      BY <1>1 DEF Backlog, MayFail
    <3>2. full' = (Len(old) < sent - confirmed) \/ full' = TRUE
      BY <1>1 DEF Backlog
    <3>3. (Len(old) < sent - confirmed) \in BOOLEAN
      OBVIOUS
    <3>4. full' \in BOOLEAN
      BY <3>2, <3>3, Zenon
    <3> QED
      BY <1>1, <3>1, <3>4 DEF Backlog
  <2>3. offset' \in Nat \cup {-1}
    <3> HIDE DEF old
    <3> QED
      BY <2>1, <2>2 DEF AdvanceOffset, PollerTypes
  <2>4. PollerTypes'
    BY <2>2, <2>3 DEF PollerTypes, TelegramTypes, telegram
  <2> QED
    BY SameTypes, <2>2, <2>4, FaultTypes
<1>2. CASE Poll
  <2> DEFINE done == IF offset - 1 > confirmed THEN offset - 1 ELSE confirmed
  <2>1. /\ done \in 0 .. sent
        /\ UNCHANGED <<main, offset, before, full, sent>> /\ confirmed' = done
        /\ batch' = HandedOver(done) \/ batch' = batch
        /\ MayFail
        /\ UNCHANGED <<process, connection, keeping, sentinel, chats>>
    <3>1. done \in 0 .. sent
      BY <1>2 DEF Poll, PollerTypes, TelegramTypes
    <3>2. MayFail
      BY <1>2 DEF Poll, MayFail
    <3> QED
      BY <1>2, <3>1, <3>2 DEF Poll
  <2>2. TelegramTypes'
    BY <2>1 DEF TelegramTypes
  <2>3. batch' \in Seq(1 .. sent)
    BY <2>1, HandedOverIs DEF TelegramTypes, PollerTypes
  <2> QED
    BY SameTypes, <2>1, <2>2, <2>3, FaultTypes DEF PollerTypes, ChatsTypes, chats
<1>3. CASE Execute
  <2>1. /\ Head(batch) \in 1 .. sent
        /\ Tail(batch) \in Seq(1 .. sent)
    BY <1>3, HeadTailProperties DEF Execute, PollerTypes
  <2>2. PollerTypes'
    BY <1>3, <2>1 DEF Execute, PollerTypes, AdvanceOffset, telegram
  <2>3. ran' \in Seq(1 .. sent)
    BY <1>3, <2>1, AppendProperties DEF Execute, ChatsTypes
  <2>4. ChatsTypes'
    BY <1>3, <2>3 DEF Execute, ChatsTypes, telegram
  <2>5. SentinelTypes'
    <3>1. CASE UNCHANGED sentinel
      BY <3>1, SameTypes
    <3>2. CASE LetIn
      BY <3>2 DEF LetIn, SentinelTypes
    <3> QED
      BY <1>3, <3>1, <3>2 DEF Execute
  <2> QED
    BY SameTypes, <1>3, <2>2, <2>4, <2>5 DEF Execute
<1>4. CASE TellChat
  <2>1. PollerTypes'
    BY <1>4 DEF TellChat, PollerTypes, telegram
  <2> QED
    BY SameTypes, <1>4, <2>1, FaultTypes DEF TellChat
<1>5. CASE Repeat
  <2>1. PollerTypes'
    BY <1>5 DEF Repeat, PollerTypes, telegram
  <2>2. ChatsTypes'
    BY <1>5, SayTypes DEF Repeat, ChatsTypes, ConnectionTypes, telegram
  <2> QED
    BY SameTypes, <1>5, <2>1, <2>2 DEF Repeat
<1>6. CASE StopsPolling
  <2>1. PollerTypes'
    BY <1>6 DEF StopsPolling, PollerTypes, telegram
  <2> QED
    BY SameTypes, <1>6, <2>1, FaultTypes DEF StopsPolling, MayFail
<1> QED
  BY <1>1, <1>2, <1>3, <1>4, <1>5, <1>6 DEF MainStep

LEMMA IrcTypes ==
  ASSUME Types, IrcStep
  PROVE  Types'
<1> USE DEF Types
<1>0. \A S : <<>> \in Seq(S)
  BY EmptySeq
<1>1. CASE Connect
  <2>1. /\ ircs' = "read" /\ links' = links + 1 /\ joined' \in BOOLEAN
        /\ outbox' \in Seq(Message) /\ answers' \in Seq(Message)
    BY <1>0, <1>1 DEF Connect, Cleared
  <2>3. ConnectionTypes'
    BY <2>1 DEF ConnectionTypes
  <2>2. ChatsTypes'
    BY <1>0, <1>1 DEF Connect, ChatsTypes, StartsClean, telegram
  <2> QED
    BY SameTypes, <1>1, <2>2, <2>3 DEF Connect
<1>2. CASE LinkBreaks
  <2>1. ConnectionTypes'
    BY <1>2 DEF LinkBreaks, ConnectionTypes
  <2> QED
    BY SameTypes, <1>2, <2>1, FaultTypes DEF LinkBreaks, MayFail
<1>3. CASE JoinOrKick
  <2>1. joined' \in BOOLEAN /\ MayFail
    BY <1>3 DEF JoinOrKick, MayFail
  <2>2. ConnectionTypes'
    BY <1>3, <2>1 DEF JoinOrKick, ConnectionTypes
  <2> QED
    BY SameTypes, <1>3, <2>1, <2>2, FaultTypes DEF JoinOrKick
<1>4. CASE Answer
  <2> DEFINE m == [kind |-> "answer", n |-> answered + 1, link |-> links]
  <2>1. m \in Message
    BY DEF Message, ChatsTypes, ConnectionTypes
  <2>2. /\ outbox' = Append(outbox, m) /\ answers' \in {Append(answers, m), answers}
        /\ answered' = answered + 1
        /\ UNCHANGED <<ircs, joined, links>>
        /\ UNCHANGED <<waiting, ran, said, channel, heard>>
        /\ UNCHANGED <<process, faults, poller, telegram, keeping, sentinel>>
    BY <1>4 DEF Answer
  <2> HIDE DEF m
  <2>3. outbox' \in Seq(Message) /\ answers' \in Seq(Message)
    BY <2>1, <2>2, AppendProperties, SMTT(30) DEF ConnectionTypes
  <2>4. ConnectionTypes'
    BY <2>2, <2>3 DEF ConnectionTypes
  <2>5. ChatsTypes'
    BY <2>2 DEF ChatsTypes, telegram
  <2> QED
    BY SameTypes, <2>2, <2>4, <2>5
<1>5. CASE Take
  <2>1. /\ outbox' = outbox \o waiting \/ outbox' = outbox
        /\ waiting' = <<>> \/ waiting' = waiting
    BY <1>5 DEF Take, LeftAfterTaking
  <2>2. outbox' \in Seq(Message)
    BY <2>1, ConcatProperties DEF ConnectionTypes, ChatsTypes
  <2>3. ConnectionTypes'
    BY <1>5, <2>2 DEF Take, ConnectionTypes
  <2>4. ChatsTypes'
    BY <1>0, <1>5, <2>1 DEF Take, ChatsTypes, telegram
  <2> QED
    BY SameTypes, <1>5, <2>3, <2>4 DEF Take
<1>6. CASE Flush
  <2>1. Head(outbox) \in Message /\ Tail(outbox) \in Seq(Message)
    BY <1>6, HeadTailProperties DEF Flush, ConnectionTypes
  <2>2. ConnectionTypes'
    BY <1>6, <2>1 DEF Flush, ConnectionTypes
  <2>3. channel' \in Seq(Message)
    <3>1. channel' = Append(channel, Head(outbox)) \/ channel' = channel
      BY <1>6 DEF Flush
    <3>2. channel \in Seq(Message)
      BY DEF ChatsTypes
    <3>3. Append(channel, Head(outbox)) \in Seq(Message)
      BY <2>1, <3>2, AppendProperties
    <3> QED
      BY <3>1, <3>2, <3>3
  <2>4. ChatsTypes'
    BY <1>6, <2>3 DEF Flush, ChatsTypes, telegram
  <2>5. MayFail
    BY <1>6 DEF Flush, MayFail
  <2> QED
    BY SameTypes, <1>6, <2>2, <2>4, <2>5, FaultTypes DEF Flush
<1>7. CASE TellGroup
  <2>1. Head(answers) \in Message /\ Tail(answers) \in Seq(Message)
    BY <1>7, HeadTailProperties DEF TellGroup, ConnectionTypes
  <2>2. ConnectionTypes'
    BY <1>7, <2>1 DEF TellGroup, ConnectionTypes
  <2>3. heard' \subseteq Nat
    BY <1>7, <2>1 DEF TellGroup, ChatsTypes, Message
  <2>4. ChatsTypes'
    BY <1>7, <2>3 DEF TellGroup, ChatsTypes, telegram
  <2> QED
    BY SameTypes, <1>7, <2>2, <2>4, FaultTypes DEF TellGroup
<1>8. CASE PumpAgain
  <2>1. ConnectionTypes'
    BY <1>8 DEF PumpAgain, ConnectionTypes, AfterPump
  <2> QED
    BY SameTypes, <1>8, <2>1 DEF PumpAgain
<1>9. CASE StopsConnecting
  <2>1. ConnectionTypes'
    BY <1>9 DEF StopsConnecting, ConnectionTypes
  <2> QED
    BY SameTypes, <1>9, <2>1 DEF StopsConnecting
<1>10. CASE Quit
  <2>1. ConnectionTypes'
    BY <1>10 DEF Quit, ConnectionTypes
  <2> QED
    BY SameTypes, <1>10, <2>1 DEF Quit
<1> QED
  BY <1>1, <1>2, <1>3, <1>4, <1>5, <1>6, <1>7, <1>8, <1>9, <1>10 DEF IrcStep

LEMMA IrcServerTypes ==
  ASSUME Types, Stall \/ Unstall
  PROVE  Types'
<1> USE DEF Types
<1>1. CASE Stall
  <2>1. ConnectionTypes' /\ MayFail
    BY <1>1 DEF Stall, ConnectionTypes, MayFail
  <2> QED
    BY SameTypes, <1>1, <2>1, FaultTypes DEF Stall
<1>2. CASE Unstall
  <2>1. ircs' \in {"read", "quit", "flush", "connect"}
    BY <1>2 DEF Unstall, AfterPump
  <2>2. ConnectionTypes'
    BY <1>2, <2>1 DEF Unstall, ConnectionTypes
  <2> QED
    BY SameTypes, <1>2, <2>2 DEF Unstall
<1> QED
  BY <1>1, <1>2

\* The news is told, repeated to the channel, and its file removed.
LEMMA NewsSteps ==
  /\ NewsAfter("read") = "tell" /\ NewsAfter("tell") = "repeat"
  /\ NewsAfter("repeat") = "remove" /\ NewsAfter("remove") = "settle"
BY DEF NewsAfter

LEMMA KeeperTypes ==
  ASSUME Types, Len(waiting) <= Cap, KeeperStep,
         keeper \in {"tell", "repeat"} => todo # <<>>
  PROVE  Types'
<1> USE DEF Types
<1>1. CASE RoundBegins
  <2>1. todo' \in Seq({"news", "event"})
    <3>1. <<"news">> \in Seq({"news", "event"})
      OBVIOUS
    <3> QED
      BY <1>1, <3>1 DEF RoundBegins, KeepingTypes
  <2>2. keeper' \in {"tell", "settle"} /\ rounds' \in 0 .. 2
    BY <1>1, NewsSteps DEF RoundBegins, KeepingTypes
  <2>3. KeepingTypes'
    BY <1>1, <2>1, <2>2 DEF RoundBegins, KeepingTypes
  <2> QED
    BY SameTypes, <1>1, <2>3 DEF RoundBegins
<1>2. CASE Settle
  <2>1. PICK k \in 0 .. bound.events - settled :
          /\ settled' = settled + k
          /\ todo' = [i \in 1 .. k |-> "event"]
          /\ keeper' = IF k = 0 THEN "watch" ELSE "tell"
    BY <1>2 DEF Settle
  <2>2. bound.events \in Nat
    BY DEF ProcessTypes, Bound
  <2>3. k \in Nat /\ todo' \in [1 .. k -> {"news", "event"}]
    <3>0. settled \in Nat
      BY DEF KeepingTypes
    <3>1. bound.events - settled \in Int
      BY <2>2, <3>0
    <3>2. k \in Nat
      BY <3>1
    <3> QED
      BY <2>1, <3>2
  <2>4. todo' \in Seq({"news", "event"})
    BY <2>3, SeqDef
  <2>5. KeepingTypes'
    BY <1>2, <2>1, <2>3, <2>4 DEF Settle, KeepingTypes
  <2> QED
    BY SameTypes, <1>2, <2>5 DEF Settle
<1>3. CASE Announce
  <2>1. KeepingTypes'
    BY <1>3, NewsSteps DEF Announce, KeepingTypes
  <2>2. MayFail
    BY <1>3 DEF Announce, MayFail
  <2> QED
    BY SameTypes, <1>3, <2>1, <2>2, FaultTypes DEF Announce
<1>4. CASE AnnounceToIrc
  <2>1. Tail(todo) \in Seq({"news", "event"})
    BY <1>4, HeadTailProperties DEF AnnounceToIrc, KeepingTypes
  <2>2. newsTold' \in {"untold", "told", "failed"}
    BY <1>4, Zenon DEF AnnounceToIrc, KeepingTypes
  <2>3. KeepingTypes'
    BY <1>4, <2>1, <2>2, NewsSteps DEF AnnounceToIrc, KeepingTypes
  <2>4. ChatsTypes'
    BY <1>4, SayTypes DEF AnnounceToIrc, ChatsTypes, ConnectionTypes, telegram
  <2> QED
    BY SameTypes, <1>4, <2>3, <2>4 DEF AnnounceToIrc
<1>5. CASE RemoveNews
  <2>1. news' \in BOOLEAN
    BY <1>5 DEF RemoveNews, KeepingTypes
  <2>2. KeepingTypes'
    BY <1>5, <2>1, NewsSteps DEF RemoveNews, KeepingTypes
  <2>3. MayFail
    BY <1>5 DEF RemoveNews, MayFail
  <2> QED
    BY SameTypes, <1>5, <2>2, <2>3, FaultTypes DEF RemoveNews
<1>6. CASE Watch
  <2>1. /\ watch' \in [day : 0 .. day, blocked : BOOLEAN]
        /\ owed' \in [day : 0 .. day, blocked : BOOLEAN]
    BY <1>6 DEF Watch, SentinelTypes
  <2>2. spoilt' \in BOOLEAN /\ keeper' \in {"owners", "rest", "save"}
    BY <1>6 DEF Watch, SentinelTypes
  <2>3. MayFail
    BY <1>6 DEF Watch, MayFail
  <2>4. KeepingTypes'
    BY <1>6, <2>2 DEF Watch, KeepingTypes
  <2>5. SentinelTypes'
    BY <1>6, <2>1, <2>2 DEF Watch, SentinelTypes
  <2> QED
    BY SameTypes, <1>6, <2>3, <2>4, <2>5, FaultTypes DEF Watch
<1>7. CASE TellOwners
  <2>1. KeepingTypes'
    BY <1>7 DEF TellOwners, KeepingTypes, AfterTelling
  <2> QED
    BY SameTypes, <1>7, <2>1, FaultTypes DEF TellOwners
<1>8. CASE SaveWatch
  <2>1. Nothing \in [day : 0 .. day, blocked : BOOLEAN]
    BY DEF Nothing, SentinelTypes
  <2>2. file' \in [day : 0 .. day, blocked : BOOLEAN]
    BY <1>8, <2>1 DEF SaveWatch, SentinelTypes
  <2>3. spoilt' \in BOOLEAN
    BY <1>8 DEF SaveWatch, SentinelTypes
  <2>4. MayFail
    BY <1>8 DEF SaveWatch, MayFail
  <2>5. KeepingTypes'
    BY <1>8 DEF SaveWatch, KeepingTypes
  <2>6. SentinelTypes'
    BY <1>8, <2>2, <2>3 DEF SaveWatch, SentinelTypes
  <2> QED
    BY SameTypes, <1>8, <2>4, <2>5, <2>6, FaultTypes DEF SaveWatch
<1>9. CASE StopsKeeping
  <2>1. KeepingTypes'
    BY <1>9 DEF StopsKeeping, KeepingTypes
  <2> QED
    BY SameTypes, <1>9, <2>1 DEF StopsKeeping
<1> QED
  BY <1>1, <1>2, <1>3, <1>4, <1>5, <1>6, <1>7, <1>8, <1>9 DEF KeeperStep

\* A process that ends leaves types behind.
LEMMA EndsTypes ==
  ASSUME Types, Ends, MayFail
  PROVE  Types'
<1> USE DEF Types
<1>0. \A S : <<>> \in Seq(S)
  BY EmptySeq
<1>1. ProcessTypes'
  <2>1. faults' \in Nat
    BY DEF MayFail, Fault, ProcessTypes
  <2>2. up' \in BOOLEAN /\ stop' \in BOOLEAN
    BY DEF Ends, Fresh
  <2> QED
    BY SameTypes, <2>1, <2>2 DEF Ends, ProcessTypes
<1>2. TelegramTypes'
  BY SameTypes DEF Ends
<1>3. PollerTypes'
  <2>1. main' \in {"backlog", "idle", "joining"}
    BY DEF Ends, Fresh, FirstStep
  <2>2. batch' = <<>> /\ offset' = -1 /\ before' = 0 /\ full' \in BOOLEAN /\ sent' = sent
    BY DEF Ends, Fresh, telegram
  <2>3. batch' \in Seq(1 .. sent')
    BY <1>0, <2>2
  <2> QED
    BY SameTypes, <2>1, <2>2, <2>3 DEF PollerTypes, TelegramTypes
<1>4. ConnectionTypes'
  <2>1. ircs' \in {"connect", "ended"} /\ joined' \in BOOLEAN
    BY DEF Ends, Fresh
  <2>2. outbox' = <<>> /\ answers' = <<>> /\ links' = links
    BY DEF Ends, Fresh
  <2> QED
    BY SameTypes, <1>0, <2>1, <2>2 DEF ConnectionTypes
<1>5. KeepingTypes'
  <2>1. keeper' = "rest" /\ todo' = <<>> /\ rounds' = 0 /\ settled' = settled
    BY DEF Ends, Fresh
  <2>4. news' \in BOOLEAN
    BY DEF Ends, KeepingTypes
  <2>2. newsTold' \in {"untold", "told", "failed"}
    BY DEF Ends, Fresh
  <2>3. todo' \in Seq({"news", "event"})
    BY <1>0, <2>1
  <2>5. settled \in Nat
    BY DEF KeepingTypes
  <2>6. settled' \in Nat /\ rounds' \in 0 .. 2 /\ keeper' \in {"rest"}
    BY <2>1, <2>5
  <2> QED
    BY <2>2, <2>3, <2>4, <2>6 DEF KeepingTypes
<1>6. SentinelTypes'
  <2>1. spoilt' \in BOOLEAN
    BY Zenon DEF Ends, SentinelTypes
  <2> QED
    BY SameTypes, <2>1 DEF Ends, SentinelTypes
<1>7. ChatsTypes'
  <2>1. waiting' = <<>> /\ UNCHANGED <<ran, said, answered, channel, heard, telegram>>
    BY DEF Ends, Fresh
  <2> QED
    BY <1>0, <2>1 DEF ChatsTypes, telegram
<1> QED
  BY <1>1, <1>2, <1>3, <1>4, <1>5, <1>6, <1>7

LEMMA WorldTypes ==
  ASSUME Types, Send \/ DayPasses \/ Start \/ RequestStop
  PROVE  Types'
<1> USE DEF Types
<1>1. CASE Send
  <2>1. sent' = sent + 1 /\ confirmed' = confirmed /\ sent \in Nat
    BY <1>1 DEF Send, TelegramTypes
  <2>2. 1 .. sent \subseteq 1 .. sent' /\ 0 .. sent \subseteq 0 .. sent'
    BY <2>1
  <2>3. TelegramTypes'
    BY <2>1 DEF TelegramTypes
  <2>4. batch \in Seq(1 .. sent') /\ ran \in Seq(1 .. sent')
    BY <2>2, SeqMonotonic DEF PollerTypes, ChatsTypes
  <2>5. PollerTypes'
    BY <1>1, <2>2, <2>4 DEF Send, PollerTypes, poller
  <2>6. ChatsTypes'
    BY <1>1, <2>4 DEF Send, ChatsTypes, chats
  <2> QED
    BY SameTypes, <1>1, <2>3, <2>5, <2>6 DEF Send
<1>2. CASE DayPasses
  <2>1. day' = day + 1 /\ day \in Nat
    BY <1>2 DEF DayPasses, SentinelTypes
  <2>2. 0 .. day \subseteq 0 .. day'
    BY <2>1
  <2>3. \A w \in [day : 0 .. day, blocked : BOOLEAN] :
          [w EXCEPT !.blocked = FALSE] \in [day : 0 .. day', blocked : BOOLEAN]
    BY <2>2
  <2>4. SentinelTypes'
    BY <1>2, <2>1, <2>3 DEF DayPasses, SentinelTypes
  <2> QED
    BY SameTypes, <1>2, <2>4 DEF DayPasses
<1>3. CASE Start
  <2>1. ProcessTypes'
    BY <1>3 DEF Start, ProcessTypes
  <2> QED
    BY SameTypes, <1>3, <2>1 DEF Start
<1>4. CASE RequestStop
  <2>1. ProcessTypes'
    BY <1>4 DEF RequestStop, ProcessTypes
  <2> QED
    BY SameTypes, <1>4, <2>1 DEF RequestStop
<1> QED
  BY <1>1, <1>2, <1>3, <1>4

LEMMA TypesKept ==
  ASSUME Types, Len(waiting) <= Cap, offset <= sent + 1,
         keeper \in {"tell", "repeat"} => todo # <<>>,
         [Next]_vars
  PROVE  Types'
<1>1. CASE UNCHANGED vars
  BY <1>1, SameTypes DEF Types, vars
<1>2. CASE Exit
  BY <1>2, EndsTypes DEF Exit, MayFail
<1>3. CASE Crash
  BY <1>3, EndsTypes DEF Crash, MayFail
<1> QED
  BY <1>1, <1>2, <1>3, MainTypes, IrcTypes, IrcServerTypes, KeeperTypes, WorldTypes
     DEF Next, Main, Irc, IrcServer, Keeper

-----------------------------------------------------------------------------
(* The keeper. *)

\* Whatever is told is on the list, and the news is repeated and removed once it has been
\* told, or tried.
RoundGoesOn ==
  /\ keeper \in {"tell", "repeat"} => todo # <<>>
  /\ keeper = "repeat" /\ Head(todo) = "news" => newsTold # "untold"
  /\ keeper = "remove" => newsTold # "untold"

LEMMA RoundGoesOnKept ==
  ASSUME Types, RoundGoesOn, [Next]_vars
  PROVE  RoundGoesOn'
<1>1. CASE UNCHANGED <<keeper, todo, newsTold>>
  BY <1>1 DEF RoundGoesOn
<1>2. CASE Main \/ Irc \/ IrcServer \/ Start \/ RequestStop \/ Send \/ DayPasses \/ UNCHANGED vars
  <2>1. UNCHANGED keeping
    BY <1>2 DEF Main, Irc, MainStep, Backlog, Poll, Execute, TellChat, Repeat, StopsPolling,
       IrcStep, Connect, LinkBreaks, JoinOrKick, Answer, Take, Flush, TellGroup, PumpAgain,
       StopsConnecting, Quit, IrcServer, Stall, Unstall, Start, RequestStop, Send, DayPasses, vars
  <2> QED
    BY <1>1, <2>1 DEF keeping
<1>3. CASE Exit \/ Crash
  BY <1>3 DEF Exit, Crash, Ends, Fresh, RoundGoesOn
<1>4. CASE RoundBegins
  BY <1>4, NewsSteps DEF RoundBegins, RoundGoesOn
<1>5. CASE Settle
  <2>1. PICK k \in 0 .. bound.events - settled :
          /\ todo' = [i \in 1 .. k |-> "event"]
          /\ keeper' = IF k = 0 THEN "watch" ELSE "tell"
    BY <1>5 DEF Settle
  <2>2. CASE k = 0
    BY <2>1, <2>2 DEF RoundGoesOn
  <2>3. CASE k # 0
    <3>1. bound.events \in Nat /\ settled \in Nat
      BY DEF Types, ProcessTypes, KeepingTypes, Bound
    <3>2. k \in Nat \ {0}
      BY <2>1, <2>3, <3>1
    <3>3. 1 \in DOMAIN todo'
      BY <2>1, <3>2
    <3>4. todo' # <<>>
      BY <3>3
    <3> QED
      BY <2>1, <2>3, <3>4 DEF RoundGoesOn
  <2> QED
    BY <2>2, <2>3
<1>6. CASE Announce
  BY <1>6, NewsSteps DEF Announce, RoundGoesOn
<1>7. CASE AnnounceToIrc
  BY <1>7, NewsSteps DEF AnnounceToIrc, RoundGoesOn
<1>8. CASE RemoveNews
  BY <1>8, NewsSteps DEF RemoveNews, RoundGoesOn
<1>9. CASE Watch \/ TellOwners \/ SaveWatch \/ StopsKeeping
  BY <1>9 DEF Watch, TellOwners, SaveWatch, StopsKeeping, RoundGoesOn, AfterTelling
<1> QED
  BY <1>2, <1>3, <1>4, <1>5, <1>6, <1>7, <1>8, <1>9 DEF Next, Keeper, KeeperStep

-----------------------------------------------------------------------------
(* The poller. *)

\* The last update Telegram will take for done at the next call.
Done == IF offset - 1 > confirmed THEN offset - 1 ELSE confirmed

\* What has been handed over is what comes after that, and was all sent; a process that
\* polls has left behind what was sent before it began, and what was executed.
PollsOn ==
  /\ offset <= sent + 1
  /\ main = "backlog" => batch = <<>> /\ offset = -1
  /\ \A i \in DOMAIN batch : batch[i] = Done + i
  /\ Polling /\ ~full => before <= Done /\ \A i \in DOMAIN ran : ran[i] <= Done

LEMMA InitPollsOn == Init => PollsOn
<1> SUFFICES ASSUME Init PROVE PollsOn
  OBVIOUS
<1>1. TelegramTypes
  BY InitTypes DEF Types
<1>2. ~Polling
  BY DEF Init, Polling, FirstStep
<1>3. batch = <<>> /\ offset = -1
  BY DEF Init
<1> QED
  BY <1>1, <1>2, <1>3 DEF PollsOn, TelegramTypes

\* Steps that leave the poller and Telegram alone.
LEMMA PollerAlone ==
  ASSUME PollsOn, UNCHANGED <<poller, telegram, ran>>
  PROVE  PollsOn'
BY DEF PollsOn, Done, Polling, poller, telegram

LEMMA BacklogPollsOn ==
  ASSUME Types, PollsOn, Backlog
  PROVE  PollsOn'
<1> DEFINE old == HandedOver(confirmed)
<1>1. sent \in Nat /\ confirmed \in 0 .. sent /\ \A i \in DOMAIN ran : ran[i] \in 1 .. sent
  BY LenProperties DEF Types, TelegramTypes, ChatsTypes
<1>2. /\ Len(old) \in 0 .. sent - confirmed
      /\ \A i \in 1 .. Len(old) : old[i] = confirmed + i
      /\ old = <<>> <=> Len(old) = 0
  BY <1>1, HandedOverIs, EmptySeq
<1>3. /\ batch' = batch /\ sent' = sent /\ confirmed' = confirmed /\ ran' = ran
      /\ before' = sent /\ main' = "poll"
      /\ \/ /\ offset' = IF old = <<>> THEN offset ELSE AdvanceOffset(old[Len(old)])
            /\ full' = (Len(old) < sent - confirmed)
         \/ full' = TRUE /\ offset' = offset
  BY DEF Backlog, telegram, chats
<1>4. batch = <<>> /\ offset = -1
  BY DEF Backlog, PollsOn
<1> HIDE DEF old
<1>5. CASE full' = TRUE /\ offset' = offset
  BY <1>1, <1>3, <1>4, <1>5 DEF PollsOn, Done
<1>6. CASE /\ offset' = IF old = <<>> THEN offset ELSE AdvanceOffset(old[Len(old)])
           /\ full' = (Len(old) < sent - confirmed)
  <2>1. offset' = IF Len(old) = 0 THEN -1 ELSE confirmed + Len(old) + 1
    BY <1>1, <1>2, <1>4, <1>6 DEF AdvanceOffset
  <2>2. Done' = confirmed + Len(old)
    BY <1>1, <1>2, <1>3, <2>1 DEF Done
  <2>3. ~full' => Done' = sent
    <3>1. ~full' => ~(Len(old) < sent - confirmed)
      BY <1>6, Zenon
    <3> QED
      BY <1>1, <1>2, <2>2, <3>1
  <2>4. offset' <= sent' + 1
    BY <1>1, <1>2, <1>3, <2>1
  <2>5. Polling' /\ ~full' => before' <= Done' /\ \A i \in DOMAIN ran' : ran'[i] <= Done'
    BY <1>1, <1>3, <2>3
  <2> QED
    BY <1>3, <1>4, <2>4, <2>5 DEF PollsOn
<1> QED
  BY <1>3, <1>5, <1>6

LEMMA PollPollsOn ==
  ASSUME Types, PollsOn, Poll
  PROVE  PollsOn'
<1>1. sent \in Nat /\ confirmed \in 0 .. sent /\ offset \in Nat \cup {-1} /\ offset <= sent + 1
  BY DEF Types, TelegramTypes, PollerTypes, PollsOn
<1>2. Done \in 0 .. sent
  BY <1>1 DEF Done
<1>3. /\ batch' = HandedOver(Done) \/ batch' = batch
      /\ confirmed' = Done /\ offset' = offset /\ sent' = sent
      /\ main = "poll" /\ main' = main /\ before' = before /\ full' = full /\ ran' = ran
  BY DEF Poll, Done, chats
<1>4. Done' = Done
  BY <1>1, <1>3 DEF Done
<1>5. \A i \in DOMAIN HandedOver(Done) : HandedOver(Done)[i] = Done + i
  BY <1>1, <1>2, HandedOverIs, LenProperties
<1>6. \A i \in DOMAIN batch' : batch'[i] = Done' + i
  BY <1>3, <1>4, <1>5 DEF PollsOn
<1> QED
  BY <1>3, <1>4, <1>6 DEF PollsOn, Polling

LEMMA ExecutePollsOn ==
  ASSUME Types, PollsOn, Execute
  PROVE  /\ PollsOn'
         /\ ran' = Append(ran, Head(batch)) /\ Head(batch) = Done + 1
<1>1. /\ sent \in Nat /\ confirmed \in 0 .. sent /\ offset \in Nat \cup {-1}
      /\ batch \in Seq(1 .. sent) /\ batch # <<>> /\ ran \in Seq(1 .. sent)
  BY DEF Types, TelegramTypes, PollerTypes, ChatsTypes, Execute
<1>2. /\ offset' = Head(batch) + 1 /\ batch' = Tail(batch) /\ ran' = Append(ran, Head(batch))
      /\ main = "poll" /\ main' # "backlog" /\ before' = before /\ full' = full
      /\ sent' = sent /\ confirmed' = confirmed
  BY DEF Execute, AdvanceOffset, telegram
<1>3. Done \in Nat /\ Done >= confirmed
  BY <1>1 DEF Done
<1>4. Len(batch) \in Nat \ {0} /\ DOMAIN batch = 1 .. Len(batch)
  BY <1>1, EmptySeq, LenProperties
<1>5. Head(batch) = batch[1] /\ batch[1] = Done + 1
  BY <1>1, <1>4 DEF PollsOn
<1>6. Done' = Done + 1
  BY <1>1, <1>2, <1>3, <1>5, SMTT(30) DEF Done
<1>7. \A i \in DOMAIN batch' : batch'[i] = Done' + i
  <2>1. /\ Tail(batch) \in Seq(1 .. sent) /\ Len(Tail(batch)) = Len(batch) - 1
        /\ \A i \in 1 .. Len(Tail(batch)) : Tail(batch)[i] = batch[i + 1]
    BY <1>1, HeadTailProperties
  <2>2. DOMAIN Tail(batch) = 1 .. Len(batch) - 1
    BY <2>1, LenProperties
  <2>3. \A i \in 1 .. Len(batch) - 1 : i + 1 \in DOMAIN batch
    BY <1>4
  <2>4. \A i \in 1 .. Len(batch) - 1 : batch[i + 1] = Done + (i + 1)
    BY <2>3 DEF PollsOn
  <2> QED
    BY <1>2, <1>3, <1>6, <2>1, <2>2, <2>4
<1>8. ~full' => before' <= Done' /\ \A i \in DOMAIN ran' : ran'[i] <= Done'
  <2> SUFFICES ASSUME ~full' PROVE before' <= Done' /\ \A i \in DOMAIN ran' : ran'[i] <= Done'
    OBVIOUS
  <2>1. before <= Done /\ \A i \in DOMAIN ran : ran[i] <= Done
    BY <1>2 DEF PollsOn, Polling
  <2>2. before \in Nat
    BY DEF Types, PollerTypes
  <2>3. Head(batch) \in 1 .. sent
    BY <1>1, HeadTailProperties
  <2>4. /\ Append(ran, Head(batch)) \in Seq(1 .. sent)
        /\ Len(Append(ran, Head(batch))) = Len(ran) + 1
        /\ \A i \in 1 .. Len(ran) : Append(ran, Head(batch))[i] = ran[i]
        /\ Append(ran, Head(batch))[Len(ran) + 1] = Head(batch)
    BY <1>1, <2>3, AppendProperties
  <2>5. DOMAIN Append(ran, Head(batch)) = 1 .. Len(ran) + 1
        /\ DOMAIN ran = 1 .. Len(ran) /\ Len(ran) \in Nat
    BY <1>1, <2>4, LenProperties
  <2>6. \A i \in 1 .. Len(ran) : ran[i] \in Nat
    BY <1>1, ElementOfSeq
  <2>7. \A i \in 1 .. Len(ran) + 1 : Append(ran, Head(batch))[i] <= Done + 1
    BY <1>3, <1>5, <2>1, <2>4, <2>5, <2>6
  <2> QED
    BY <1>2, <1>3, <1>6, <2>1, <2>2, <2>5, <2>7
<1>9. offset' <= sent' + 1
  BY <1>1, <1>2, HeadTailProperties
<1> QED
  BY <1>2, <1>5, <1>7, <1>8, <1>9 DEF PollsOn

LEMMA PollsOnKept ==
  ASSUME Types, PollsOn, [Next]_vars
  PROVE  PollsOn'
<1>1. CASE Backlog \/ Poll \/ Execute
  BY <1>1, BacklogPollsOn, PollPollsOn, ExecutePollsOn
<1>2. CASE TellChat \/ Repeat \/ StopsPolling
  <2>1. main \notin {"backlog", "joining"} /\ (Polling' => Polling) /\ main' # "backlog"
    BY <1>2 DEF TellChat, Repeat, StopsPolling, Polling
  <2>2. UNCHANGED <<offset, batch, before, full, sent, confirmed, ran>>
    BY <1>2 DEF TellChat, Repeat, StopsPolling, telegram, chats
  <2> QED
    BY <2>1, <2>2 DEF PollsOn, Done
<1>3. CASE Irc \/ IrcServer \/ Keeper \/ Start \/ RequestStop \/ DayPasses \/ UNCHANGED vars
  <2>1. UNCHANGED <<poller, telegram, ran>>
    BY <1>3 DEF Irc, Keeper, KeeperStep, RoundBegins, Settle, Announce, AnnounceToIrc,
       RemoveNews, Watch, TellOwners, SaveWatch, StopsKeeping,
       IrcStep, Connect, LinkBreaks, JoinOrKick, Answer, Take, Flush, TellGroup, PumpAgain,
       StopsConnecting, Quit, IrcServer, Stall, Unstall, Start, RequestStop, DayPasses, vars, chats
  <2> QED
    BY <2>1, PollerAlone
<1>4. CASE Send
  <2>1. sent' = sent + 1 /\ UNCHANGED <<confirmed, poller, ran>>
    BY <1>4 DEF Send, chats
  <2>2. sent \in Nat /\ offset \in Nat \cup {-1}
    BY DEF Types, TelegramTypes, PollerTypes
  <2> QED
    BY <2>1, <2>2 DEF PollsOn, Done, Polling, poller
<1>5. CASE Exit \/ Crash
  <2>1. /\ main' \in {"backlog", "idle", "joining"}
        /\ batch' = <<>> /\ offset' = -1 /\ sent' = sent
    BY <1>5 DEF Exit, Crash, Ends, Fresh, FirstStep, telegram
  <2>2. sent \in Nat
    BY DEF Types, TelegramTypes
  <2> QED
    BY <2>1, <2>2 DEF PollsOn, Polling
<1> QED
  BY <1>1, <1>2, <1>3, <1>4, <1>5 DEF Next, Main, MainStep

-----------------------------------------------------------------------------
(* What waits for the channel, and what has gone there. *)

\* In the order of its numbers, among what was said and among what was answered.
InOrder(s) ==
  \A j \in DOMAIN s : \A i \in 1 .. j - 1 : s[i].kind = s[j].kind => s[i].n < s[j].n

\* All of one comes before all of the other.
Ahead(s, t) == \A i \in DOMAIN s, j \in DOMAIN t : s[i].kind = t[j].kind => s[i].n < t[j].n

\* Nothing is numbered past what has been said and answered so far.
Numbered(s) ==
  \A i \in DOMAIN s : s[i].n <= (IF s[i].kind = "said" THEN said ELSE answered)

\* What is said waits in order, nothing missing, for the link there is.
Waits ==
  /\ WaitingIsTheLatest
  /\ \A i \in DOMAIN waiting : waiting[i].kind = "said" /\ waiting[i].link = links

\* From the thread's queue to the channel, and from the others to the queue, order is kept.
GoesInOrder ==
  /\ InOrder(outbox) /\ InOrder(channel)
  /\ Ahead(channel, outbox) /\ Ahead(outbox, waiting) /\ Ahead(channel, waiting)
  /\ Numbered(outbox) /\ Numbered(channel)

LEMMA AppendInOrder ==
  ASSUME NEW s \in Seq(Message), NEW m \in Message, InOrder(s),
         \A i \in DOMAIN s : s[i].kind = m.kind => s[i].n < m.n
  PROVE  InOrder(Append(s, m))
<1>1. /\ Append(s, m) \in Seq(Message) /\ Len(Append(s, m)) = Len(s) + 1
      /\ \A i \in 1 .. Len(s) : Append(s, m)[i] = s[i]
      /\ Append(s, m)[Len(s) + 1] = m
  BY AppendProperties
<1>2. DOMAIN s = 1 .. Len(s) /\ Len(s) \in Nat /\ DOMAIN Append(s, m) = 1 .. Len(s) + 1
  BY <1>1, LenProperties
<1> DEFINE t == Append(s, m)
<1> HIDE DEF t
<1>3. \A j \in 1 .. Len(s) + 1 : \A i \in 1 .. j - 1 : t[i].kind = t[j].kind => t[i].n < t[j].n
  <2> TAKE j \in 1 .. Len(s) + 1
  <2> TAKE i \in 1 .. j - 1
  <2>1. i \in 1 .. Len(s) /\ t[i] = s[i]
    BY <1>1, <1>2 DEF t
  <2>2. CASE j = Len(s) + 1
    BY <1>1, <1>2, <2>1, <2>2 DEF t
  <2>3. CASE j # Len(s) + 1
    <3>1. j \in 1 .. Len(s) /\ t[j] = s[j]
      BY <1>1, <1>2, <2>3 DEF t
    <3> QED
      BY <1>2, <2>1, <3>1 DEF InOrder
  <2> QED
    BY <2>2, <2>3
<1> QED
  BY <1>2, <1>3 DEF InOrder, t

LEMMA AppendParts ==
  ASSUME NEW s \in Seq(Message), NEW m \in Message
  PROVE  /\ \A i \in DOMAIN Append(s, m) :
              Append(s, m)[i] = m \/ (i \in DOMAIN s /\ Append(s, m)[i] = s[i])
         /\ \A i \in DOMAIN s : i \in DOMAIN Append(s, m) /\ Append(s, m)[i] = s[i]
         /\ \E i \in DOMAIN Append(s, m) : Append(s, m)[i] = m
<1>1. /\ Append(s, m) \in Seq(Message) /\ Len(Append(s, m)) = Len(s) + 1
      /\ \A i \in 1 .. Len(s) : Append(s, m)[i] = s[i]
      /\ Append(s, m)[Len(s) + 1] = m
  BY AppendProperties
<1>2. DOMAIN s = 1 .. Len(s) /\ Len(s) \in Nat /\ DOMAIN Append(s, m) = 1 .. Len(s) + 1
  BY <1>1, LenProperties
<1>3. Len(s) + 1 \in DOMAIN Append(s, m)
  BY <1>2
<1> QED
  BY <1>1, <1>2, <1>3

LEMMA AheadAppend ==
  ASSUME NEW s \in Seq(Message), NEW m \in Message, NEW t
  PROVE  /\ Ahead(s, t) /\ (\A j \in DOMAIN t : m.kind = t[j].kind => m.n < t[j].n)
              => Ahead(Append(s, m), t)
         /\ Ahead(t, s) /\ (\A j \in DOMAIN t : t[j].kind = m.kind => t[j].n < m.n)
              => Ahead(t, Append(s, m))
BY AppendParts, SMTT(30) DEF Ahead

LEMMA ConcatInOrder ==
  ASSUME NEW s \in Seq(Message), NEW t \in Seq(Message), InOrder(s), InOrder(t), Ahead(s, t)
  PROVE  InOrder(s \o t)
<1> DEFINE u == s \o t
<1>1. /\ u \in Seq(Message) /\ Len(u) = Len(s) + Len(t)
      /\ \A i \in 1 .. Len(s) + Len(t) : u[i] = IF i <= Len(s) THEN s[i] ELSE t[i - Len(s)]
  BY ConcatProperties
<1> HIDE DEF u
<1>2. /\ DOMAIN s = 1 .. Len(s) /\ Len(s) \in Nat /\ DOMAIN t = 1 .. Len(t) /\ Len(t) \in Nat
      /\ DOMAIN u = 1 .. Len(s) + Len(t)
  BY <1>1, LenProperties
<1>3. \A j \in DOMAIN u : \A i \in 1 .. j - 1 : u[i].kind = u[j].kind => u[i].n < u[j].n
  <2> TAKE j \in DOMAIN u
  <2> TAKE i \in 1 .. j - 1
  <2>1. CASE j <= Len(s)
    BY <1>1, <1>2, <2>1 DEF InOrder
  <2>2. CASE j > Len(s) /\ i <= Len(s)
    <3>1. i \in DOMAIN s /\ j - Len(s) \in DOMAIN t /\ u[i] = s[i] /\ u[j] = t[j - Len(s)]
      BY <1>1, <1>2, <2>2
    <3> QED
      BY <3>1 DEF Ahead
  <2>3. CASE i > Len(s)
    <3>1. /\ j - Len(s) \in DOMAIN t /\ i - Len(s) \in 1 .. (j - Len(s)) - 1
          /\ u[j] = t[j - Len(s)] /\ u[i] = t[i - Len(s)]
      BY <1>1, <1>2, <2>3
    <3> QED
      BY <3>1 DEF InOrder
  <2> QED
    BY <1>2, <2>1, <2>2, <2>3
<1> QED
  BY <1>3 DEF InOrder, u

LEMMA ConcatParts ==
  ASSUME NEW s \in Seq(Message), NEW t \in Seq(Message), NEW i \in DOMAIN (s \o t)
  PROVE  (\E j \in DOMAIN s : (s \o t)[i] = s[j]) \/ (\E j \in DOMAIN t : (s \o t)[i] = t[j])
<1>1. /\ s \o t \in Seq(Message) /\ Len(s \o t) = Len(s) + Len(t)
      /\ \A k \in 1 .. Len(s) + Len(t) :
           (s \o t)[k] = IF k <= Len(s) THEN s[k] ELSE t[k - Len(s)]
  BY ConcatProperties
<1>2. /\ DOMAIN s = 1 .. Len(s) /\ Len(s) \in Nat /\ DOMAIN t = 1 .. Len(t) /\ Len(t) \in Nat
      /\ DOMAIN (s \o t) = 1 .. Len(s) + Len(t)
  BY <1>1, LenProperties
<1>3. CASE i <= Len(s)
  BY <1>1, <1>2, <1>3
<1>4. CASE i > Len(s)
  <2>1. i - Len(s) \in DOMAIN t /\ (s \o t)[i] = t[i - Len(s)]
    BY <1>1, <1>2, <1>4
  <2> QED
    BY <2>1
<1> QED
  BY <1>2, <1>3, <1>4

LEMMA TailInOrder ==
  ASSUME NEW s \in Seq(Message), s # <<>>
  PROVE  /\ Head(s) = s[1] /\ 1 \in DOMAIN s /\ Tail(s) \in Seq(Message)
         /\ \A i \in DOMAIN Tail(s) : i + 1 \in DOMAIN s /\ Tail(s)[i] = s[i + 1]
         /\ InOrder(s) => /\ InOrder(Tail(s))
                          /\ \A i \in DOMAIN Tail(s) :
                               s[1].kind = Tail(s)[i].kind => s[1].n < Tail(s)[i].n
<1>1. /\ Tail(s) \in Seq(Message) /\ Len(Tail(s)) = Len(s) - 1
      /\ \A i \in 1 .. Len(Tail(s)) : Tail(s)[i] = s[i + 1]
  BY HeadTailProperties
<1>2. /\ DOMAIN s = 1 .. Len(s) /\ Len(s) \in Nat \ {0}
      /\ DOMAIN Tail(s) = 1 .. Len(s) - 1
  BY <1>1, EmptySeq, LenProperties
<1>3. \A i \in DOMAIN Tail(s) : i + 1 \in DOMAIN s /\ Tail(s)[i] = s[i + 1]
  BY <1>1, <1>2
<1>4. ASSUME InOrder(s)
      PROVE  /\ InOrder(Tail(s))
             /\ \A i \in DOMAIN Tail(s) : s[1].kind = Tail(s)[i].kind => s[1].n < Tail(s)[i].n
  <2>1. \A j \in 1 .. Len(s) - 1 : \A i \in 1 .. j - 1 : i + 1 \in 1 .. (j + 1) - 1
    BY <1>2
  <2>2. \A j \in 1 .. Len(s) - 1 : \A i \in 1 .. j - 1 : i \in DOMAIN Tail(s)
    BY <1>2
  <2>3. InOrder(Tail(s))
    BY <1>2, <1>3, <1>4, <2>1, <2>2 DEF InOrder
  <2>4. \A i \in DOMAIN Tail(s) : 1 \in 1 .. (i + 1) - 1
    BY <1>2
  <2> QED
    BY <1>3, <1>4, <2>3, <2>4 DEF InOrder
<1> QED
  BY <1>1, <1>2, <1>3, <1>4

\* Who touches what goes to the channel.
Says == IrcSay /\ UNCHANGED <<outbox, channel, links, answered>>

ForgetsAll == outbox' = <<>> /\ waiting' = <<>> /\ UNCHANGED <<channel, said, answered, links>>

LEMMA ChannelSteps ==
  ASSUME [Next]_vars
  PROVE  \/ Says \/ Connect \/ Answer \/ Take \/ Flush \/ ForgetsAll
         \/ UNCHANGED <<outbox, waiting, channel, said, answered, links>>
<1>1. CASE Repeat \/ AnnounceToIrc
  BY <1>1 DEF Repeat, AnnounceToIrc, Says, connection
<1>2. CASE Exit \/ Crash
  BY <1>2 DEF Exit, Crash, Ends, Fresh, ForgetsAll
<1>3. CASE Backlog \/ Poll \/ Execute \/ TellChat \/ StopsPolling
  BY <1>3 DEF Backlog, Poll, Execute, TellChat, StopsPolling, connection, chats
<1>4. CASE \/ LinkBreaks \/ JoinOrKick \/ TellGroup \/ PumpAgain \/ Quit \/ StopsConnecting
         \/ IrcServer
  BY <1>4 DEF LinkBreaks, JoinOrKick, TellGroup, PumpAgain, Quit, StopsConnecting, IrcServer,
     Stall, Unstall, chats
<1>5. CASE RoundBegins \/ Settle \/ Announce \/ RemoveNews \/ Watch \/ TellOwners \/ SaveWatch
           \/ StopsKeeping
  BY <1>5 DEF RoundBegins, Settle, Announce, RemoveNews, Watch, TellOwners, SaveWatch,
     StopsKeeping, connection, chats
<1>6. CASE Start \/ RequestStop \/ Send \/ DayPasses \/ UNCHANGED vars
  BY <1>6 DEF Start, RequestStop, Send, DayPasses, vars, connection, chats
<1> QED
  BY <1>1, <1>2, <1>3, <1>4, <1>5, <1>6 DEF Next, Main, MainStep, Irc, IrcStep, Keeper,
     KeeperStep

LEMMA EmptyWaits ==
  ASSUME waiting' = <<>>
  PROVE  Waits'
BY ConstantsOK DEF Waits, WaitingIsTheLatest

LEMMA WaitsKept ==
  ASSUME Types, Waits, [Next]_vars
  PROVE  Waits'
<1>1. waiting \in Seq(Message) /\ said \in Nat /\ links \in Nat /\ Len(waiting) <= Cap
  BY DEF Types, ChatsTypes, ConnectionTypes, Waits, WaitingIsTheLatest
<1>2. DOMAIN waiting = 1 .. Len(waiting) /\ Len(waiting) \in Nat
  BY <1>1, LenProperties
<1>3. CASE Says
  <2>1. CASE conf.irc = "off"
    BY <1>3, <2>1 DEF Says, IrcSay, Waits, WaitingIsTheLatest
  <2>2. CASE conf.irc # "off"
    <3> DEFINE m == [kind |-> "said", n |-> said + 1, link |-> links]
    <3>1. m \in Message /\ m.kind = "said" /\ m.n = said + 1 /\ m.link = links
      BY <1>1 DEF Message
    <3>2. said' = said + 1 /\ waiting' = Pushed(waiting, m) /\ links' = links
      BY <1>3, <2>2 DEF Says, IrcSay
    <3> HIDE DEF m
    <3>3. waiting' \in Seq(Message)
      BY <1>1, <3>1, <3>2, PushedIs
    <3>4. PICK lost \in {0, 1} :
            /\ lost <= Len(waiting)
            /\ Len(waiting') = Len(waiting) - lost + 1 /\ Len(waiting') <= Cap
            /\ \A i \in 1 .. Len(waiting) - lost : waiting'[i] = waiting[i + lost]
            /\ waiting'[Len(waiting) - lost + 1] = m
      BY <1>1, <3>1, <3>2, PushedIs
    <3>5. DOMAIN waiting' = 1 .. Len(waiting) - lost + 1
      BY <3>3, <3>4, LenProperties
    <3>6. ASSUME NEW i \in DOMAIN waiting'
          PROVE  /\ waiting'[i].n = said' - Len(waiting') + i
                 /\ waiting'[i].kind = "said" /\ waiting'[i].link = links'
      <4>1. CASE i = Len(waiting) - lost + 1
        BY <1>1, <1>2, <3>1, <3>2, <3>4, <4>1
      <4>2. CASE i # Len(waiting) - lost + 1
        <5>1. i \in 1 .. Len(waiting) - lost /\ i + lost \in DOMAIN waiting
          BY <1>2, <3>4, <3>5, <4>2
        <5>2. waiting'[i] = waiting[i + lost]
          BY <3>4, <5>1
        <5>3. /\ waiting[i + lost].n = said - Len(waiting) + (i + lost)
              /\ waiting[i + lost].kind = "said" /\ waiting[i + lost].link = links
          BY <5>1 DEF Waits, WaitingIsTheLatest
        <5> QED
          BY <1>1, <1>2, <3>2, <3>4, <5>1, <5>2, <5>3
      <4> QED
        BY <4>1, <4>2
    <3> QED
      BY <3>4, <3>6 DEF Waits, WaitingIsTheLatest
  <2> QED
    BY <2>1, <2>2
<1>4. CASE Connect \/ ForgetsAll
  BY <1>4, EmptyWaits DEF Connect, ForgetsAll, StartsClean
<1>5. CASE Answer \/ Flush \/ UNCHANGED <<outbox, waiting, channel, said, answered, links>>
  <2>1. UNCHANGED <<waiting, said, links>>
    BY <1>5 DEF Answer, Flush
  <2> QED
    BY <2>1 DEF Waits, WaitingIsTheLatest
<1>6. CASE Take
  <2>1. (waiting' = <<>> \/ waiting' = waiting) /\ UNCHANGED <<said, links>>
    BY <1>6 DEF Take, LeftAfterTaking
  <2> QED
    BY <2>1, EmptyWaits DEF Waits, WaitingIsTheLatest
<1> QED
  BY <1>3, <1>4, <1>5, <1>6, ChannelSteps

LEMMA SaysGoesInOrder ==
  ASSUME Types, Waits, GoesInOrder, Says
  PROVE  GoesInOrder'
<1>1. /\ waiting \in Seq(Message) /\ Len(waiting) <= Cap /\ said \in Nat /\ answered \in Nat
      /\ links \in Nat
      /\ outbox \in Seq(Message) /\ channel \in Seq(Message)
      /\ \A q \in {outbox, channel} : \A i \in DOMAIN q : q[i] \in Message
  BY LenProperties, ElementOfSeq DEF Types, ChatsTypes, ConnectionTypes, Waits,
     WaitingIsTheLatest
<1>2. UNCHANGED <<outbox, channel, answered>>
  BY DEF Says
<1>3. CASE conf.irc = "off"
  BY <1>2, <1>3 DEF Says, IrcSay, GoesInOrder, Numbered
<1>4. CASE conf.irc # "off"
  <2> DEFINE m == [kind |-> "said", n |-> said + 1, link |-> links]
  <2>1. m \in Message /\ m.kind = "said" /\ m.n = said + 1
    BY <1>1 DEF Message
  <2>2. said' = said + 1 /\ waiting' = Pushed(waiting, m)
    BY <1>4 DEF Says, IrcSay
  <2> HIDE DEF m
  <2>3. PICK lost \in {0, 1} :
          /\ waiting' \in Seq(Message)
          /\ lost <= Len(waiting)
          /\ Len(waiting') = Len(waiting) - lost + 1
          /\ \A i \in 1 .. Len(waiting) - lost : waiting'[i] = waiting[i + lost]
          /\ waiting'[Len(waiting) - lost + 1] = m
    BY <1>1, <2>1, <2>2, PushedIs, ZenonT(30)
  <2>4. /\ DOMAIN waiting' = 1 .. Len(waiting) - lost + 1
        /\ DOMAIN waiting = 1 .. Len(waiting) /\ Len(waiting) \in Nat
    BY <1>1, <2>3, LenProperties
  <2>5. \A j \in DOMAIN waiting' : waiting'[j] = m \/ \E k \in DOMAIN waiting : waiting'[j] = waiting[k]
    <3> TAKE j \in DOMAIN waiting'
    <3>1. CASE j = Len(waiting) - lost + 1
      BY <2>3, <3>1
    <3>2. CASE j # Len(waiting) - lost + 1
      <4>1. j + lost \in DOMAIN waiting /\ j \in 1 .. Len(waiting) - lost
        BY <2>3, <2>4, <3>2
      <4> QED
        BY <2>3, <4>1
    <3> QED
      BY <3>1, <3>2
  <2>6. ASSUME NEW q \in {outbox, channel}
        PROVE  /\ \A i \in DOMAIN q, j \in DOMAIN waiting' :
                    q[i].kind = waiting'[j].kind => q[i].n < waiting'[j].n
               /\ \A i \in DOMAIN q : q[i].n <= (IF q[i].kind = "said" THEN said' ELSE answered')
    <3>1. \A i \in DOMAIN q : q[i].n \in Nat
      BY <1>1 DEF Message
    <3>2. Ahead(q, waiting) /\ Numbered(q)
      BY DEF GoesInOrder
    <3>3. \A i \in DOMAIN q : q[i].kind = "said" => q[i].n <= said
      BY <3>2 DEF Numbered
    <3>4. \A i \in DOMAIN q : q[i].kind = m.kind => q[i].n < m.n
      BY <1>1, <2>1, <3>1, <3>3
    <3>5. \A i \in DOMAIN q : q[i].n <= (IF q[i].kind = "said" THEN said' ELSE answered')
      BY <1>1, <1>2, <2>2, <3>1, <3>2 DEF Numbered
    <3> QED
      BY <2>5, <3>2, <3>4, <3>5 DEF Ahead
  <2>7. InOrder(outbox)' /\ InOrder(channel)' /\ Ahead(channel, outbox)'
    BY <1>2 DEF GoesInOrder, InOrder, Ahead
  <2>8. Ahead(outbox, waiting)' /\ Ahead(channel, waiting)'
    BY <1>2, <2>6 DEF Ahead
  <2>9. Numbered(outbox)' /\ Numbered(channel)'
    BY <1>2, <2>6 DEF Numbered
  <2> QED
    BY <2>7, <2>8, <2>9 DEF GoesInOrder
<1> QED
  BY <1>3, <1>4

LEMMA AnswerGoesInOrder ==
  ASSUME Types, Waits, GoesInOrder, Answer
  PROVE  GoesInOrder'
<1> DEFINE m == [kind |-> "answer", n |-> answered + 1, link |-> links]
<1>1. /\ said \in Nat /\ answered \in Nat /\ links \in Nat
      /\ outbox \in Seq(Message) /\ channel \in Seq(Message)
      /\ \A q \in {outbox, channel} : \A i \in DOMAIN q : q[i] \in Message
  BY LenProperties, ElementOfSeq DEF Types, ChatsTypes, ConnectionTypes
<1>2. m \in Message /\ m.kind = "answer" /\ m.n = answered + 1
  BY <1>1 DEF Message
<1>3. /\ answered' = answered + 1 /\ outbox' = Append(outbox, m)
      /\ UNCHANGED <<waiting, said, channel>>
  BY DEF Answer
<1> HIDE DEF m
<1>4. \A q \in {outbox, channel} : \A i \in DOMAIN q : q[i].kind = m.kind => q[i].n < m.n
  <2> TAKE q \in {outbox, channel}
  <2> TAKE i \in DOMAIN q
  <2>1. q[i].n \in Nat /\ (q[i].kind = "answer" => q[i].n <= answered)
    BY <1>1 DEF Message, GoesInOrder, Numbered
  <2> QED
    BY <1>1, <1>2, <2>1
<1>5. \A j \in DOMAIN waiting : m.kind # waiting[j].kind
  BY <1>2 DEF Waits
<1>6. InOrder(outbox')
  BY <1>1, <1>2, <1>3, <1>4, AppendInOrder DEF GoesInOrder
<1>7. Ahead(outbox', waiting)
  BY <1>1, <1>2, <1>3, <1>5, AheadAppend DEF GoesInOrder
<1>8. Ahead(channel, outbox')
  BY <1>1, <1>2, <1>3, <1>4, AheadAppend DEF GoesInOrder
<1>9. \A q \in {outbox', channel} : \A i \in DOMAIN q :
        q[i].n <= (IF q[i].kind = "said" THEN said ELSE answered + 1)
  <2>1. \A q \in {outbox, channel} : \A i \in DOMAIN q :
          q[i].n <= (IF q[i].kind = "said" THEN said ELSE answered + 1)
    BY <1>1 DEF Message, GoesInOrder, Numbered
  <2>2. \A i \in DOMAIN outbox' : outbox'[i] = m \/ (i \in DOMAIN outbox /\ outbox'[i] = outbox[i])
    <3>1. \A i \in DOMAIN Append(outbox, m) :
            Append(outbox, m)[i] = m \/ (i \in DOMAIN outbox /\ Append(outbox, m)[i] = outbox[i])
      BY <1>1, <1>2, AppendParts, Zenon
    <3> QED
      BY <1>3, <3>1, Zenon
  <2> QED
    BY <1>1, <1>2, <2>1, <2>2
<1>10. InOrder(channel') /\ Ahead(channel', waiting')
  BY <1>3 DEF GoesInOrder
<1> QED
  BY <1>3, <1>6, <1>7, <1>8, <1>9, <1>10 DEF GoesInOrder, InOrder, Ahead, Numbered

LEMMA FlushGoesInOrder ==
  ASSUME Types, GoesInOrder, Flush
  PROVE  GoesInOrder'
<1>1. /\ outbox \in Seq(Message) /\ channel \in Seq(Message) /\ outbox # <<>>
      /\ outbox' = Tail(outbox)
      /\ channel' = channel \/ channel' = Append(channel, outbox[1])
      /\ UNCHANGED <<waiting, said, answered>>
  BY TailInOrder DEF Types, ChatsTypes, ConnectionTypes, Flush
<1>2. /\ 1 \in DOMAIN outbox /\ outbox' \in Seq(Message)
      /\ \A i \in DOMAIN outbox' : i + 1 \in DOMAIN outbox /\ outbox'[i] = outbox[i + 1]
      /\ InOrder(outbox')
      /\ \A i \in DOMAIN outbox' :
           outbox[1].kind = outbox'[i].kind => outbox[1].n < outbox'[i].n
  BY <1>1, TailInOrder DEF GoesInOrder
<1>3. outbox[1] \in Message
  BY <1>1, <1>2, ElementOfSeq, LenProperties
<1>4. Ahead(channel, outbox') /\ Ahead(outbox', waiting) /\ Numbered(outbox')
  BY <1>2 DEF GoesInOrder, Ahead, Numbered
<1>5. CASE channel' = channel
  BY <1>1, <1>2, <1>4, <1>5 DEF GoesInOrder, InOrder, Ahead, Numbered
<1>6. CASE channel' = Append(channel, outbox[1])
  <2>1. \A i \in DOMAIN channel : channel[i].kind = outbox[1].kind => channel[i].n < outbox[1].n
    BY <1>2 DEF GoesInOrder, Ahead
  <2>2. InOrder(channel')
    BY <1>1, <1>3, <1>6, <2>1, AppendInOrder DEF GoesInOrder
  <2>3. Ahead(channel', outbox')
    BY <1>1, <1>2, <1>3, <1>4, <1>6, AheadAppend
  <2>4. \A j \in DOMAIN waiting : outbox[1].kind = waiting[j].kind => outbox[1].n < waiting[j].n
    BY <1>2 DEF GoesInOrder, Ahead
  <2>5. Ahead(channel', waiting)
    BY <1>1, <1>3, <1>6, <2>4, AheadAppend DEF GoesInOrder
  <2>6. \A i \in DOMAIN channel' :
          channel'[i] = outbox[1] \/ (i \in DOMAIN channel /\ channel'[i] = channel[i])
    <3>1. \A i \in DOMAIN Append(channel, outbox[1]) :
            \/ Append(channel, outbox[1])[i] = outbox[1]
            \/ i \in DOMAIN channel /\ Append(channel, outbox[1])[i] = channel[i]
      BY <1>1, <1>3, AppendParts, Zenon
    <3> QED
      BY <1>6, <3>1, Zenon
  <2>7. Numbered(channel')
    BY <1>2, <2>6 DEF GoesInOrder, Numbered
  <2> QED
    BY <1>1, <1>2, <1>4, <2>2, <2>3, <2>5, <2>7 DEF GoesInOrder, InOrder, Ahead, Numbered
<1> QED
  BY <1>1, <1>5, <1>6

LEMMA TakeGoesInOrder ==
  ASSUME Types, Waits, GoesInOrder, Take
  PROVE  GoesInOrder'
<1>1. /\ outbox \in Seq(Message) /\ waiting \in Seq(Message) /\ said \in Nat
      /\ UNCHANGED <<channel, said, answered>>
  BY DEF Types, ChatsTypes, ConnectionTypes, Take
<1>2. CASE UNCHANGED <<outbox, waiting>>
  BY <1>1, <1>2 DEF GoesInOrder, InOrder, Ahead, Numbered
<1>3. CASE outbox' = outbox \o waiting /\ waiting' = <<>>
  <2>1. /\ DOMAIN waiting = 1 .. Len(waiting) /\ Len(waiting) \in Nat
        /\ \A i \in DOMAIN waiting : waiting[i].n = said - Len(waiting) + i
                                     /\ waiting[i].kind = "said"
    BY <1>1, LenProperties DEF Waits, WaitingIsTheLatest
  <2>2. InOrder(waiting)
    BY <1>1, <2>1 DEF InOrder
  <2>3. Numbered(waiting)
    BY <1>1, <2>1 DEF Numbered
  <2>4. InOrder(outbox')
    BY <1>1, <1>3, <2>2, ConcatInOrder DEF GoesInOrder
  <2>5. \A i \in DOMAIN outbox' : (\E j \in DOMAIN outbox : outbox'[i] = outbox[j])
                                  \/ (\E j \in DOMAIN waiting : outbox'[i] = waiting[j])
    BY <1>1, <1>3, ConcatParts
  <2>6. Ahead(channel, outbox')
    BY <2>5 DEF GoesInOrder, Ahead
  <2>7. Numbered(outbox')
    BY <2>3, <2>5 DEF GoesInOrder, Numbered
  <2>8. Ahead(outbox', <<>>) /\ Ahead(channel, <<>>)
    BY DEF Ahead
  <2> QED
    BY <1>1, <1>3, <2>4, <2>6, <2>7, <2>8 DEF GoesInOrder, InOrder, Ahead, Numbered
<1> QED
  BY <1>2, <1>3 DEF Take, LeftAfterTaking

LEMMA GoesInOrderKept ==
  ASSUME Types, Waits, GoesInOrder, [Next]_vars
  PROVE  GoesInOrder'
<1>1. CASE Connect \/ ForgetsAll
  <2>1. outbox' = <<>> /\ waiting' = <<>> /\ UNCHANGED <<channel, said, answered>>
    BY <1>1 DEF Connect, ForgetsAll, StartsClean
  <2> QED
    BY <2>1 DEF GoesInOrder, InOrder, Ahead, Numbered
<1>2. CASE UNCHANGED <<outbox, waiting, channel, said, answered, links>>
  BY <1>2 DEF GoesInOrder, InOrder, Ahead, Numbered
<1> QED
  BY <1>1, <1>2, ChannelSteps, SaysGoesInOrder, AnswerGoesInOrder, FlushGoesInOrder,
     TakeGoesInOrder

-----------------------------------------------------------------------------
(* The link, and what the group is told of the answers. *)

Linked == ircs \in {"read", "flush", "stuck", "quit"}

Occurs(m, s) == \E i \in DOMAIN s : s[i] = m

\* An answer put aside for the group is on its way to the channel, or has left for it.
Vouched ==
  /\ \A i \in DOMAIN answers : answers[i].kind = "answer"
  /\ Linked => \A i \in DOMAIN answers : Occurs(answers[i], outbox) \/ Occurs(answers[i], channel)

\* The steps that touch neither the queue, the answers nor the link, except to lose it.
LinkAlone ==
  UNCHANGED <<outbox, answers, links, channel, heard>> /\ (Linked' => Linked)

LEMMA LinkSteps ==
  ASSUME [Next]_vars
  PROVE  \/ Connect \/ Answer \/ Take \/ Flush \/ TellGroup \/ LinkAlone
         \/ outbox' = <<>> /\ answers' = <<>> /\ UNCHANGED <<channel, heard>>
<1>1. CASE Exit \/ Crash
  BY <1>1 DEF Exit, Crash, Ends, Fresh
<1>2. CASE Main
  BY <1>2 DEF Main, MainStep, Backlog, Poll, Execute, TellChat, Repeat, StopsPolling,
     connection, chats, LinkAlone, Linked
<1>3. CASE LinkBreaks \/ JoinOrKick \/ PumpAgain \/ Quit \/ StopsConnecting \/ IrcServer
  BY <1>3 DEF LinkBreaks, JoinOrKick, PumpAgain, Quit, StopsConnecting, IrcServer, Stall,
     Unstall, AfterPump, chats, LinkAlone, Linked
<1>4. CASE Keeper
  BY <1>4 DEF Keeper, KeeperStep, RoundBegins, Settle, Announce, AnnounceToIrc, RemoveNews,
     Watch, TellOwners, SaveWatch, StopsKeeping, connection, chats, LinkAlone, Linked
<1>5. CASE Start \/ RequestStop \/ Send \/ DayPasses \/ UNCHANGED vars
  BY <1>5 DEF Start, RequestStop, Send, DayPasses, vars, connection, chats, LinkAlone, Linked
<1> QED
  BY <1>1, <1>2, <1>3, <1>4, <1>5 DEF Next, Irc, IrcStep

LEMMA NothingOldKept ==
  ASSUME Types, Waits, NothingOldIsTold, [Next]_vars
  PROVE  NothingOldIsTold'
<1>1. outbox \in Seq(Message) /\ waiting \in Seq(Message)
  BY DEF Types, ChatsTypes, ConnectionTypes
<1>2. CASE Connect \/ outbox' = <<>>
  BY <1>2 DEF Connect, NothingOldIsTold
<1>3. CASE Answer
  <2>1. [kind |-> "answer", n |-> answered + 1, link |-> links] \in Message
    BY DEF Types, ChatsTypes, ConnectionTypes, Message
  <2>2. \A i \in DOMAIN outbox' :
          \/ outbox'[i] = [kind |-> "answer", n |-> answered + 1, link |-> links]
          \/ i \in DOMAIN outbox /\ outbox'[i] = outbox[i]
    BY <1>1, <1>3, <2>1, AppendParts, SMTT(30) DEF Answer
  <2> QED
    BY <1>3, <2>2 DEF Answer, NothingOldIsTold
<1>4. CASE Take
  <2>1. \A i \in DOMAIN outbox' : (\E j \in DOMAIN outbox : outbox'[i] = outbox[j])
                                  \/ (\E j \in DOMAIN waiting : outbox'[i] = waiting[j])
    <3>1. CASE outbox' = outbox
      BY <3>1, Zenon
    <3>2. CASE outbox' = outbox \o waiting
      <4>1. \A i \in DOMAIN (outbox \o waiting) :
              \/ \E j \in DOMAIN outbox : (outbox \o waiting)[i] = outbox[j]
              \/ \E j \in DOMAIN waiting : (outbox \o waiting)[i] = waiting[j]
        BY <1>1, ConcatParts
      <4> QED
        BY <3>2, <4>1, Zenon
    <3> QED
      BY <1>4, <3>1, <3>2 DEF Take
  <2> QED
    BY <1>4, <2>1 DEF Take, NothingOldIsTold, Waits
<1>5. CASE Flush
  <2>1. \A i \in DOMAIN outbox' : i + 1 \in DOMAIN outbox /\ outbox'[i] = outbox[i + 1]
    BY <1>1, <1>5, TailInOrder DEF Flush
  <2> QED
    BY <1>5, <2>1 DEF Flush, NothingOldIsTold
<1>6. CASE TellGroup
  BY <1>6 DEF TellGroup, NothingOldIsTold
<1>7. CASE LinkAlone
  BY <1>7 DEF LinkAlone, NothingOldIsTold, Linked
<1> QED
  BY <1>2, <1>3, <1>4, <1>5, <1>6, <1>7, LinkSteps

\* What has been heard, or is vouched for, stays so while the channel only gets longer.
LEMMA VouchedKept ==
  ASSUME Types, Vouched, GroupHearsAfterTheChannel, [Next]_vars
  PROVE  Vouched' /\ GroupHearsAfterTheChannel'
<1>1. /\ outbox \in Seq(Message) /\ answers \in Seq(Message) /\ channel \in Seq(Message)
      /\ waiting \in Seq(Message)
  BY DEF Types, ChatsTypes, ConnectionTypes
<1>2. CASE Connect \/ (answers' = <<>> /\ UNCHANGED <<channel, heard>>)
  <2>1. answers' = <<>> /\ UNCHANGED <<channel, heard>>
    BY <1>2 DEF Connect, Cleared
  <2> QED
    BY <2>1 DEF Vouched, GroupHearsAfterTheChannel
<1>3. CASE Answer
  <2> DEFINE m == [kind |-> "answer", n |-> answered + 1, link |-> links]
  <2>1. m \in Message /\ m.kind = "answer"
    BY DEF Types, ChatsTypes, ConnectionTypes, Message
  <2>2. /\ outbox' = Append(outbox, m) /\ answers' \in {answers, Append(answers, m)}
        /\ UNCHANGED <<ircs, channel, heard>>
    BY <1>3 DEF Answer
  <2> HIDE DEF m
  <2>3. \A i \in DOMAIN answers' :
          answers'[i] = m \/ (i \in DOMAIN answers /\ answers'[i] = answers[i])
    <3>1. \A i \in DOMAIN Append(answers, m) :
            \/ Append(answers, m)[i] = m
            \/ i \in DOMAIN answers /\ Append(answers, m)[i] = answers[i]
      BY <1>1, <2>1, AppendParts, Zenon
    <3>2. CASE answers' = answers
      BY <3>2, Zenon
    <3>3. CASE answers' = Append(answers, m)
      BY <3>1, <3>3, Zenon
    <3> QED
      BY <2>2, <3>2, <3>3
  <2>4. Occurs(m, outbox') /\ \A x : Occurs(x, outbox) => Occurs(x, outbox')
    BY <1>1, <2>1, <2>2, AppendParts, ZenonT(30) DEF Occurs
  <2>5. \A i \in DOMAIN answers' : answers'[i].kind = "answer"
    BY <2>1, <2>3 DEF Vouched
  <2>6. Linked' => \A i \in DOMAIN answers' :
                     Occurs(answers'[i], outbox') \/ Occurs(answers'[i], channel')
    BY <2>2, <2>3, <2>4 DEF Vouched, Linked
  <2> QED
    BY <2>2, <2>5, <2>6 DEF Vouched, GroupHearsAfterTheChannel
<1>4. CASE Take
  <2>1. \A x : Occurs(x, outbox) => Occurs(x, outbox')
    <3>1. CASE outbox' = outbox
      BY <3>1
    <3>2. CASE outbox' = outbox \o waiting
      <4>1. \A i \in DOMAIN outbox : i \in DOMAIN outbox' /\ outbox'[i] = outbox[i]
        BY <1>1, <3>2, ConcatProperties, LenProperties
      <4> QED
        BY <4>1 DEF Occurs
    <3> QED
      BY <1>4, <3>1, <3>2 DEF Take
  <2>2. Linked /\ UNCHANGED <<answers, channel, heard>>
    BY <1>4 DEF Take, Linked
  <2> QED
    BY <2>1, <2>2 DEF Vouched, GroupHearsAfterTheChannel
<1>5. CASE Flush
  <2>1. /\ outbox # <<>> /\ outbox' = Tail(outbox) /\ Linked
        /\ \/ channel' = Append(channel, Head(outbox)) 
           \/ channel' = channel /\ ~Linked'
        /\ UNCHANGED <<answers, heard>>
    BY <1>5 DEF Flush, Linked
  <2>2. CASE channel' = channel /\ ~Linked'
    BY <2>1, <2>2 DEF Vouched, GroupHearsAfterTheChannel
  <2>3. CASE channel' = Append(channel, Head(outbox))
    <3>1. Head(outbox) = outbox[1] /\ 1 \in DOMAIN outbox /\ Head(outbox) \in Message
      BY <1>1, <2>1, TailInOrder, HeadTailProperties
    <3>2. /\ \A i \in DOMAIN channel : i \in DOMAIN channel' /\ channel'[i] = channel[i]
          /\ Occurs(outbox[1], channel')
      <4>1. /\ \A i \in DOMAIN channel : /\ i \in DOMAIN Append(channel, outbox[1])
                                        /\ Append(channel, outbox[1])[i] = channel[i]
            /\ Occurs(outbox[1], Append(channel, outbox[1]))
        <5>1. outbox[1] \in Message
          BY <3>1
        <5>2. \E i \in DOMAIN Append(channel, outbox[1]) : Append(channel, outbox[1])[i] = outbox[1]
          BY <1>1, <5>1, AppendParts, Zenon
        <5>3. Occurs(outbox[1], Append(channel, outbox[1]))
          BY <5>2, Zenon DEF Occurs
        <5> QED
          BY <1>1, <5>1, <5>3, AppendParts, Zenon
      <4> QED
        BY <2>3, <3>1, <4>1, Zenon
    <3>3. \A x : Occurs(x, outbox) => Occurs(x, outbox') \/ x = outbox[1]
      <4>1. /\ Len(outbox) \in Nat /\ DOMAIN outbox = 1 .. Len(outbox)
            /\ DOMAIN outbox' = 1 .. Len(outbox) - 1
            /\ \A i \in 1 .. Len(outbox) - 1 : outbox'[i] = outbox[i + 1]
        BY <1>1, <2>1, HeadTailProperties, LenProperties
      <4>2. \A i \in DOMAIN outbox : i = 1 \/ (i - 1 \in DOMAIN outbox' /\ (i - 1) + 1 = i)
        BY <4>1
      <4> QED
        BY <4>1, <4>2 DEF Occurs
    <3>4. \A x : Occurs(x, channel) => Occurs(x, channel')
      BY <3>2 DEF Occurs
    <3>5. Vouched'
      BY <2>1, <3>2, <3>3, <3>4 DEF Vouched
    <3> QED
      BY <2>1, <3>2, <3>5 DEF GroupHearsAfterTheChannel
  <2> QED
    BY <2>1, <2>2, <2>3
<1>6. CASE TellGroup
  <2>1. /\ answers # <<>> /\ outbox = <<>> /\ Linked /\ answers' = Tail(answers)
        /\ heard' = heard \cup {Head(answers).n} /\ UNCHANGED <<outbox, channel, ircs>>
    BY <1>6 DEF TellGroup, Linked
  <2>2. /\ Head(answers) = answers[1] /\ 1 \in DOMAIN answers
        /\ \A i \in DOMAIN answers' : i + 1 \in DOMAIN answers /\ answers'[i] = answers[i + 1]
    BY <1>1, <2>1, TailInOrder
  <2>3. ~Occurs(answers[1], outbox)
    BY <2>1 DEF Occurs
  <2>4. Occurs(answers[1], channel) /\ answers[1].kind = "answer"
    BY <2>1, <2>2, <2>3 DEF Vouched
  <2>5. GroupHearsAfterTheChannel'
    BY <2>1, <2>2, <2>4 DEF GroupHearsAfterTheChannel, Occurs
  <2> QED
    BY <2>1, <2>2, <2>5 DEF Vouched, Linked
<1>7. CASE LinkAlone
  BY <1>7 DEF LinkAlone, Vouched, GroupHearsAfterTheChannel
<1>8. \/ Connect \/ Answer \/ Take \/ Flush \/ TellGroup \/ LinkAlone
      \/ answers' = <<>> /\ UNCHANGED <<channel, heard>>
  BY LinkSteps
<1> QED
  BY <1>2, <1>3, <1>4, <1>5, <1>6, <1>7, <1>8

-----------------------------------------------------------------------------
(* The sentinel. *)

\* What is remembered is what the owners were told.
Remembers(w) == w.day = owed.day /\ (owed.blocked => w.blocked)

\* Unless something was spoilt, memory has it at any time, and the file once it is saved.
Remembered ==
  ~spoilt => /\ Remembers(watch)
             /\ keeper \notin {"owners", "save"} => Remembers(file)

LEMMA RememberedKept ==
  ASSUME Types, Remembered, [Next]_vars
  PROVE  Remembered'
<1>1. CASE UNCHANGED sentinel /\ (keeper' \in {"owners", "save"} \/ keeper \notin {"owners", "save"})
  BY <1>1 DEF Remembered, Remembers, sentinel
<1>2. CASE Backlog \/ Poll \/ TellChat \/ Repeat \/ StopsPolling \/ Irc \/ IrcServer \/ Start \/ RequestStop
           \/ Send \/ UNCHANGED vars
  <2>1. UNCHANGED <<sentinel, keeper>>
    BY <1>2 DEF Backlog, Poll, TellChat, Repeat, StopsPolling, Irc,
       IrcStep, Connect, LinkBreaks, JoinOrKick, Answer, Take, Flush, TellGroup, PumpAgain,
       StopsConnecting, Quit, IrcServer, Stall, Unstall, Start, RequestStop, Send, vars, keeping
  <2> QED
    BY <2>1 DEF Remembered, Remembers, sentinel
<1>3. CASE Execute
  <2>1. CASE UNCHANGED sentinel
    <3>1. UNCHANGED keeper
      BY <1>3 DEF Execute, keeping
    <3> QED
      BY <2>1, <3>1 DEF Remembered, Remembers, sentinel
  <2>2. CASE LetIn
    <3>1. UNCHANGED keeper
      BY <1>3 DEF Execute, keeping
    <3>2. /\ watch'.day = watch.day /\ owed'.day = owed.day /\ owed'.blocked = FALSE
          /\ UNCHANGED <<file, spoilt>>
      BY <2>2 DEF LetIn, Types, SentinelTypes
    <3> QED
      BY <3>1, <3>2 DEF Remembered, Remembers
  <2> QED
    BY <1>3, <2>1, <2>2 DEF Execute
<1>4. CASE RoundBegins \/ Settle \/ Announce \/ AnnounceToIrc \/ RemoveNews \/ TellOwners
           \/ StopsKeeping
  <2>1. UNCHANGED sentinel
    BY <1>4 DEF RoundBegins, Settle, Announce, AnnounceToIrc, RemoveNews, TellOwners,
       StopsKeeping
  <2>2. keeper' \in {"owners", "save"} \/ keeper \notin {"owners", "save"}
    BY <1>4 DEF RoundBegins, Settle, Announce, AnnounceToIrc, RemoveNews, TellOwners,
       StopsKeeping, AfterTelling
  <2> QED
    BY <1>1, <2>1, <2>2
<1>5. CASE Watch
  <2>1. CASE owed' = watch' /\ keeper' = "owners"
    BY <2>1 DEF Remembered, Remembers
  <2>2. CASE spoilt' = TRUE
    BY <2>2 DEF Remembered
  <2>3. CASE UNCHANGED <<watch, owed, spoilt>>
    <3>1. keeper = "watch" /\ UNCHANGED file
      BY <1>5 DEF Watch
    <3> QED
      BY <2>3, <3>1 DEF Remembered, Remembers
  <2> QED
    BY <1>5, <2>1, <2>2, <2>3 DEF Watch
<1>6. CASE SaveWatch
  <2>1. UNCHANGED <<watch, owed>>
    BY <1>6 DEF SaveWatch
  <2>2. CASE file' = watch /\ UNCHANGED spoilt
    BY <2>1, <2>2 DEF Remembered, Remembers
  <2>3. CASE spoilt' = TRUE
    BY <2>3 DEF Remembered
  <2> QED
    BY <1>6, <2>2, <2>3 DEF SaveWatch
<1>7. CASE DayPasses
  <2>1. /\ watch'.day = watch.day /\ owed'.day = owed.day /\ file'.day = file.day
        /\ owed'.blocked = FALSE /\ UNCHANGED <<spoilt, keeper>>
    BY <1>7 DEF DayPasses, Types, SentinelTypes, keeping
  <2> QED
    BY <2>1 DEF Remembered, Remembers
<1>8. CASE Exit \/ Crash
  <2>1. Ends
    BY <1>8 DEF Exit, Crash
  <2>2. watch' = file /\ UNCHANGED <<file, owed>>
    BY <2>1 DEF Ends
  <2>3. ~spoilt' => ~spoilt /\ keeper \notin {"owners", "save"}
    BY <2>1 DEF Ends
  <2> QED
    BY <2>2, <2>3 DEF Remembered, Remembers
<1> QED
  BY <1>2, <1>3, <1>4, <1>5, <1>6, <1>7, <1>8 DEF Next, Main, MainStep, Keeper, KeeperStep

-----------------------------------------------------------------------------
(* The theorems. *)

Inv ==
  /\ Types /\ RoundGoesOn /\ PollsOn /\ Waits /\ NothingOldIsTold /\ GoesInOrder
  /\ Vouched /\ GroupHearsAfterTheChannel /\ Remembered

LEMMA InitInv == Init => Inv
<1> SUFFICES ASSUME Init PROVE Inv
  OBVIOUS
<1>1. Types /\ PollsOn
  BY InitTypes, InitPollsOn
<1>2. RoundGoesOn
  BY DEF Init, RoundGoesOn
<1>3. outbox = <<>> /\ waiting = <<>> /\ answers = <<>> /\ channel = <<>> /\ heard = {}
  BY DEF Init
<1>4. Waits
  BY <1>3, ConstantsOK DEF Waits, WaitingIsTheLatest
<1>5. NothingOldIsTold /\ Vouched /\ GroupHearsAfterTheChannel
  BY <1>3 DEF NothingOldIsTold, Vouched, GroupHearsAfterTheChannel
<1>6. GoesInOrder
  BY <1>3 DEF GoesInOrder, InOrder, Ahead, Numbered
<1>7. Remembered
  BY DEF Init, Remembered, Remembers
<1> QED
  BY <1>1, <1>2, <1>4, <1>5, <1>6, <1>7 DEF Inv

LEMMA NextInv == Inv /\ [Next]_vars => Inv'
<1> SUFFICES ASSUME Inv, [Next]_vars PROVE Inv'
  OBVIOUS
<1> USE DEF Inv
<1>1. Types'
  BY TypesKept DEF Waits, WaitingIsTheLatest, PollsOn, RoundGoesOn
<1> QED
  BY <1>1, RoundGoesOnKept, PollsOnKept, WaitsKept, NothingOldKept, GoesInOrderKept,
     VouchedKept, RememberedKept

LEMMA Invariant == Spec => []Inv
BY InitInv, NextInv, PTL DEF Spec

\* The variables keep their types, whatever fails and however often it is started.
THEOREM TypesHold == Spec => []TypeOK
<1>1. Inv => TypeOK
  BY TypesAreTypeOK DEF Inv
<1> QED
  BY <1>1, Invariant, PTL

\* irc_say: the queue for the channel holds the latest of what was said, in order, none
\* missing, and never more than max_waiting_replies.
THEOREM LatestWait == Spec => []WaitingIsTheLatest
<1>1. Inv => WaitingIsTheLatest
  BY DEF Inv, Waits
<1> QED
  BY <1>1, Invariant, PTL

\* irc_run: a new link starts with nothing of the one before.
THEOREM NothingOld == Spec => []NothingOldIsTold
<1>1. Inv => NothingOldIsTold
  BY DEF Inv
<1> QED
  BY <1>1, Invariant, PTL

\* take_waiting_replies and flush: the channel hears everything in order and once.
THEOREM HeardInOrder == Spec => []ChannelHearsInOrder
<1>1. Inv => ChannelHearsInOrder
  BY DEF Inv, GoesInOrder, InOrder, ChannelHearsInOrder
<1> QED
  BY <1>1, Invariant, PTL

\* send_answers_to_telegram: the group hears of an answer once the channel has it.
THEOREM GroupAfterChannel == Spec => []GroupHearsAfterTheChannel
<1>1. Inv => GroupHearsAfterTheChannel
  BY DEF Inv
<1> QED
  BY <1>1, Invariant, PTL

\* sentinel_round and Sentinel::save: what the owners were told is remembered.
THEOREM TheSentinelRemembers == Spec => []SentinelRemembers
<1>1. Inv => SentinelRemembers
  BY DEF Inv, Remembered, Remembers, SentinelRemembers
<1> QED
  BY <1>1, Invariant, PTL

\* The updates a process executes come after those from before its start, and each after
\* the ones already executed.
THEOREM OldUpdatesLeftAlone == Spec => OldUpdatesAreLeftAlone
<1>1. ASSUME Inv, [Next]_vars, ran' # ran /\ ~full
      PROVE  LET u == ran'[Len(ran')] IN u > before /\ \A i \in DOMAIN ran : ran[i] < u
  <2>1. Execute
    <3>1. CASE Main
      BY <1>1, <3>1 DEF Main, MainStep, Backlog, Poll, TellChat, Repeat, StopsPolling, chats
    <3>2. CASE Irc \/ IrcServer
      BY <1>1, <3>2 DEF Irc, IrcStep, Connect, LinkBreaks, JoinOrKick, Answer, Take, Flush,
         TellGroup, PumpAgain, Quit, StopsConnecting, IrcServer, Stall, Unstall, chats
    <3>3. CASE Keeper
      BY <1>1, <3>3 DEF Keeper, KeeperStep, RoundBegins, Settle, Announce, AnnounceToIrc,
         RemoveNews, Watch, TellOwners, SaveWatch, StopsKeeping, chats
    <3>4. CASE Start \/ RequestStop \/ Send \/ DayPasses \/ Exit \/ Crash \/ UNCHANGED vars
      BY <1>1, <3>4 DEF Start, RequestStop, Send, DayPasses, Exit, Crash, Ends, vars, chats
    <3> QED
      BY <1>1, <3>1, <3>2, <3>3, <3>4 DEF Next
  <2>2. ran' = Append(ran, Head(batch)) /\ Head(batch) = Done + 1
    BY <1>1, <2>1, ExecutePollsOn DEF Inv
  <2>3. before <= Done /\ \A i \in DOMAIN ran : ran[i] <= Done
    BY <1>1, <2>1 DEF Inv, PollsOn, Polling, Execute
  <2>4. /\ ran \in Seq(1 .. sent) /\ before \in Nat /\ Done \in Int
        /\ batch \in Seq(1 .. sent) /\ batch # <<>>
    BY <1>1, <2>1 DEF Inv, Types, ChatsTypes, PollerTypes, TelegramTypes, Done, Execute
  <2>5. /\ Len(Append(ran, Head(batch))) = Len(ran) + 1
        /\ Append(ran, Head(batch))[Len(ran) + 1] = Head(batch)
    BY <2>4, HeadTailProperties, AppendProperties
  <2>6. ran'[Len(ran')] = Done + 1
    BY <2>2, <2>5
  <2>7. \A i \in DOMAIN ran : ran[i] \in Int
    <3>1. ran \in [1 .. Len(ran) -> 1 .. sent]
      BY <2>4, LenProperties
    <3>2. 1 .. sent \subseteq Int
      OBVIOUS
    <3> QED
      BY <3>1, <3>2
  <2> QED
    BY <2>3, <2>4, <2>6, <2>7
<1>2. Inv /\ [Next]_vars =>
        [ran' # ran /\ ~full =>
           LET u == ran'[Len(ran')] IN u > before /\ \A i \in DOMAIN ran : ran[i] < u]_vars
  BY <1>1
<1> QED
  BY <1>2, Invariant, PTL DEF Spec, OldUpdatesAreLeftAlone

\* announce_news: the file is removed only by a process that has told the group what it
\* says, or has tried and could not.
THEOREM NewsIsTried == Spec => NewsGoesOnceTried
<1>1. ASSUME Inv, [Next]_vars, news, ~news'
      PROVE  newsTold # "untold"
  <2>1. RemoveNews
    <3>1. CASE Main \/ Irc \/ IrcServer
      BY <1>1, <3>1 DEF Main, MainStep, Backlog, Poll, Execute, TellChat, Repeat, StopsPolling,
         Irc, IrcStep, Connect, LinkBreaks, JoinOrKick, Answer, Take, Flush, TellGroup,
         PumpAgain, Quit, StopsConnecting, IrcServer, Stall, Unstall, keeping
    <3>2. CASE Keeper
      BY <1>1, <3>2 DEF Keeper, KeeperStep, RoundBegins, Settle, Announce, AnnounceToIrc,
         Watch, TellOwners, SaveWatch, StopsKeeping
    <3>3. CASE Start \/ RequestStop \/ Send \/ DayPasses \/ Exit \/ Crash \/ UNCHANGED vars
      BY <1>1, <3>3 DEF Start, RequestStop, Send, DayPasses, Exit, Crash, Ends, vars, keeping
    <3> QED
      BY <1>1, <3>1, <3>2, <3>3 DEF Next
  <2> QED
    BY <1>1, <2>1 DEF RemoveNews, Inv, RoundGoesOn
<1>2. Inv /\ [Next]_vars => [news /\ ~news' => newsTold # "untold"]_vars
  BY <1>1
<1> QED
  BY <1>2, Invariant, PTL DEF Spec, NewsGoesOnceTried

=============================================================================
