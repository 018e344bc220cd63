-------------------------- MODULE IrcSessionProofs --------------------------
(***************************************************************************)
(* That nobody is answered from IRC but on NickServ's word, that a WHOIS is *)
(* in flight only for whoever waits, and that nobody is told to register    *)
(* too often: for any nicks, times and bounds, however late the server is   *)
(* and however often the link drops.                                        *)
(***************************************************************************)
EXTENDS IrcSession, FiniteSetTheorems, FunctionTheorems, SequenceTheorems, TLAPS

-----------------------------------------------------------------------------
(* Sequences that keep some of their places. *)

Rank(places) == [p \in places |-> Cardinality({q \in places : q <= p})]

\* No two of the places kept come at the same place of what is left.
LEMMA Ranks ==
  ASSUME NEW n \in Nat, NEW places \in SUBSET (1 .. n)
  PROVE  /\ IsFiniteSet(places) /\ Cardinality(places) \in Nat
         /\ Rank(places) \in [places -> 1 .. Cardinality(places)]
         /\ \A p, q \in places : Rank(places)[p] = Rank(places)[q] => p = q
         /\ \A i \in 1 .. Cardinality(places) : \E p \in places : Rank(places)[p] = i
<1> DEFINE upTo(p) == {q \in places : q <= p}
           c == Cardinality(places)
           rank == Rank(places)
<1>1. IsFiniteSet(places) /\ c \in Nat
  <2>1. IsFiniteSet(1 .. n)
    BY FS_Interval
  <2> QED
    BY <2>1, FS_Subset, FS_CardinalityType
<1>2. \A p \in places : rank[p] = Cardinality(upTo(p))
  BY DEF Rank
<1>3. ASSUME NEW p \in places
      PROVE  IsFiniteSet(upTo(p)) /\ Cardinality(upTo(p)) \in 1 .. c
  <2>1. upTo(p) \in SUBSET places /\ p \in upTo(p)
    OBVIOUS
  <2> HIDE DEF upTo
  <2>2. IsFiniteSet(upTo(p)) /\ Cardinality(upTo(p)) <= c
    BY <1>1, <2>1, FS_Subset
  <2>3. Cardinality(upTo(p)) \in Nat /\ Cardinality(upTo(p)) # 0
    BY <2>1, <2>2, FS_CardinalityType, FS_EmptySet
  <2> QED
    BY <1>1, <2>2, <2>3
<1>4. ASSUME NEW p \in places, NEW q \in places, p < q
      PROVE  Cardinality(upTo(p)) # Cardinality(upTo(q))
  <2>1. upTo(p) \in SUBSET upTo(q) /\ upTo(p) # upTo(q)
    <3>1. q \in upTo(q) /\ q \notin upTo(p)
      BY <1>4
    <3>2. ASSUME NEW r \in places, r <= p PROVE r <= q
      <4>1. r \in Int /\ p \in Int /\ q \in Int
        OBVIOUS
      <4> QED
        BY <1>4, <3>2, <4>1
    <3> QED
      BY <3>1, <3>2
  <2>2. IsFiniteSet(upTo(q))
    BY <1>3
  <2> HIDE DEF upTo
  <2> QED
    BY <2>1, <2>2, FS_Subset
<1>5. rank \in [places -> 1 .. c]
  BY <1>2, <1>3 DEF Rank
<1> HIDE DEF rank
<1>6. \A p, q \in places : rank[p] = rank[q] => p = q
  <2> SUFFICES ASSUME NEW p \in places, NEW q \in places, p # q PROVE rank[p] # rank[q]
    OBVIOUS
  <2>1. p < q \/ q < p
    OBVIOUS
  <2> QED
    BY <1>2, <1>4, <2>1
<1>7. \A i \in 1 .. c : \E p \in places : rank[p] = i
  <2> HIDE DEF c
  <2>1. rank \in Injection(places, 1 .. c)
    BY <1>5, <1>6 DEF Injection, IsInjective
  <2>2. IsFiniteSet(1 .. c) /\ Cardinality(1 .. c) = c
    <3>1. (IF 1 > c THEN 0 ELSE c - 1 + 1) = c
      BY <1>1 DEF c
    <3>2. c \in Int
      BY <1>1 DEF c
    <3> QED
      BY <3>1, <3>2, FS_Interval
  <2>3. rank \in Surjection(places, 1 .. c)
    BY <2>1, <2>2, FS_Injection DEF c
  <2> QED
    BY <2>3 DEF Surjection
<1> QED
  BY <1>1, <1>5, <1>6, <1>7 DEF rank

\* What is left is what was at the places kept, no more and no less.
LEMMA KeptIs ==
  ASSUME NEW S, NEW s \in Seq(S), NEW places \in SUBSET DOMAIN s
  PROVE  /\ Kept(s, places) \in Seq(S)
         /\ \A i \in DOMAIN Kept(s, places) : \E p \in places : Kept(s, places)[i] = s[p]
         /\ \A p \in places : \E i \in DOMAIN Kept(s, places) : Kept(s, places)[i] = s[p]
<1> DEFINE rank == Rank(places)
           c == Cardinality(places)
           at(i) == CHOOSE p \in places : Cardinality({q \in places : q <= p}) = i
<1>1. /\ c \in Nat /\ rank \in [places -> 1 .. c]
      /\ \A p, q \in places : rank[p] = rank[q] => p = q
      /\ \A i \in 1 .. c : \E p \in places : rank[p] = i
  <2>1. Len(s) \in Nat /\ DOMAIN s = 1 .. Len(s)
    BY LenProperties
  <2> QED
    BY <2>1, Ranks
<1>2. \A p \in places : rank[p] = Cardinality({q \in places : q <= p})
  BY DEF Rank
<1>3. Kept(s, places) = [i \in 1 .. c |-> s[at(i)]]
  BY DEF Kept
<1>4. ASSUME NEW i \in 1 .. c PROVE at(i) \in places /\ rank[at(i)] = i
  BY <1>1, <1>2
<1> HIDE DEF rank, c, at
<1>5. \A i \in 1 .. c : s[at(i)] \in S
  BY <1>4
<1>6. Kept(s, places) \in Seq(S)
  <2>1. Kept(s, places) \in [1 .. c -> S]
    BY <1>3, <1>5
  <2> QED
    BY <1>1, <2>1
<1>7. DOMAIN Kept(s, places) = 1 .. c /\ \A i \in 1 .. c : Kept(s, places)[i] = s[at(i)]
  BY <1>3
<1>8. ASSUME NEW p \in places PROVE \E i \in 1 .. c : Kept(s, places)[i] = s[p]
  <2>1. rank[p] \in 1 .. c
    BY <1>1
  <2>2. at(rank[p]) = p
    BY <1>1, <1>4, <2>1
  <2> QED
    BY <1>7, <2>1, <2>2
<1> QED
  BY <1>4, <1>6, <1>7, <1>8

-----------------------------------------------------------------------------
(* Types, a group of variables at a time. *)

Entry == [registered : BOOLEAN, expires : Nat, told : Nat]

MemoryTypes ==
  /\ DOMAIN registrations \subseteq Nicks
  /\ registrations \in [DOMAIN registrations -> Entry]
  /\ \A n \in DOMAIN registrations :
       registrations[n].expires <= now + RegistrationSeconds /\ registrations[n].told <= now

Waiter == [nick : Nicks, id : 1 .. MaxSaid, deadline : Nat]

WaitingTypes ==
  waiting \in Seq(Waiter) /\ \A i \in DOMAIN waiting : waiting[i].deadline <= now + WhoisSeconds

AskedTypes == DOMAIN asked \subseteq Nicks /\ asked \in [DOMAIN asked -> BOOLEAN]

\* The session starts on a clock that is past the first registration_seconds.
TimeTypes == now \in Nat /\ now >= RegistrationSeconds

Said == [to : Nicks, says : {"answer"}, id : 1 .. MaxSaid] \cup [to : Nicks, says : {"register"}]

StreamTypes == stream \in Seq(Line) /\ whois \in Seq(Nicks)

CountTypes == said \in 0 .. MaxSaid /\ left \in 0 .. MaxLeft /\ lost \in 0 .. MaxLost

HistoryTypes ==
  /\ vouched \in [Nicks -> Nat \cup {Never}] /\ toldAt \in [Nicks -> Nat \cup {Never}]
  /\ \A n \in Nicks : /\ vouched[n] # Never => vouched[n] <= now
                      /\ toldAt[n] # Never => toldAt[n] <= now

Types ==
  /\ TimeTypes /\ MemoryTypes /\ WaitingTypes /\ AskedTypes /\ lines \in Seq(Said)
  /\ StreamTypes /\ CountTypes /\ HistoryTypes

LEMMA TypesAreTypeOK == Types => TypeOK
<1> SUFFICES ASSUME Types PROVE TypeOK
  OBVIOUS
<1> USE DEF Types
<1>1. now \in Nat /\ RegistrationSeconds \in Nat /\ WhoisSeconds \in Nat
  BY IrcSessionOK DEF TimeTypes
<1>2. registrations \in [DOMAIN registrations ->
                          [registered : BOOLEAN, expires : 0 .. now + RegistrationSeconds,
                           told : 0 .. now]]
  <2>1. \A n \in DOMAIN registrations :
          registrations[n] \in [registered : BOOLEAN, expires : 0 .. now + RegistrationSeconds,
                                told : 0 .. now]
    BY <1>1 DEF MemoryTypes, Entry
  <2>2. registrations \in [DOMAIN registrations -> Entry]
    BY DEF MemoryTypes
  <2> QED
    BY <2>1, <2>2
<1>3. waiting \in Seq([nick : Nicks, id : 1 .. MaxSaid, deadline : 0 .. now + WhoisSeconds])
  <2> DEFINE W == [nick : Nicks, id : 1 .. MaxSaid, deadline : 0 .. now + WhoisSeconds]
  <2>1. /\ Len(waiting) \in Nat /\ DOMAIN waiting = 1 .. Len(waiting)
        /\ waiting \in [1 .. Len(waiting) -> Waiter]
    BY LenProperties DEF WaitingTypes
  <2>2. \A i \in 1 .. Len(waiting) : waiting[i] \in W
    BY <1>1, <2>1, SMTT(30) DEF WaitingTypes, Waiter
  <2> HIDE DEF W
  <2>3. waiting \in [1 .. Len(waiting) -> W]
    BY <2>1, <2>2
  <2>4. waiting \in Seq(W)
    BY <2>1, <2>3
  <2> QED
    BY <2>4 DEF W
<1>4. /\ vouched \in [Nicks -> (0 .. now) \cup {Never}]
      /\ toldAt \in [Nicks -> (0 .. now) \cup {Never}]
  <2>1. \A n \in Nicks : vouched[n] \in (0 .. now) \cup {Never}
    BY <1>1 DEF HistoryTypes
  <2>2. \A n \in Nicks : toldAt[n] \in (0 .. now) \cup {Never}
    BY <1>1 DEF HistoryTypes
  <2> QED
    BY <2>1, <2>2 DEF HistoryTypes
<1>5. lines \in Seq([to : Nicks, says : {"answer"}, id : 1 .. MaxSaid]
                    \cup [to : Nicks, says : {"register"}])
  BY DEF Said
<1> QED
  BY <1>1, <1>2, <1>3, <1>4, <1>5 DEF TypeOK, MemoryTypes, AskedTypes, StreamTypes, CountTypes

LEMMA Constants ==
  /\ RegistrationSeconds \in Nat /\ RegistrationSeconds > 0
  /\ WhoisSeconds \in Nat /\ WhoisSeconds > 0
  /\ Never \notin Int /\ MaxSaid \in Nat
BY IrcSessionOK

\* What a line of each kind is made of.
LEMMA LineIs ==
  ASSUME NEW l \in Line
  PROVE  /\ l.of \in Nicks
         /\ l.is = "command" => l.id \in 1 .. MaxSaid
         /\ l.is = "kicked" => l.by \in Nicks
         /\ l.is = "end" => l = [is |-> "end", of |-> l.of, vouches |-> l.vouches]
                            /\ l.vouches \in BOOLEAN
<1>1. CASE l \in [is : {"command"}, of : Nicks, id : 1 .. MaxSaid]
  BY <1>1
<1>2. CASE l \in [is : {"vouched", "unknown", "left"}, of : Nicks]
  BY <1>2
<1>3. CASE l \in [is : {"end"}, of : Nicks, vouches : BOOLEAN]
  BY <1>3
<1>4. CASE l \in [is : {"kicked"}, of : Nicks, by : Nicks]
  BY <1>4
<1> QED
  BY <1>1, <1>2, <1>3, <1>4 DEF Line

LEMMA AreLines ==
  ASSUME NEW n \in Nicks
  PROVE  /\ \A i \in 1 .. MaxSaid : [is |-> "command", of |-> n, id |-> i] \in Line
         /\ [is |-> "vouched", of |-> n] \in Line /\ [is |-> "unknown", of |-> n] \in Line
         /\ [is |-> "left", of |-> n] \in Line
         /\ \A by \in Nicks : [is |-> "kicked", of |-> n, by |-> by] \in Line
         /\ \A v \in BOOLEAN : [is |-> "end", of |-> n, vouches |-> v] \in Line
BY DEF Line

LEMMA HeadIs ==
  ASSUME StreamTypes, NEW kind, NEW n, Reading(kind, n)
  PROVE  /\ stream # <<>> /\ Head(stream) \in Line /\ Head(stream) = stream[1]
         /\ Head(stream).is = kind /\ Head(stream).of = n /\ n \in Nicks
         /\ Tail(stream) \in Seq(Line)
<1>1. stream # <<>> /\ Head(stream).is = kind /\ Head(stream).of = n
  BY DEF Reading
<1>2. Head(stream) \in Line /\ Tail(stream) \in Seq(Line) /\ Head(stream) = stream[1]
  BY <1>1, HeadTailProperties DEF StreamTypes
<1> QED
  BY <1>1, <1>2, LineIs

-----------------------------------------------------------------------------
(* What is known, and from where. *)

EndOf(n, vouches) == [is |-> "end", of |-> n, vouches |-> vouches]

\* Whatever vouches for a nick comes right before the end of the same WHOIS.
PairedTo(s, l) ==
  \A i \in 1 .. l : s[i].is = "vouched" => i + 1 \in 1 .. l /\ s[i + 1] = EndOf(s[i].of, TRUE)

Paired(s) == PairedTo(s, Len(s))

\* A nick is vouched for in the middle of a WHOIS only as its end is what comes next, and
\* the end says the same: the server's reply comes in one piece.
Backed ==
  /\ \A n \in DOMAIN asked : asked[n] => stream # <<>> /\ Head(stream) = EndOf(n, TRUE)
  /\ Paired(stream)

\* Who is remembered as registered was vouched for as his time began, or later.
VouchedFor ==
  \A n \in DOMAIN registrations : registrations[n].registered =>
    vouched[n] # Never /\ registrations[n].expires <= vouched[n] + RegistrationSeconds

\* Who is remembered as not registered was told so as his time began: he may not be told
\* again before it ends.
ToldAsItBegan ==
  \A n \in DOMAIN registrations :
    LET entry == registrations[n] IN
    /\ entry.told + RegistrationSeconds <= entry.expires
    /\ ~entry.registered => entry.told + RegistrationSeconds = entry.expires

\* Who was told lately is remembered.
ToldIsRemembered ==
  \A n \in Nicks : toldAt[n] # Never =>
    \/ toldAt[n] + RegistrationSeconds <= now
    \/ /\ n \in DOMAIN registrations
       /\ toldAt[n] + RegistrationSeconds <= registrations[n].expires

Inv ==
  /\ Types
  /\ AskedIsAwaited /\ NobodyIsOvertaken
  /\ Backed /\ VouchedFor /\ ToldAsItBegan /\ ToldIsRemembered

LEMMA Stays ==
  /\ MemoryTypes /\ UNCHANGED <<now, registrations>> => MemoryTypes'
  /\ WaitingTypes /\ UNCHANGED <<now, waiting>> => WaitingTypes'
  /\ AskedTypes /\ UNCHANGED asked => AskedTypes'
  /\ TimeTypes /\ UNCHANGED now => TimeTypes'
  /\ StreamTypes /\ UNCHANGED server => StreamTypes'
  /\ CountTypes /\ UNCHANGED counts => CountTypes'
  /\ HistoryTypes /\ UNCHANGED <<now, history>> => HistoryTypes'
  /\ AskedIsAwaited /\ UNCHANGED <<asked, waiting>> => AskedIsAwaited'
  /\ NobodyIsOvertaken /\ UNCHANGED <<now, registrations, waiting>> => NobodyIsOvertaken'
  /\ Backed /\ UNCHANGED <<asked, stream>> => Backed'
  /\ VouchedFor /\ UNCHANGED <<registrations, vouched>> => VouchedFor'
  /\ ToldAsItBegan /\ UNCHANGED registrations => ToldAsItBegan'
  /\ ToldIsRemembered /\ UNCHANGED <<now, registrations, toldAt>> => ToldIsRemembered'
<1>1. MemoryTypes /\ UNCHANGED <<now, registrations>> => MemoryTypes'
  BY DEF MemoryTypes
<1>2. WaitingTypes /\ UNCHANGED <<now, waiting>> => WaitingTypes'
  BY DEF WaitingTypes
<1>3. AskedTypes /\ UNCHANGED asked => AskedTypes'
  BY DEF AskedTypes
<1>4. TimeTypes /\ UNCHANGED now => TimeTypes'
  BY DEF TimeTypes
<1>5. StreamTypes /\ UNCHANGED server => StreamTypes'
  BY DEF StreamTypes, server
<1>6. CountTypes /\ UNCHANGED counts => CountTypes'
  BY DEF CountTypes, counts
<1>7. HistoryTypes /\ UNCHANGED <<now, history>> => HistoryTypes'
  BY DEF HistoryTypes, history
<1>8. AskedIsAwaited /\ UNCHANGED <<asked, waiting>> => AskedIsAwaited'
  BY DEF AskedIsAwaited, Awaited
<1>9. NobodyIsOvertaken /\ UNCHANGED <<now, registrations, waiting>> => NobodyIsOvertaken'
  BY DEF NobodyIsOvertaken, Awaited, Known
<1>10. Backed /\ UNCHANGED <<asked, stream>> => Backed'
  BY DEF Backed, Paired, PairedTo
<1>11. VouchedFor /\ UNCHANGED <<registrations, vouched>> => VouchedFor'
  BY DEF VouchedFor
<1>12. ToldAsItBegan /\ UNCHANGED registrations => ToldAsItBegan'
  BY DEF ToldAsItBegan
<1>13. ToldIsRemembered /\ UNCHANGED <<now, registrations, toldAt>> => ToldIsRemembered'
  BY DEF ToldIsRemembered
<1> QED
  BY <1>1, <1>2, <1>3, <1>4, <1>5, <1>6, <1>7, <1>8, <1>9, <1>10, <1>11, <1>12, <1>13

-----------------------------------------------------------------------------
(* The stream, read from one end and written at the other. *)

LEMMA PairedRest ==
  ASSUME NEW l \in Nat, l # 0, NEW s, PairedTo(s, l), NEW rest,
         \A i \in 1 .. l - 1 : rest[i] = s[i + 1]
  PROVE  /\ PairedTo(rest, l - 1)
         /\ s[1].is = "vouched" => l - 1 # 0 /\ rest[1] = EndOf(s[1].of, TRUE)
<1>1. ASSUME NEW i \in 1 .. l - 1, rest[i].is = "vouched"
      PROVE  i + 1 \in 1 .. l - 1 /\ rest[i + 1] = EndOf(rest[i].of, TRUE)
  <2> DEFINE j == i + 1
  <2>1. j \in 1 .. l /\ rest[i] = s[j]
    OBVIOUS
  <2> HIDE DEF j
  <2>2. j + 1 \in 1 .. l /\ s[j + 1] = EndOf(s[j].of, TRUE)
    BY <1>1, <2>1 DEF PairedTo
  <2>3. j \in 1 .. l - 1
    BY <2>1, <2>2
  <2>4. rest[j] = s[j + 1]
    BY <2>3
  <2> QED
    BY <2>1, <2>2, <2>3, <2>4 DEF j
<1>2. ASSUME s[1].is = "vouched"
      PROVE  l - 1 # 0 /\ rest[1] = EndOf(s[1].of, TRUE)
  <2>1. 1 \in 1 .. l
    OBVIOUS
  <2>2. 1 + 1 \in 1 .. l /\ s[1 + 1] = EndOf(s[1].of, TRUE)
    BY <1>2, <2>1 DEF PairedTo
  <2> DEFINE one == 1
  <2>3. one \in 1 .. l - 1 /\ one + 1 = 1 + 1
    BY <2>2
  <2> HIDE DEF one
  <2>4. rest[one] = s[one + 1]
    BY <2>3
  <2>5. rest[one] = s[1 + 1]
    BY <2>3, <2>4, Zenon
  <2>6. rest[one] = EndOf(s[1].of, TRUE)
    BY <2>2, <2>5, Zenon
  <2>7. l - 1 # 0
    BY <2>2
  <2> QED
    BY <2>6, <2>7, Zenon DEF one
<1> QED
  BY <1>1, <1>2 DEF PairedTo

LEMMA PairedTail ==
  ASSUME NEW s \in Seq(Line), s # <<>>, Paired(s)
  PROVE  /\ Tail(s) \in Seq(Line) /\ Paired(Tail(s))
         /\ Head(s).is = "vouched" => Tail(s) # <<>> /\ Head(Tail(s)) = EndOf(Head(s).of, TRUE)
<1> DEFINE l == Len(s)
           rest == Tail(s)
<1>1. /\ l \in Nat /\ l # 0 /\ Head(s) = s[1]
      /\ rest \in Seq(Line) /\ Len(rest) = l - 1
      /\ \A i \in 1 .. l - 1 : rest[i] = s[i + 1]
  BY EmptySeq, LenProperties, HeadTailProperties
<1>2. l - 1 # 0 => rest # <<>> /\ Head(rest) = rest[1]
  <2>1. ASSUME NEW r \in Seq(Line), Len(r) # 0 PROVE r # <<>> /\ Head(r) = r[1]
    BY <2>1, EmptySeq
  <2> HIDE DEF rest, l
  <2> QED
    BY <1>1, <2>1
<1> HIDE DEF rest, l
<1>3. /\ PairedTo(rest, l - 1)
      /\ s[1].is = "vouched" => l - 1 # 0 /\ rest[1] = EndOf(s[1].of, TRUE)
  <2>1. PairedTo(s, l)
    BY DEF Paired, l
  <2> QED
    BY <1>1, <2>1, PairedRest
<1>4. Paired(rest)
  BY <1>1, <1>3, Zenon DEF Paired
<1> QED
  BY <1>1, <1>2, <1>3, <1>4, Zenon DEF rest

LEMMA PairedBoth ==
  ASSUME NEW l \in Nat, NEW s, PairedTo(s, l), NEW m \in Nat, NEW more, PairedTo(more, m),
         NEW all, \A i \in 1 .. l + m : all[i] = IF i <= l THEN s[i] ELSE more[i - l]
  PROVE  PairedTo(all, l + m)
<1> SUFFICES ASSUME NEW i \in 1 .. l + m, all[i].is = "vouched"
             PROVE  i + 1 \in 1 .. l + m /\ all[i + 1] = EndOf(all[i].of, TRUE)
  BY DEF PairedTo
<1>1. CASE i <= l
  <2>1. i \in 1 .. l /\ all[i] = s[i]
    BY <1>1
  <2>2. i + 1 \in 1 .. l /\ s[i + 1] = EndOf(s[i].of, TRUE)
    BY <2>1 DEF PairedTo
  <2> DEFINE k == i + 1
  <2>3. k \in 1 .. l + m /\ k <= l
    BY <2>2
  <2> HIDE DEF k
  <2>4. all[k] = s[k]
    BY <2>3
  <2> QED
    BY <2>1, <2>2, <2>3, <2>4, Zenon DEF k
<1>2. CASE ~(i <= l)
  <2> DEFINE j == i - l
  <2>1. j \in 1 .. m /\ all[i] = more[j]
    BY <1>2
  <2>2. j + 1 = (i + 1) - l
    OBVIOUS
  <2> HIDE DEF j
  <2>3. j + 1 \in 1 .. m /\ more[j + 1] = EndOf(more[j].of, TRUE)
    BY <2>1 DEF PairedTo
  <2>4. i + 1 \in 1 .. l + m /\ ~(i + 1 <= l)
    BY <1>2, <2>2, <2>3
  <2>5. all[i + 1] = more[j + 1]
    BY <2>2, <2>4
  <2> QED
    BY <2>1, <2>3, <2>4, <2>5
<1> QED
  BY <1>1, <1>2

LEMMA PairedMore ==
  ASSUME NEW s \in Seq(Line), Paired(s), NEW more \in Seq(Line), Paired(more)
  PROVE  /\ s \o more \in Seq(Line) /\ Paired(s \o more)
         /\ s # <<>> => s \o more # <<>> /\ Head(s \o more) = Head(s)
<1> DEFINE l == Len(s)
           m == Len(more)
           all == s \o more
<1>1. /\ l \in Nat /\ m \in Nat /\ all \in Seq(Line) /\ Len(all) = l + m
      /\ \A i \in 1 .. l + m : all[i] = IF i <= l THEN s[i] ELSE more[i - l]
  BY ConcatProperties, LenProperties
<1>2. s # <<>> => all # <<>> /\ Head(all) = Head(s)
  <2>1. s # <<>> => l # 0 /\ Head(s) = s[1]
    BY EmptySeq, HeadTailProperties
  <2>2. l # 0 => all # <<>> /\ Head(all) = s[1]
    OBVIOUS
  <2> QED
    BY <2>1, <2>2
<1>3. PairedTo(s, l) /\ PairedTo(more, m)
  BY DEF Paired
<1> HIDE DEF l, m, all
<1>4. PairedTo(all, l + m)
  BY <1>1, <1>3, PairedBoth
<1>5. Paired(all)
  BY <1>1, <1>4, Zenon DEF Paired
<1> QED
  BY <1>1, <1>2, <1>5, Zenon DEF all

\* Nobody has been vouched for in the middle of a WHOIS but the one whose end is read.
LEMMA NoneBacked ==
  ASSUME Backed, NEW kind, NEW n, Reading(kind, n), NEW m \in DOMAIN asked, asked[m]
  PROVE  kind = "end" /\ m = n /\ Head(stream).vouches
<1>1. Head(stream) = EndOf(m, TRUE) /\ Head(stream).is = kind /\ Head(stream).of = n
  BY DEF Backed, Reading
<1> QED
  BY <1>1 DEF EndOf

\* Once a line is read, nobody counts as vouched for but whom that line vouched for.
LEMMA BackedOnceRead ==
  ASSUME StreamTypes, AskedTypes, Backed, NEW kind, NEW n, Reading(kind, n), Read,
         \A m \in DOMAIN asked' : asked'[m] =>
           \/ kind = "vouched" /\ m = n
           \/ m \in DOMAIN asked /\ asked[m] /\ ~(kind = "end" /\ m = n)
  PROVE  Backed'
<1>1. /\ stream \in Seq(Line) /\ stream # <<>> /\ Paired(stream) /\ Head(stream).is = kind
      /\ Head(stream).of = n /\ stream' = Tail(stream)
  BY DEF StreamTypes, Backed, Reading, Read
<1>2. /\ Paired(Tail(stream))
      /\ kind = "vouched" => Tail(stream) # <<>> /\ Head(Tail(stream)) = EndOf(n, TRUE)
  BY <1>1, PairedTail
<1>3. Paired(stream)'
  BY <1>1, <1>2 DEF Paired, PairedTo, EndOf
<1>4. ASSUME NEW m \in DOMAIN asked', asked'[m]
      PROVE  stream' # <<>> /\ Head(stream') = EndOf(m, TRUE)
  <2>1. kind = "vouched" /\ m = n
    BY <1>4, NoneBacked
  <2> QED
    BY <1>1, <1>2, <2>1
<1> QED
  BY <1>3, <1>4 DEF Backed, EndOf

LEMMA BackedWithMore ==
  ASSUME StreamTypes, Backed, NEW more \in Seq(Line), Paired(more), stream' = stream \o more,
         UNCHANGED asked
  PROVE  stream' \in Seq(Line) /\ Backed'
<1>1. stream \in Seq(Line) /\ Paired(stream)
  BY DEF StreamTypes, Backed
<1>2. /\ stream \o more \in Seq(Line) /\ Paired(stream \o more)
      /\ stream # <<>> => stream \o more # <<>> /\ Head(stream \o more) = Head(stream)
  BY <1>1, PairedMore
<1>3. Paired(stream)'
  BY <1>2 DEF Paired, PairedTo, EndOf
<1>4. \A n \in DOMAIN asked : asked[n] => stream' # <<>> /\ Head(stream') = EndOf(n, TRUE)
  BY <1>2 DEF Backed
<1> QED
  BY <1>2, <1>3, <1>4 DEF Backed, EndOf

-----------------------------------------------------------------------------
(* The lines the session reads. *)

LEMMA OnceRead ==
  ASSUME Types, NEW kind, NEW n, Reading(kind, n), Read, UNCHANGED <<now, whois, counts>>
  PROVE  TimeTypes' /\ StreamTypes' /\ CountTypes'
<1>1. stream' = Tail(stream) /\ Tail(stream) \in Seq(Line) /\ whois' = whois
  BY HeadIs DEF Types, Read
<1>2. StreamTypes'
  BY <1>1 DEF Types, StreamTypes
<1> QED
  BY <1>2, Stays DEF Types

LEMMA NothingSaid == <<>> \in Seq(Said)
BY EmptySeq

LEMMA CommandAnsweredInv ==
  ASSUME Inv, NEW n, CommandAnswered(n)
  PROVE  Inv'
<1>1. /\ Reading("command", n) /\ Read /\ lines' = <<Answer(n, Head(stream).id)>>
      /\ UNCHANGED <<now, whois, counts>> /\ UNCHANGED session /\ UNCHANGED history
  BY DEF CommandAnswered
<1>2. /\ UNCHANGED <<now, registrations>> /\ UNCHANGED <<now, waiting>> /\ UNCHANGED asked
      /\ UNCHANGED <<now, history>> /\ UNCHANGED <<asked, waiting>>
      /\ UNCHANGED <<now, registrations, waiting>> /\ UNCHANGED <<registrations, vouched>>
      /\ UNCHANGED registrations /\ UNCHANGED <<now, registrations, toldAt>>
  BY <1>1 DEF session, history
<1>3. TimeTypes' /\ StreamTypes' /\ CountTypes'
  BY <1>1, OnceRead DEF Inv
<1>4. Backed'
  <2>1. StreamTypes /\ AskedTypes /\ Backed
    BY DEF Inv, Types
  <2>2. \A m \in DOMAIN asked' : asked'[m] => m \in DOMAIN asked /\ asked[m]
    BY <1>2
  <2> QED
    BY <1>1, <2>1, <2>2, BackedOnceRead
<1>5. lines' \in Seq(Said)
  <2>1. Head(stream) \in Line /\ Head(stream).is = "command" /\ n \in Nicks
    BY <1>1, HeadIs DEF Inv, Types
  <2>2. Head(stream).id \in 1 .. MaxSaid
    BY <2>1, LineIs
  <2>3. Answer(n, Head(stream).id) \in Said
    BY <2>1, <2>2 DEF Answer, Said
  <2> QED
    BY <1>1, <2>3
<1>6. MemoryTypes' /\ WaitingTypes' /\ AskedTypes' /\ HistoryTypes'
  BY <1>2, Stays DEF Inv, Types
<1>7. AskedIsAwaited' /\ NobodyIsOvertaken' /\ VouchedFor' /\ ToldAsItBegan' /\ ToldIsRemembered'
  BY <1>2, Stays DEF Inv
<1> QED
  BY <1>3, <1>4, <1>5, <1>6, <1>7 DEF Inv, Types

\* handle never tells anybody: whoever is remembered as not registered was told as his
\* time began, and it ends as he may be told again.
LEMMA RefusedInSilence ==
  ASSUME Inv, NEW n, CommandRefused(n)
  PROVE  lines' = <<>> /\ UNCHANGED <<registrations, toldAt>>
<1> DEFINE entry == registrations[n]
<1>1. n \in DOMAIN registrations /\ entry.expires > now /\ ~entry.registered
  BY DEF CommandRefused, Known
<1>2. entry.told + RegistrationSeconds = entry.expires
  BY <1>1 DEF Inv, ToldAsItBegan
<1>3. now \in Nat /\ entry.expires \in Nat
  BY <1>1 DEF Inv, Types, TimeTypes, MemoryTypes, Entry
<1>4. ~(entry.told + RegistrationSeconds <= now)
  BY <1>1, <1>2, <1>3
<1> QED
  BY <1>4 DEF CommandRefused, Tells

LEMMA CommandRefusedInv ==
  ASSUME Inv, NEW n, CommandRefused(n)
  PROVE  Inv'
<1>1. /\ Reading("command", n) /\ Read /\ lines' = <<>> /\ UNCHANGED <<now, whois, counts>>
      /\ UNCHANGED <<registrations, toldAt>> /\ UNCHANGED <<asked, waiting, vouched>>
  BY RefusedInSilence DEF CommandRefused
<1>2. /\ UNCHANGED <<now, registrations>> /\ UNCHANGED <<now, waiting>> /\ UNCHANGED asked
      /\ UNCHANGED <<now, history>> /\ UNCHANGED <<asked, waiting>>
      /\ UNCHANGED <<now, registrations, waiting>> /\ UNCHANGED <<registrations, vouched>>
      /\ UNCHANGED registrations /\ UNCHANGED <<now, registrations, toldAt>>
  BY <1>1 DEF history
<1>3. TimeTypes' /\ StreamTypes' /\ CountTypes'
  BY <1>1, OnceRead DEF Inv
<1>4. Backed'
  <2>1. StreamTypes /\ AskedTypes /\ Backed
    BY DEF Inv, Types
  <2>2. \A m \in DOMAIN asked' : asked'[m] => m \in DOMAIN asked /\ asked[m]
    BY <1>2
  <2> QED
    BY <1>1, <2>1, <2>2, BackedOnceRead
<1>5. lines' \in Seq(Said)
  BY <1>1, NothingSaid
<1>6. MemoryTypes' /\ WaitingTypes' /\ AskedTypes' /\ HistoryTypes'
  BY <1>2, Stays DEF Inv, Types
<1>7. AskedIsAwaited' /\ NobodyIsOvertaken' /\ VouchedFor' /\ ToldAsItBegan' /\ ToldIsRemembered'
  BY <1>2, Stays DEF Inv
<1> QED
  BY <1>3, <1>4, <1>5, <1>6, <1>7 DEF Inv, Types

LEMMA CommandWaitsInv ==
  ASSUME Inv, NEW n, CommandWaits(n)
  PROVE  Inv'
<1> DEFINE w == [nick |-> n, id |-> Head(stream).id, deadline |-> Deadline]
<1>1. /\ Reading("command", n) /\ Read /\ lines' = <<>> /\ ~Known(n)
      /\ waiting' = Append(waiting, w)
      /\ UNCHANGED <<now, registrations, counts>> /\ UNCHANGED history
      /\ IF n \in DOMAIN asked THEN UNCHANGED <<asked, whois>>
         ELSE asked' = With(asked, n, FALSE) /\ whois' = Append(whois, n)
  BY DEF CommandWaits
<1>2. /\ UNCHANGED <<now, registrations>> /\ UNCHANGED <<now, history>>
      /\ UNCHANGED <<registrations, vouched>> /\ UNCHANGED registrations
      /\ UNCHANGED <<now, registrations, toldAt>> /\ UNCHANGED now /\ UNCHANGED counts
  BY <1>1 DEF history
<1>3. /\ Head(stream) \in Line /\ Head(stream).is = "command" /\ n \in Nicks
      /\ Tail(stream) \in Seq(Line)
  BY <1>1, HeadIs DEF Inv, Types
<1>4. w \in Waiter /\ w.nick = n /\ w.deadline <= now + WhoisSeconds
  <2>1. Head(stream).id \in 1 .. MaxSaid
    BY <1>3, LineIs
  <2>2. now \in Nat /\ WhoisSeconds \in Nat
    BY Constants DEF Inv, Types, TimeTypes
  <2> QED
    BY <1>3, <2>1, <2>2 DEF Waiter, Deadline
<1>5. /\ asked \in [DOMAIN asked -> BOOLEAN] /\ DOMAIN asked \subseteq Nicks
      /\ waiting \in Seq(Waiter) /\ whois \in Seq(Nicks)
  BY DEF Inv, Types, AskedTypes, WaitingTypes, StreamTypes
<1>6. /\ DOMAIN asked' = DOMAIN asked \cup {n}
      /\ \A m \in DOMAIN asked : asked'[m] = asked[m]
      /\ n \notin DOMAIN asked => asked'[n] = FALSE
      /\ AskedTypes'
  <2>1. CASE n \in DOMAIN asked
    BY <1>1, <1>5, <2>1 DEF AskedTypes
  <2>2. CASE n \notin DOMAIN asked
    <3>1. asked' = [m \in DOMAIN asked \cup {n} |-> IF m = n THEN FALSE ELSE asked[m]]
      BY <1>1, <2>2 DEF With
    <3> QED
      BY <1>3, <1>5, <2>2, <3>1 DEF AskedTypes
  <2> QED
    BY <2>1, <2>2
<1> HIDE DEF w
<1>7. /\ waiting' \in Seq(Waiter) /\ DOMAIN waiting' = 1 .. Len(waiting) + 1
      /\ DOMAIN waiting = 1 .. Len(waiting) /\ Len(waiting) \in Nat
      /\ \A i \in DOMAIN waiting : waiting'[i] = waiting[i]
      /\ waiting'[Len(waiting) + 1] = w
  BY <1>1, <1>4, <1>5, AppendProperties, LenProperties
<1>8. \A m : m \in Awaited' <=> m \in Awaited \/ m = n
  <2>1. \A m : m \in Awaited <=> \E i \in DOMAIN waiting : waiting[i].nick = m
    BY DEF Awaited
  <2>2. \A m : m \in Awaited' <=> \E i \in DOMAIN waiting' : waiting'[i].nick = m
    BY DEF Awaited
  <2>3. \A i \in DOMAIN waiting' : i \in DOMAIN waiting \/ i = Len(waiting) + 1
    BY <1>7
  <2>4. DOMAIN waiting \subseteq DOMAIN waiting' /\ Len(waiting) + 1 \in DOMAIN waiting'
    BY <1>7
  <2> QED
    BY <1>4, <1>7, <2>1, <2>2, <2>3, <2>4
<1>9. WaitingTypes'
  <2>1. \A i \in DOMAIN waiting' : i \in DOMAIN waiting \/ i = Len(waiting) + 1
    BY <1>7
  <2>2. \A i \in DOMAIN waiting' : waiting'[i].deadline <= now + WhoisSeconds
    BY <1>4, <1>7, <2>1 DEF Inv, Types, WaitingTypes
  <2> QED
    BY <1>2, <1>7, <2>2 DEF WaitingTypes
<1>10. AskedIsAwaited' /\ NobodyIsOvertaken'
  <2>1. AskedIsAwaited'
    BY <1>6, <1>8 DEF Inv, AskedIsAwaited
  <2>2. \A m : Known(m)' <=> Known(m)
    BY <1>2 DEF Known
  <2> QED
    BY <1>1, <1>8, <2>1, <2>2 DEF Inv, NobodyIsOvertaken
<1>11. Backed'
  <2>1. StreamTypes /\ AskedTypes /\ Backed
    BY DEF Inv, Types
  <2>2. \A m \in DOMAIN asked' : asked'[m] => m \in DOMAIN asked /\ asked[m]
    BY <1>6
  <2> QED
    BY <1>1, <2>1, <2>2, BackedOnceRead
<1>12. StreamTypes'
  <2>1. whois' \in Seq(Nicks)
    <3>1. Append(whois, n) \in Seq(Nicks)
      BY <1>3, <1>5, AppendProperties
    <3>2. whois' = whois \/ whois' = Append(whois, n)
      BY <1>1
    <3> QED
      BY <1>5, <3>1, <3>2, Zenon
  <2> QED
    BY <1>1, <1>3, <2>1 DEF StreamTypes, Read
<1>13. MemoryTypes' /\ HistoryTypes' /\ TimeTypes' /\ CountTypes' /\ lines' \in Seq(Said)
  BY <1>1, <1>2, NothingSaid, Stays DEF Inv, Types
<1>14. VouchedFor' /\ ToldAsItBegan' /\ ToldIsRemembered'
  BY <1>2, Stays DEF Inv
<1> QED
  BY <1>6, <1>9, <1>10, <1>11, <1>12, <1>13, <1>14 DEF Inv, Types

LEMMA VouchedInv ==
  ASSUME Inv, NEW n, Vouched(n)
  PROVE  Inv'
<1>1. /\ Reading("vouched", n) /\ Read /\ lines' = <<>> /\ UNCHANGED <<now, whois, counts>>
      /\ UNCHANGED <<registrations, waiting>> /\ UNCHANGED history
      /\ asked' = IF n \in DOMAIN asked THEN [asked EXCEPT ![n] = TRUE] ELSE asked
  BY DEF Vouched
<1>2. /\ UNCHANGED <<now, registrations>> /\ UNCHANGED <<now, waiting>>
      /\ UNCHANGED <<now, history>>
      /\ UNCHANGED <<now, registrations, waiting>> /\ UNCHANGED <<registrations, vouched>>
      /\ UNCHANGED registrations /\ UNCHANGED <<now, registrations, toldAt>>
  BY <1>1 DEF history
<1>3. /\ DOMAIN asked' = DOMAIN asked /\ AskedTypes'
      /\ \A m \in DOMAIN asked : m # n => asked'[m] = asked[m]
  BY <1>1 DEF Inv, Types, AskedTypes
<1>4. TimeTypes' /\ StreamTypes' /\ CountTypes'
  BY <1>1, OnceRead DEF Inv
<1>5. Backed'
  <2>1. StreamTypes /\ AskedTypes /\ Backed
    BY DEF Inv, Types
  <2>2. \A m \in DOMAIN asked' : asked'[m] => m = n \/ (m \in DOMAIN asked /\ asked[m])
    BY <1>3
  <2> QED
    BY <1>1, <2>1, <2>2, BackedOnceRead
<1>6. MemoryTypes' /\ WaitingTypes' /\ HistoryTypes' /\ lines' \in Seq(Said)
  BY <1>1, <1>2, NothingSaid, Stays DEF Inv, Types
<1>7. AskedIsAwaited'
  BY <1>1, <1>3 DEF Inv, AskedIsAwaited, Awaited
<1>8. NobodyIsOvertaken' /\ VouchedFor' /\ ToldAsItBegan' /\ ToldIsRemembered'
  BY <1>2, Stays DEF Inv
<1> QED
  BY <1>3, <1>4, <1>5, <1>6, <1>7, <1>8 DEF Inv, Types

-----------------------------------------------------------------------------
(* Those who wait no longer. *)

LEMMA WaitingLess ==
  ASSUME WaitingTypes, NEW places \in SUBSET DOMAIN waiting, waiting' = Kept(waiting, places),
         UNCHANGED now
  PROVE  /\ WaitingTypes'
         /\ \A m : m \in Awaited' <=> \E p \in places : waiting[p].nick = m
<1>1. waiting \in Seq(Waiter)
  BY DEF WaitingTypes
<1>2. /\ waiting' \in Seq(Waiter)
      /\ \A i \in DOMAIN waiting' : \E p \in places : waiting'[i] = waiting[p]
      /\ \A p \in places : \E i \in DOMAIN waiting' : waiting'[i] = waiting[p]
  BY <1>1, KeptIs
<1>3. WaitingTypes'
  BY <1>2 DEF WaitingTypes
<1>4. \A m : m \in Awaited' <=> \E i \in DOMAIN waiting' : waiting'[i].nick = m
  BY DEF Awaited
<1> QED
  BY <1>2, <1>3, <1>4

LEMMA HisNoLonger ==
  ASSUME WaitingTypes, NEW n, waiting' = StillWaiting(n), UNCHANGED now
  PROVE  WaitingTypes' /\ \A m : m \in Awaited' <=> m \in Awaited /\ m # n
<1>1. DOMAIN waiting \ PlacesOf(n) \in SUBSET DOMAIN waiting
  OBVIOUS
<1>2. /\ WaitingTypes'
      /\ \A m : m \in Awaited' <=>
                  \E p \in DOMAIN waiting \ PlacesOf(n) : waiting[p].nick = m
  BY <1>1, WaitingLess DEF StillWaiting
<1>3. \A m : m \in Awaited <=> \E i \in DOMAIN waiting : waiting[i].nick = m
  BY DEF Awaited
<1> QED
  BY <1>2, <1>3 DEF PlacesOf

LEMMA AskedLess ==
  ASSUME AskedTypes, NEW ns, asked' = Without(asked, ns)
  PROVE  /\ AskedTypes' /\ DOMAIN asked' = DOMAIN asked \ ns
         /\ \A m \in DOMAIN asked' : asked'[m] = asked[m]
BY DEF AskedTypes, Without

LEMMA MemoryLess ==
  ASSUME MemoryTypes, NEW ns, registrations' = Without(registrations, ns), UNCHANGED now
  PROVE  /\ MemoryTypes' /\ DOMAIN registrations' = DOMAIN registrations \ ns
         /\ \A m \in DOMAIN registrations' : registrations'[m] = registrations[m]
BY DEF MemoryTypes, Without

LEMMA UnknownInv ==
  ASSUME Inv, NEW n, Unknown(n)
  PROVE  Inv'
<1>1. /\ Reading("unknown", n) /\ Read /\ lines' = <<>> /\ UNCHANGED <<now, whois, counts>>
      /\ UNCHANGED registrations /\ UNCHANGED history
      /\ asked' = Without(asked, {n}) /\ waiting' = StillWaiting(n)
  BY DEF Unknown, AskedOfOthers
<1>2. /\ UNCHANGED <<now, registrations>> /\ UNCHANGED <<now, history>>
      /\ UNCHANGED <<registrations, vouched>> /\ UNCHANGED registrations
      /\ UNCHANGED <<now, registrations, toldAt>> /\ UNCHANGED now
  BY <1>1 DEF history
<1>3. /\ AskedTypes' /\ DOMAIN asked' = DOMAIN asked \ {n}
      /\ \A m \in DOMAIN asked' : asked'[m] = asked[m]
  BY <1>1, AskedLess DEF Inv, Types
<1>4. WaitingTypes' /\ \A m : m \in Awaited' <=> m \in Awaited /\ m # n
  BY <1>1, HisNoLonger DEF Inv, Types
<1>5. TimeTypes' /\ StreamTypes' /\ CountTypes'
  BY <1>1, OnceRead DEF Inv
<1>6. Backed'
  <2>1. StreamTypes /\ AskedTypes /\ Backed
    BY DEF Inv, Types
  <2>2. \A m \in DOMAIN asked' : asked'[m] => m \in DOMAIN asked /\ asked[m]
    BY <1>3
  <2> QED
    BY <1>1, <2>1, <2>2, BackedOnceRead
<1>7. MemoryTypes' /\ HistoryTypes' /\ lines' \in Seq(Said)
  BY <1>1, <1>2, NothingSaid, Stays DEF Inv, Types
<1>8. AskedIsAwaited'
  BY <1>3, <1>4 DEF Inv, AskedIsAwaited
<1>9. NobodyIsOvertaken'
  BY <1>2, <1>4 DEF Inv, NobodyIsOvertaken, Known
<1>10. VouchedFor' /\ ToldAsItBegan' /\ ToldIsRemembered'
  BY <1>2, Stays DEF Inv
<1> QED
  BY <1>3, <1>4, <1>5, <1>6, <1>7, <1>8, <1>9, <1>10 DEF Inv, Types

LEMMA LeftInv ==
  ASSUME Inv, NEW n, Left(n)
  PROVE  Inv'
<1>1. /\ Reading("left", n) /\ Read /\ lines' = <<>> /\ UNCHANGED <<now, whois, counts>>
      /\ UNCHANGED <<asked, waiting>>
      /\ registrations' = Without(registrations, {n})
      /\ vouched' = [vouched EXCEPT ![n] = Never] /\ toldAt' = [toldAt EXCEPT ![n] = Never]
  BY DEF Left, Forgotten
<1>2. UNCHANGED <<now, waiting>> /\ UNCHANGED asked /\ UNCHANGED now
  BY <1>1
<1>3. /\ MemoryTypes' /\ DOMAIN registrations' = DOMAIN registrations \ {n}
      /\ \A m \in DOMAIN registrations' : registrations'[m] = registrations[m]
  BY <1>1, MemoryLess DEF Inv, Types
<1>4. TimeTypes' /\ StreamTypes' /\ CountTypes'
  BY <1>1, OnceRead DEF Inv
<1>5. Backed'
  <2>1. StreamTypes /\ AskedTypes /\ Backed
    BY DEF Inv, Types
  <2>2. \A m \in DOMAIN asked' : asked'[m] => m \in DOMAIN asked /\ asked[m]
    BY <1>2
  <2> QED
    BY <1>1, <2>1, <2>2, BackedOnceRead
<1>6. WaitingTypes' /\ AskedTypes' /\ AskedIsAwaited' /\ lines' \in Seq(Said)
  BY <1>1, <1>2, NothingSaid, Stays DEF Inv, Types
<1>7. NobodyIsOvertaken'
  BY <1>1, <1>3 DEF Inv, NobodyIsOvertaken, Known, Awaited
<1>8. /\ vouched \in [Nicks -> Nat \cup {Never}] /\ toldAt \in [Nicks -> Nat \cup {Never}]
      /\ DOMAIN registrations \subseteq Nicks
  BY DEF Inv, Types, HistoryTypes, MemoryTypes
<1>9. HistoryTypes'
  BY <1>1, <1>8 DEF Inv, Types, HistoryTypes
<1>10. VouchedFor' /\ ToldAsItBegan'
  BY <1>1, <1>3, <1>8 DEF Inv, VouchedFor, ToldAsItBegan
<1>11. ToldIsRemembered'
  <2> SUFFICES ASSUME NEW m \in Nicks, toldAt'[m] # Never
               PROVE  \/ toldAt'[m] + RegistrationSeconds <= now'
                      \/ /\ m \in DOMAIN registrations'
                         /\ toldAt'[m] + RegistrationSeconds <= registrations'[m].expires
    BY DEF ToldIsRemembered
  <2>1. m # n /\ toldAt'[m] = toldAt[m]
    BY <1>1, <1>8
  <2> QED
    BY <1>2, <1>3, <2>1 DEF Inv, ToldIsRemembered
<1> QED
  BY <1>3, <1>4, <1>5, <1>6, <1>7, <1>9, <1>10, <1>11 DEF Inv, Types

\* Forgetting whoever kicked somebody out takes nothing from what is known of the others.
LEMMA KickedInv ==
  ASSUME Inv, NEW n, Kicked(n)
  PROVE  Inv'
<1>1. PICK by :
         /\ Reading("kicked", n) /\ Read /\ lines' = <<>> /\ UNCHANGED <<now, whois, counts>>
         /\ UNCHANGED <<asked, waiting>>
         /\ registrations' = Without(registrations, {by})
         /\ UNCHANGED vouched /\ toldAt' = [toldAt EXCEPT ![by] = Never]
  BY DEF Kicked, Forgotten
<1>2. UNCHANGED <<now, waiting>> /\ UNCHANGED asked /\ UNCHANGED now
  BY <1>1
<1>3. /\ MemoryTypes' /\ DOMAIN registrations' = DOMAIN registrations \ {by}
      /\ \A m \in DOMAIN registrations' : registrations'[m] = registrations[m]
  BY <1>1, MemoryLess DEF Inv, Types
<1>4. TimeTypes' /\ StreamTypes' /\ CountTypes'
  BY <1>1, OnceRead DEF Inv
<1>5. Backed'
  <2>1. StreamTypes /\ AskedTypes /\ Backed
    BY DEF Inv, Types
  <2>2. \A m \in DOMAIN asked' : asked'[m] => m \in DOMAIN asked /\ asked[m]
    BY <1>2
  <2> QED
    BY <1>1, <2>1, <2>2, BackedOnceRead
<1>6. WaitingTypes' /\ AskedTypes' /\ AskedIsAwaited' /\ lines' \in Seq(Said)
  BY <1>1, <1>2, NothingSaid, Stays DEF Inv, Types
<1>7. NobodyIsOvertaken'
  BY <1>1, <1>3 DEF Inv, NobodyIsOvertaken, Known, Awaited
<1>8. /\ vouched \in [Nicks -> Nat \cup {Never}] /\ toldAt \in [Nicks -> Nat \cup {Never}]
      /\ DOMAIN registrations \subseteq Nicks
  BY DEF Inv, Types, HistoryTypes, MemoryTypes
<1>9. HistoryTypes'
  BY <1>1, <1>8 DEF Inv, Types, HistoryTypes
<1>10. VouchedFor' /\ ToldAsItBegan'
  BY <1>1, <1>3, <1>8 DEF Inv, VouchedFor, ToldAsItBegan
<1>11. ToldIsRemembered'
  <2> SUFFICES ASSUME NEW m \in Nicks, toldAt'[m] # Never
               PROVE  \/ toldAt'[m] + RegistrationSeconds <= now'
                      \/ /\ m \in DOMAIN registrations'
                         /\ toldAt'[m] + RegistrationSeconds <= registrations'[m].expires
    BY DEF ToldIsRemembered
  <2>1. m # by /\ toldAt'[m] = toldAt[m]
    BY <1>1, <1>8
  <2> QED
    BY <1>2, <1>3, <2>1 DEF Inv, ToldIsRemembered
<1> QED
  BY <1>3, <1>4, <1>5, <1>6, <1>7, <1>9, <1>10, <1>11 DEF Inv, Types

LEMMA EndIgnoredInv ==
  ASSUME Inv, NEW n, EndIgnored(n)
  PROVE  Inv'
<1>1. /\ Reading("end", n) /\ Read /\ lines' = <<>> /\ UNCHANGED <<now, whois, counts>>
      /\ UNCHANGED session /\ UNCHANGED toldAt /\ n \notin DOMAIN asked
      /\ vouched' = vouched \/ vouched' = [vouched EXCEPT ![n] = now]
  BY DEF EndIgnored, Heard
<1>2. /\ UNCHANGED <<now, registrations>> /\ UNCHANGED <<now, waiting>> /\ UNCHANGED asked
      /\ UNCHANGED <<asked, waiting>> /\ UNCHANGED <<now, registrations, waiting>>
      /\ UNCHANGED registrations /\ UNCHANGED <<now, registrations, toldAt>>
  BY <1>1 DEF session
<1>3. TimeTypes' /\ StreamTypes' /\ CountTypes'
  BY <1>1, OnceRead DEF Inv
<1>4. Backed'
  <2>1. StreamTypes /\ AskedTypes /\ Backed
    BY DEF Inv, Types
  <2>2. \A m \in DOMAIN asked' : asked'[m] => m \in DOMAIN asked /\ asked[m] /\ m # n
    BY <1>1, <1>2
  <2> QED
    BY <1>1, <2>1, <2>2, BackedOnceRead
<1>5. MemoryTypes' /\ WaitingTypes' /\ AskedTypes' /\ lines' \in Seq(Said)
  BY <1>1, <1>2, NothingSaid, Stays DEF Inv, Types
<1>6. AskedIsAwaited' /\ NobodyIsOvertaken' /\ ToldAsItBegan' /\ ToldIsRemembered'
  BY <1>2, Stays DEF Inv
<1>7. /\ now \in Nat /\ Never \notin Int /\ RegistrationSeconds \in Nat
      /\ vouched \in [Nicks -> Nat \cup {Never}] /\ DOMAIN registrations \subseteq Nicks
      /\ \A m \in DOMAIN registrations : registrations[m].expires <= now + RegistrationSeconds
  BY Constants DEF Inv, Types, HistoryTypes, MemoryTypes, TimeTypes
<1>8. HistoryTypes'
  BY <1>1, <1>7 DEF Inv, Types, HistoryTypes
<1>9. VouchedFor'
  BY <1>1, <1>2, <1>7 DEF Inv, VouchedFor
<1> QED
  BY <1>3, <1>4, <1>5, <1>6, <1>8, <1>9 DEF Inv, Types

\* The end of a WHOIS: who waited knows, and so does the session.
LEMMA ReleasedDoes ==
  ASSUME Inv, NEW n, Released(n)
  PROVE  /\ Reading("end", n) /\ Read /\ UNCHANGED <<now, whois, counts>>
         /\ n \in DOMAIN asked /\ n \in Nicks
         /\ asked' = Without(asked, {n}) /\ waiting' = StillWaiting(n)
         /\ \E told \in Nat :
              /\ told <= now
              /\ registrations' = With(registrations, n,
                   [registered |-> asked[n], expires |-> now + RegistrationSeconds, told |-> told])
              /\ ~asked[n] => told = now
         /\ IF asked[n] THEN UNCHANGED toldAt ELSE toldAt' = [toldAt EXCEPT ![n] = now]
         /\ vouched' = vouched \/ vouched' = [vouched EXCEPT ![n] = now]
         /\ asked[n] => vouched' = [vouched EXCEPT ![n] = now]
         /\ lines' \in Seq(Said)
         /\ \A i \in DOMAIN lines' : lines'[i].to = n /\ (lines'[i].says = "answer" <=> asked[n])
         /\ toldAt[n] # Never => toldAt[n] + RegistrationSeconds <= now
<1> DEFINE entry == [registered |-> asked[n], expires |-> now + RegistrationSeconds,
                     told |-> IF n \in DOMAIN registrations THEN registrations[n].told ELSE 0]
           his == Kept(waiting, PlacesOf(n))
           tells == ~asked[n] /\ his # <<>> /\ Tells(entry)
<1>1. /\ Reading("end", n) /\ Read /\ UNCHANGED <<now, whois, counts>> /\ n \in DOMAIN asked
      /\ asked' = Without(asked, {n}) /\ waiting' = StillWaiting(n)
      /\ registrations' = With(registrations, n, [entry EXCEPT !.told = IF tells THEN now ELSE @])
      /\ lines' = IF asked[n] THEN [i \in DOMAIN his |-> Answer(n, his[i].id)]
                  ELSE IF tells THEN <<Refusal(n)>> ELSE <<>>
      /\ toldAt' = IF tells THEN [toldAt EXCEPT ![n] = now] ELSE toldAt
      /\ vouched' = IF Head(stream).vouches THEN [vouched EXCEPT ![n] = now] ELSE vouched
  BY DEF Released, Heard
<1>2. /\ now \in Nat /\ now >= RegistrationSeconds /\ RegistrationSeconds \in Nat
      /\ MemoryTypes /\ n \in Nicks
  BY <1>1, Constants, HeadIs DEF Inv, Types, TimeTypes
<1>3. n \in Awaited /\ ~Known(n)
  BY <1>1 DEF Inv, AskedIsAwaited, NobodyIsOvertaken
<1>4. asked[n] \in BOOLEAN
  BY <1>1 DEF Inv, Types, AskedTypes
<1>5. entry.told \in Nat /\ entry.told + RegistrationSeconds <= now
  <2>1. CASE n \in DOMAIN registrations
    <3>1. ~(registrations[n].expires > now)
      BY <1>3, <2>1 DEF Known
    <3>2. registrations[n].expires \in Nat /\ registrations[n].told \in Nat
      BY <1>2, <2>1 DEF MemoryTypes, Entry
    <3>3. registrations[n].told + RegistrationSeconds <= registrations[n].expires
      BY <2>1 DEF Inv, ToldAsItBegan
    <3> QED
      BY <1>2, <2>1, <3>1, <3>2, <3>3
  <2>2. CASE n \notin DOMAIN registrations
    BY <1>2, <2>2
  <2> QED
    BY <2>1, <2>2
<1>6. /\ his \in Seq(Waiter) /\ his # <<>>
  <2>1. waiting \in Seq(Waiter) /\ PlacesOf(n) \in SUBSET DOMAIN waiting
    BY DEF Inv, Types, WaitingTypes, PlacesOf
  <2>2. PICK p \in PlacesOf(n) : TRUE
    BY <1>3 DEF Awaited, PlacesOf
  <2>3. /\ Kept(waiting, PlacesOf(n)) \in Seq(Waiter)
        /\ \E i \in DOMAIN Kept(waiting, PlacesOf(n)) : TRUE
    BY <2>1, <2>2, KeptIs
  <2> HIDE DEF his
  <2>4. his \in Seq(Waiter) /\ \E i \in DOMAIN his : TRUE
    BY <2>3 DEF his
  <2> QED
    BY <2>4
<1>7. tells = ~asked[n]
  BY <1>4, <1>5, <1>6 DEF Tells
<1> DEFINE told == IF tells THEN now ELSE entry.told
<1>8. /\ told \in Nat /\ told <= now /\ (~asked[n] => told = now)
  BY <1>2, <1>5, <1>7
<1>9. [entry EXCEPT !.told = IF tells THEN now ELSE @] =
        [registered |-> asked[n], expires |-> now + RegistrationSeconds, told |-> told]
  OBVIOUS
<1>10. asked[n] => Head(stream).vouches
  BY <1>1, NoneBacked DEF Inv
<1>11. /\ lines' \in Seq(Said)
       /\ \A i \in DOMAIN lines' : lines'[i].to = n /\ (lines'[i].says = "answer" <=> asked[n])
  <2> HIDE DEF his, tells, entry, told
  <2>1. CASE asked[n]
    <3>1. lines' = [i \in DOMAIN his |-> Answer(n, his[i].id)]
      BY <1>1, <2>1
    <3>2. Len(his) \in Nat /\ DOMAIN his = 1 .. Len(his) /\ \A i \in DOMAIN his : his[i] \in Waiter
      BY <1>6, LenProperties
    <3>3. \A i \in 1 .. Len(his) : Answer(n, his[i].id) \in Said
      BY <1>2, <3>2 DEF Said, Answer, Waiter
    <3>4. lines' \in [1 .. Len(his) -> Said]
      BY <3>1, <3>2, <3>3
    <3>5. lines' \in Seq(Said)
      BY <3>2, <3>4
    <3> QED
      BY <2>1, <3>1, <3>5 DEF Answer
  <2>2. CASE ~asked[n]
    <3>1. lines' = <<Refusal(n)>>
      BY <1>1, <1>7, <2>2
    <3>2. Refusal(n) \in Said
      BY <1>2 DEF Said, Refusal
    <3> QED
      BY <2>2, <3>1, <3>2 DEF Refusal
  <2> QED
    BY <2>1, <2>2
<1>12. toldAt[n] # Never => toldAt[n] + RegistrationSeconds <= now
  <2> SUFFICES ASSUME toldAt[n] # Never, n \in DOMAIN registrations,
                      toldAt[n] + RegistrationSeconds <= registrations[n].expires
               PROVE  toldAt[n] + RegistrationSeconds <= now
    BY <1>2 DEF Inv, ToldIsRemembered
  <2>1. ~(registrations[n].expires > now) /\ registrations[n].expires \in Nat
    BY <1>2, <1>3 DEF Known, MemoryTypes, Entry
  <2>2. toldAt[n] \in Nat
    BY <1>2 DEF Inv, Types, HistoryTypes
  <2> QED
    BY <1>2, <2>1, <2>2
<1> HIDE DEF his, tells, entry, told
<1>13. IF asked[n] THEN UNCHANGED toldAt ELSE toldAt' = [toldAt EXCEPT ![n] = now]
  BY <1>1, <1>7, <1>4
<1> QED
  BY <1>1, <1>2, <1>8, <1>9, <1>10, <1>11, <1>12, <1>13

LEMMA ReleasedInv ==
  ASSUME Inv, NEW n, Released(n)
  PROVE  Inv'
<1>1. PICK told \in Nat :
        /\ told <= now /\ (~asked[n] => told = now)
        /\ registrations' = With(registrations, n,
             [registered |-> asked[n], expires |-> now + RegistrationSeconds, told |-> told])
  BY ReleasedDoes
<1>2. /\ Reading("end", n) /\ Read /\ UNCHANGED <<now, whois, counts>>
      /\ n \in DOMAIN asked /\ n \in Nicks
      /\ asked' = Without(asked, {n}) /\ waiting' = StillWaiting(n)
      /\ IF asked[n] THEN UNCHANGED toldAt ELSE toldAt' = [toldAt EXCEPT ![n] = now]
      /\ vouched' = vouched \/ vouched' = [vouched EXCEPT ![n] = now]
      /\ asked[n] => vouched' = [vouched EXCEPT ![n] = now]
      /\ lines' \in Seq(Said)
      /\ toldAt[n] # Never => toldAt[n] + RegistrationSeconds <= now
  BY ReleasedDoes
<1>3. /\ now \in Nat /\ RegistrationSeconds \in Nat /\ Never \notin Int /\ now' = now
      /\ asked[n] \in BOOLEAN
      /\ vouched \in [Nicks -> Nat \cup {Never}] /\ toldAt \in [Nicks -> Nat \cup {Never}]
      /\ DOMAIN registrations \subseteq Nicks /\ registrations \in [DOMAIN registrations -> Entry]
  BY <1>2, Constants DEF Inv, Types, TimeTypes, AskedTypes, HistoryTypes, MemoryTypes
<1> DEFINE entry == [registered |-> asked[n], expires |-> now + RegistrationSeconds, told |-> told]
<1>4. /\ DOMAIN registrations' = DOMAIN registrations \cup {n}
      /\ registrations'[n] = entry
      /\ \A m \in DOMAIN registrations : m # n => registrations'[m] = registrations[m]
      /\ registrations' = [m \in DOMAIN registrations \cup {n} |->
                             IF m = n THEN entry ELSE registrations[m]]
  BY <1>1 DEF With
<1>5. /\ entry \in Entry /\ entry.registered = asked[n]
      /\ entry.expires = now + RegistrationSeconds /\ entry.told = told
  BY <1>3 DEF Entry
<1> HIDE DEF entry
<1>6. MemoryTypes'
  <2>1. DOMAIN registrations' \subseteq Nicks
    BY <1>2, <1>3, <1>4
  <2>2. \A m \in DOMAIN registrations' : registrations'[m] \in Entry
    BY <1>3, <1>4, <1>5
  <2>3. registrations' \in [DOMAIN registrations' -> Entry]
    BY <1>4, <2>2
  <2>4. \A m \in DOMAIN registrations' :
          /\ registrations'[m].expires <= now + RegistrationSeconds
          /\ registrations'[m].told <= now
    BY <1>1, <1>3, <1>4, <1>5 DEF Inv, Types, MemoryTypes
  <2> QED
    BY <1>3, <2>1, <2>3, <2>4 DEF MemoryTypes
<1>7. /\ AskedTypes' /\ DOMAIN asked' = DOMAIN asked \ {n}
      /\ \A m \in DOMAIN asked' : asked'[m] = asked[m]
  BY <1>2, AskedLess DEF Inv, Types
<1>8. WaitingTypes' /\ \A m : m \in Awaited' <=> m \in Awaited /\ m # n
  BY <1>2, HisNoLonger DEF Inv, Types
<1>9. TimeTypes' /\ StreamTypes' /\ CountTypes'
  BY <1>2, OnceRead DEF Inv
<1>10. Backed'
  <2>1. StreamTypes /\ AskedTypes /\ Backed
    BY DEF Inv, Types
  <2>2. \A m \in DOMAIN asked' : asked'[m] => m \in DOMAIN asked /\ asked[m] /\ m # n
    BY <1>7
  <2> QED
    BY <1>2, <2>1, <2>2, BackedOnceRead
<1>11. HistoryTypes'
  <2>1. /\ vouched' \in [Nicks -> Nat \cup {Never}]
        /\ \A m \in Nicks : vouched'[m] # Never => vouched'[m] <= now
    BY <1>2, <1>3 DEF Inv, Types, HistoryTypes
  <2>2. /\ toldAt' \in [Nicks -> Nat \cup {Never}]
        /\ \A m \in Nicks : toldAt'[m] # Never => toldAt'[m] <= now
    BY <1>2, <1>3 DEF Inv, Types, HistoryTypes
  <2> QED
    BY <1>3, <2>1, <2>2 DEF HistoryTypes
<1>12. AskedIsAwaited'
  BY <1>7, <1>8 DEF Inv, AskedIsAwaited
<1>13. NobodyIsOvertaken'
  <2> SUFFICES ASSUME NEW m \in Awaited, m # n, Known(m)' PROVE FALSE
    BY <1>8 DEF NobodyIsOvertaken
  <2>1. Known(m)
    BY <1>3, <1>4 DEF Known
  <2> QED
    BY <2>1 DEF Inv, NobodyIsOvertaken
<1>14. VouchedFor'
  <2> SUFFICES ASSUME NEW m \in DOMAIN registrations', registrations'[m].registered
               PROVE  /\ vouched'[m] # Never
                      /\ registrations'[m].expires <= vouched'[m] + RegistrationSeconds
    BY DEF VouchedFor
  <2>1. CASE m = n
    <3>1. asked[n]
      BY <1>4, <1>5, <2>1
    <3>2. vouched'[n] = now
      BY <1>2, <1>3, <3>1
    <3> QED
      BY <1>3, <1>4, <1>5, <2>1, <3>2
  <2>2. CASE m # n
    <3>1. m \in Nicks /\ vouched'[m] = vouched[m] /\ registrations'[m] = registrations[m]
          /\ m \in DOMAIN registrations
      BY <1>2, <1>3, <1>4, <2>2
    <3> QED
      BY <3>1 DEF Inv, VouchedFor
  <2> QED
    BY <2>1, <2>2
<1>15. ToldAsItBegan'
  <2> SUFFICES ASSUME NEW m \in DOMAIN registrations'
               PROVE  /\ registrations'[m].told + RegistrationSeconds <= registrations'[m].expires
                      /\ ~registrations'[m].registered =>
                           registrations'[m].told + RegistrationSeconds = registrations'[m].expires
    BY DEF ToldAsItBegan
  <2>1. CASE m = n
    BY <1>1, <1>3, <1>4, <1>5, <2>1
  <2>2. CASE m # n
    BY <1>4, <2>2 DEF Inv, ToldAsItBegan
  <2> QED
    BY <2>1, <2>2
<1>16. ToldIsRemembered'
  <2> SUFFICES ASSUME NEW m \in Nicks, toldAt'[m] # Never
               PROVE  \/ toldAt'[m] + RegistrationSeconds <= now
                      \/ /\ m \in DOMAIN registrations'
                         /\ toldAt'[m] + RegistrationSeconds <= registrations'[m].expires
    BY <1>3 DEF ToldIsRemembered
  <2>1. CASE m = n /\ asked[n]
    BY <1>2, <2>1
  <2>2. CASE m = n /\ ~asked[n]
    BY <1>2, <1>3, <1>4, <1>5, <2>2
  <2>3. CASE m # n
    <3>1. toldAt'[m] = toldAt[m]
      BY <1>2, <1>3, <2>3
    <3> QED
      BY <1>4, <2>3, <3>1 DEF Inv, ToldIsRemembered
  <2> QED
    BY <2>1, <2>2, <2>3
<1>17. lines' \in Seq(Said)
  BY <1>2
<1> QED
  BY <1>6, <1>7, <1>8, <1>9, <1>10, <1>11, <1>12, <1>13, <1>14, <1>15, <1>16, <1>17
  DEF Inv, Types

-----------------------------------------------------------------------------
(* The clock, the link, the server. *)

LEMMA SessionTickInv ==
  ASSUME Inv, SessionTick
  PROVE  Inv'
<1> DEFINE late == {i \in DOMAIN waiting : Late(waiting[i])}
           givenUp == {waiting[i].nick : i \in late}
           forgotten == {n \in DOMAIN registrations : Forgets(registrations[n])}
<1>1. /\ asked' = Without(asked, givenUp)
      /\ waiting' = Kept(waiting, DOMAIN waiting \ late)
      /\ registrations' = Without(registrations, forgotten)
      /\ lines' = <<>> /\ UNCHANGED <<now, server, counts, history>>
  BY DEF SessionTick
<1>2. UNCHANGED now /\ UNCHANGED server /\ UNCHANGED stream /\ UNCHANGED counts
      /\ UNCHANGED history /\ UNCHANGED <<now, history>> /\ UNCHANGED <<vouched, toldAt>>
  BY <1>1 DEF server, history
<1>3. \A n : n \in Awaited <=> \E i \in DOMAIN waiting : waiting[i].nick = n
  BY DEF Awaited
<1>4. late \in SUBSET DOMAIN waiting /\ DOMAIN waiting \ late \in SUBSET DOMAIN waiting
  OBVIOUS
<1>5. \A n : n \in givenUp <=> \E i \in late : waiting[i].nick = n
  OBVIOUS
<1>6. \A n \in DOMAIN registrations : n \in forgotten <=> registrations[n].expires <= now
  BY DEF Forgets
<1> HIDE DEF late, givenUp, forgotten
<1>7. /\ AskedTypes' /\ DOMAIN asked' = DOMAIN asked \ givenUp
      /\ \A m \in DOMAIN asked' : asked'[m] = asked[m]
  BY <1>1, AskedLess DEF Inv, Types
<1>8. /\ MemoryTypes' /\ DOMAIN registrations' = DOMAIN registrations \ forgotten
      /\ \A m \in DOMAIN registrations' : registrations'[m] = registrations[m]
  BY <1>1, <1>2, MemoryLess DEF Inv, Types
<1>9. /\ WaitingTypes'
      /\ \A m : m \in Awaited' <=> \E i \in DOMAIN waiting \ late : waiting[i].nick = m
  BY <1>1, <1>2, <1>4, WaitingLess DEF Inv, Types
<1>10. AskedIsAwaited'
  <2> SUFFICES ASSUME NEW n \in DOMAIN asked' PROVE n \in Awaited'
    BY DEF AskedIsAwaited
  <2>1. n \in Awaited /\ n \notin givenUp
    BY <1>7 DEF Inv, AskedIsAwaited
  <2> QED
    BY <1>3, <1>5, <1>9, <2>1
<1>11. NobodyIsOvertaken'
  <2> SUFFICES ASSUME NEW n \in Awaited', Known(n)' PROVE FALSE
    BY DEF NobodyIsOvertaken
  <2>1. n \in Awaited
    BY <1>3, <1>9
  <2>2. Known(n)
    BY <1>2, <1>8 DEF Known
  <2> QED
    BY <2>1, <2>2 DEF Inv, NobodyIsOvertaken
<1>12. Backed'
  BY <1>2, <1>7 DEF Inv, Backed, Paired, PairedTo, EndOf
<1>13. VouchedFor' /\ ToldAsItBegan'
  BY <1>2, <1>8 DEF Inv, VouchedFor, ToldAsItBegan
<1>14. ToldIsRemembered'
  <2> SUFFICES ASSUME NEW m \in Nicks, toldAt[m] # Never
               PROVE  \/ toldAt[m] + RegistrationSeconds <= now
                      \/ /\ m \in DOMAIN registrations'
                         /\ toldAt[m] + RegistrationSeconds <= registrations'[m].expires
    BY <1>2 DEF ToldIsRemembered
  <2>1. CASE m \in forgotten /\ m \in DOMAIN registrations
    <3>1. registrations[m].expires <= now /\ registrations[m].expires \in Nat
      BY <1>6, <2>1 DEF Inv, Types, MemoryTypes, Entry
    <3>2. toldAt[m] \in Nat /\ now \in Nat /\ RegistrationSeconds \in Nat
      BY Constants DEF Inv, Types, HistoryTypes, TimeTypes
    <3> QED
      BY <3>1, <3>2 DEF Inv, ToldIsRemembered
  <2>2. CASE ~(m \in forgotten /\ m \in DOMAIN registrations)
    BY <1>8, <2>2 DEF Inv, ToldIsRemembered
  <2> QED
    BY <2>1, <2>2
<1>15. TimeTypes' /\ StreamTypes' /\ CountTypes' /\ HistoryTypes' /\ lines' \in Seq(Said)
  BY <1>1, <1>2, NothingSaid, Stays DEF Inv, Types
<1> QED
  BY <1>7, <1>8, <1>9, <1>10, <1>11, <1>12, <1>13, <1>14, <1>15 DEF Inv, Types

\* With nothing known, asked, waited for or told, all holds.
LEMMA NothingKnown ==
  ASSUME DOMAIN registrations = {}, DOMAIN asked = {}, waiting = <<>>, stream = <<>>,
         \A n \in Nicks : toldAt[n] = Never
  PROVE  /\ AskedIsAwaited /\ NobodyIsOvertaken
         /\ Backed /\ VouchedFor /\ ToldAsItBegan /\ ToldIsRemembered
<1>1. Awaited = {}
  <2>1. DOMAIN waiting = {}
    OBVIOUS
  <2> QED
    BY <2>1 DEF Awaited
<1>2. Paired(stream)
  <2>1. Len(stream) = 0
    OBVIOUS
  <2>2. PairedTo(stream, 0)
    BY DEF PairedTo
  <2> QED
    BY <2>1, <2>2, Zenon DEF Paired
<1>3. AskedIsAwaited /\ NobodyIsOvertaken
  BY <1>1 DEF AskedIsAwaited, NobodyIsOvertaken
<1>4. Backed
  BY <1>2 DEF Backed
<1>5. VouchedFor /\ ToldAsItBegan /\ ToldIsRemembered
  BY DEF VouchedFor, ToldAsItBegan, ToldIsRemembered
<1> QED
  BY <1>3, <1>4, <1>5

LEMMA ReconnectedInv ==
  ASSUME Inv, Reconnected
  PROVE  Inv'
<1>1. /\ lost < MaxLost /\ lost' = lost + 1
      /\ registrations' = Without(registrations, Nicks) /\ asked' = Without(asked, Nicks)
      /\ waiting' = <<>> /\ stream' = <<>> /\ whois' = <<>> /\ lines' = <<>>
      /\ vouched' = [n \in Nicks |-> Never] /\ toldAt' = [n \in Nicks |-> Never]
      /\ UNCHANGED <<now, said, left>>
  BY DEF Reconnected
<1>2. MemoryTypes' /\ DOMAIN registrations' = {}
  <2>1. MemoryTypes' /\ DOMAIN registrations' = DOMAIN registrations \ Nicks
    BY <1>1, MemoryLess DEF Inv, Types
  <2> QED
    BY <2>1 DEF Inv, Types, MemoryTypes
<1>3. AskedTypes' /\ DOMAIN asked' = {}
  <2>1. AskedTypes' /\ DOMAIN asked' = DOMAIN asked \ Nicks
    BY <1>1, AskedLess DEF Inv, Types
  <2> QED
    BY <2>1 DEF Inv, Types, AskedTypes
<1>4. /\ AskedIsAwaited' /\ NobodyIsOvertaken'
      /\ Backed' /\ VouchedFor' /\ ToldAsItBegan' /\ ToldIsRemembered'
  <2>1. Awaited' = {}
    <3>1. DOMAIN waiting' = {}
      BY <1>1
    <3> QED
      BY <3>1 DEF Awaited
  <2>2. Paired(stream)'
    <3>1. PairedTo(<<>>, 0) /\ Len(<<>>) = 0
      BY DEF PairedTo
    <3> QED
      BY <1>1, <3>1 DEF Paired, PairedTo, EndOf
  <2>3. AskedIsAwaited' /\ NobodyIsOvertaken'
    BY <1>3, <2>1 DEF AskedIsAwaited, NobodyIsOvertaken
  <2>4. Backed'
    BY <1>3, <2>2 DEF Backed
  <2>5. VouchedFor' /\ ToldAsItBegan' /\ ToldIsRemembered'
    BY <1>1, <1>2 DEF VouchedFor, ToldAsItBegan, ToldIsRemembered
  <2> QED
    BY <2>3, <2>4, <2>5
<1>5. WaitingTypes' /\ lines' \in Seq(Said)
  BY <1>1, NothingSaid, EmptySeq DEF WaitingTypes
<1>6. StreamTypes'
  BY <1>1, EmptySeq DEF StreamTypes
<1>7. TimeTypes' /\ HistoryTypes'
  BY <1>1 DEF Inv, Types, TimeTypes, HistoryTypes
<1>8. CountTypes'
  BY <1>1, IrcSessionOK DEF Inv, Types, CountTypes
<1> QED
  BY <1>2, <1>3, <1>4, <1>5, <1>6, <1>7, <1>8 DEF Inv, Types

\* Whatever the server or a player sends comes after all that was sent before.
LEMMA Sent ==
  ASSUME Inv, NEW more \in Seq(Line), Paired(more), stream' = stream \o more,
         whois' \in Seq(Nicks), lines' = <<>>, CountTypes', UNCHANGED <<now, session, history>>
  PROVE  Inv'
<1>1. /\ UNCHANGED <<now, registrations>> /\ UNCHANGED <<now, waiting>> /\ UNCHANGED asked
      /\ UNCHANGED now /\ UNCHANGED <<now, history>> /\ UNCHANGED <<asked, waiting>>
      /\ UNCHANGED <<now, registrations, waiting>> /\ UNCHANGED <<registrations, vouched>>
      /\ UNCHANGED registrations /\ UNCHANGED <<now, registrations, toldAt>>
  BY DEF session, history
<1>2. stream' \in Seq(Line) /\ Backed'
  BY <1>1, BackedWithMore DEF Inv, Types
<1>3. StreamTypes'
  BY <1>2 DEF StreamTypes
<1>4. MemoryTypes' /\ WaitingTypes' /\ AskedTypes' /\ TimeTypes' /\ HistoryTypes'
  BY <1>1, Stays DEF Inv, Types
<1>5. AskedIsAwaited' /\ NobodyIsOvertaken' /\ VouchedFor' /\ ToldAsItBegan' /\ ToldIsRemembered'
  BY <1>1, Stays DEF Inv
<1>6. lines' \in Seq(Said)
  BY NothingSaid
<1> QED
  BY <1>2, <1>3, <1>4, <1>5, <1>6 DEF Inv, Types

LEMMA OneLine ==
  ASSUME NEW l \in Line, l.is # "vouched"
  PROVE  <<l>> \in Seq(Line) /\ Paired(<<l>>) /\ \A s \in Seq(Line) : Append(s, l) = s \o <<l>>
<1>1. PairedTo(<<l>>, 1)
  BY DEF PairedTo
<1>2. Len(<<l>>) = 1 /\ <<l>> \in Seq(Line)
  OBVIOUS
<1>3. Paired(<<l>>)
  BY <1>1, <1>2, Zenon DEF Paired
<1> QED
  BY <1>2, <1>3, AppendIsConcat

LEMMA SayInv ==
  ASSUME Inv, NEW n \in Nicks, NEW by \in Nicks, Say(n) \/ Leave(n) \/ Kick(n, by)
  PROVE  Inv'
<1>1. stream \in Seq(Line) /\ whois \in Seq(Nicks)
  BY DEF Inv, Types, StreamTypes
<1>2. CASE Say(n)
  <2> DEFINE l == [is |-> "command", of |-> n, id |-> said + 1]
  <2>1. /\ said < MaxSaid /\ said' = said + 1 /\ stream' = Append(stream, l) /\ lines' = <<>>
        /\ UNCHANGED <<now, session, history>> /\ UNCHANGED <<whois, left, lost>>
    BY <1>2 DEF Say
  <2>2. said + 1 \in 1 .. MaxSaid /\ CountTypes'
    BY <2>1, Constants DEF Inv, Types, CountTypes
  <2>3. l \in Line /\ l.is # "vouched"
    BY <2>2, AreLines
  <2> HIDE DEF l
  <2>4. <<l>> \in Seq(Line) /\ Paired(<<l>>) /\ stream' = stream \o <<l>>
    BY <1>1, <2>1, <2>3, OneLine
  <2>5. whois' \in Seq(Nicks)
    BY <1>1, <2>1
  <2> QED
    BY <2>1, <2>2, <2>4, <2>5, Sent
<1>3. CASE Leave(n)
  <2> DEFINE l == [is |-> "left", of |-> n]
  <2>1. /\ left < MaxLeft /\ left' = left + 1 /\ stream' = Append(stream, l) /\ lines' = <<>>
        /\ UNCHANGED <<now, session, history>> /\ UNCHANGED <<whois, said, lost>>
    BY <1>3 DEF Leave
  <2>2. CountTypes'
    BY <2>1, IrcSessionOK DEF Inv, Types, CountTypes
  <2>3. l \in Line /\ l.is # "vouched"
    BY AreLines
  <2> HIDE DEF l
  <2>4. <<l>> \in Seq(Line) /\ Paired(<<l>>) /\ stream' = stream \o <<l>>
    BY <1>1, <2>1, <2>3, OneLine
  <2>5. whois' \in Seq(Nicks)
    BY <1>1, <2>1
  <2> QED
    BY <2>1, <2>2, <2>4, <2>5, Sent
<1>4. CASE Kick(n, by)
  <2> DEFINE l == [is |-> "kicked", of |-> n, by |-> by]
  <2>1. /\ left < MaxLeft /\ left' = left + 1 /\ stream' = Append(stream, l) /\ lines' = <<>>
        /\ UNCHANGED <<now, session, history>> /\ UNCHANGED <<whois, said, lost>>
    BY <1>4 DEF Kick
  <2>2. CountTypes'
    BY <2>1, IrcSessionOK DEF Inv, Types, CountTypes
  <2>3. l \in Line /\ l.is # "vouched"
    BY AreLines
  <2> HIDE DEF l
  <2>4. <<l>> \in Seq(Line) /\ Paired(<<l>>) /\ stream' = stream \o <<l>>
    BY <1>1, <2>1, <2>3, OneLine
  <2>5. whois' \in Seq(Nicks)
    BY <1>1, <2>1
  <2> QED
    BY <2>1, <2>2, <2>4, <2>5, Sent
<1> QED
  BY <1>2, <1>3, <1>4

LEMMA ReplyToWhoisInv ==
  ASSUME Inv, ReplyToWhois
  PROVE  Inv'
<1> DEFINE n == Head(whois)
<1>1. stream \in Seq(Line) /\ whois \in Seq(Nicks) /\ CountTypes
  BY DEF Inv, Types, StreamTypes
<1>2. /\ whois # <<>> /\ whois' = Tail(whois) /\ lines' = <<>>
      /\ UNCHANGED <<now, session, history>> /\ UNCHANGED counts
  BY DEF ReplyToWhois
<1>3. n \in Nicks /\ whois' \in Seq(Nicks)
  BY <1>1, <1>2, HeadTailProperties
<1>4. CountTypes'
  BY <1>1, <1>2, Stays
<1>5. \/ stream' = stream \o <<[is |-> "vouched", of |-> n], EndOf(n, TRUE)>>
      \/ stream' = stream \o <<EndOf(n, FALSE)>>
      \/ stream' = stream \o <<[is |-> "unknown", of |-> n], EndOf(n, FALSE)>>
  BY DEF ReplyToWhois, EndOf
<1> HIDE DEF n
<1>6. /\ EndOf(n, TRUE) \in Line /\ EndOf(n, FALSE) \in Line
      /\ [is |-> "vouched", of |-> n] \in Line /\ [is |-> "unknown", of |-> n] \in Line
  BY <1>3, AreLines DEF EndOf
<1>7. ASSUME NEW a \in Line, NEW e \in Line, e.is = "end",
             a.is = "vouched" => e = EndOf(a.of, TRUE)
      PROVE  <<a, e>> \in Seq(Line) /\ Paired(<<a, e>>)
  <2>1. PairedTo(<<a, e>>, 2)
    <3> SUFFICES ASSUME NEW i \in 1 .. 2, <<a, e>>[i].is = "vouched"
                 PROVE  i + 1 \in 1 .. 2 /\ <<a, e>>[i + 1] = EndOf(<<a, e>>[i].of, TRUE)
      BY DEF PairedTo
    <3>1. i = 1
      BY <1>7
    <3>2. <<a, e>>[1] = a /\ <<a, e>>[2] = e /\ i + 1 = 2 /\ i + 1 \in 1 .. 2
      BY <3>1
    <3>3. e = EndOf(a.of, TRUE)
      BY <1>7, <3>1, <3>2
    <3> QED
      BY <3>1, <3>2, <3>3, Zenon
  <2>2. Len(<<a, e>>) = 2 /\ <<a, e>> \in Seq(Line)
    OBVIOUS
  <2> QED
    BY <2>1, <2>2, Zenon DEF Paired
<1>8. EndOf(n, TRUE).is = "end" /\ EndOf(n, FALSE).is = "end"
  BY DEF EndOf
<1>9. CASE stream' = stream \o <<[is |-> "vouched", of |-> n], EndOf(n, TRUE)>>
  <2> DEFINE a == [is |-> "vouched", of |-> n]
             e == EndOf(n, TRUE)
  <2>1. a \in Line /\ e \in Line /\ e.is = "end" /\ (a.is = "vouched" => e = EndOf(a.of, TRUE))
    BY <1>6, <1>8
  <2>2. stream' = stream \o <<a, e>>
    BY <1>9
  <2> HIDE DEF a, e
  <2>3. <<a, e>> \in Seq(Line) /\ Paired(<<a, e>>)
    BY <1>7, <2>1
  <2> QED
    BY <1>2, <1>3, <1>4, <2>2, <2>3, Sent
<1>10. CASE stream' = stream \o <<EndOf(n, FALSE)>>
  <2> DEFINE e == EndOf(n, FALSE)
  <2>1. e \in Line /\ e.is # "vouched" /\ stream' = stream \o <<e>>
    BY <1>6, <1>8, <1>10
  <2> HIDE DEF e
  <2>2. <<e>> \in Seq(Line) /\ Paired(<<e>>)
    BY <2>1, OneLine
  <2> QED
    BY <1>2, <1>3, <1>4, <2>1, <2>2, Sent
<1>11. CASE stream' = stream \o <<[is |-> "unknown", of |-> n], EndOf(n, FALSE)>>
  <2> DEFINE a == [is |-> "unknown", of |-> n]
             e == EndOf(n, FALSE)
  <2>1. a \in Line /\ e \in Line /\ e.is = "end" /\ (a.is = "vouched" => e = EndOf(a.of, TRUE))
    BY <1>6, <1>8
  <2>2. stream' = stream \o <<a, e>>
    BY <1>11
  <2> HIDE DEF a, e
  <2>3. <<a, e>> \in Seq(Line) /\ Paired(<<a, e>>)
    BY <1>7, <2>1
  <2> QED
    BY <1>2, <1>3, <1>4, <2>2, <2>3, Sent
<1> QED
  BY <1>5, <1>9, <1>10, <1>11

LEMMA ClockInv ==
  ASSUME Inv, Clock
  PROVE  Inv'
<1>1. /\ now' = now + 1 /\ lines' = <<>> /\ UNCHANGED server /\ UNCHANGED counts
      /\ UNCHANGED <<registrations, asked, waiting>> /\ UNCHANGED stream
      /\ UNCHANGED <<vouched, toldAt>>
  BY DEF Clock, session, server, history
<1>2. now \in Nat /\ RegistrationSeconds \in Nat /\ WhoisSeconds \in Nat
  BY Constants DEF Inv, Types, TimeTypes
<1>3. TimeTypes' /\ StreamTypes' /\ CountTypes' /\ AskedTypes' /\ lines' \in Seq(Said)
  <2>1. TimeTypes'
    BY <1>1, <1>2 DEF Inv, Types, TimeTypes
  <2> QED
    BY <1>1, <2>1, NothingSaid, Stays DEF Inv, Types
<1>4. MemoryTypes'
  <2>1. MemoryTypes
    BY DEF Inv, Types
  <2>2. \A n \in DOMAIN registrations :
          registrations[n].expires \in Nat /\ registrations[n].told \in Nat
    BY <2>1 DEF MemoryTypes, Entry
  <2>3. \A n \in DOMAIN registrations :
          registrations[n].expires <= now' + RegistrationSeconds /\ registrations[n].told <= now'
    BY <1>1, <1>2, <2>1, <2>2 DEF MemoryTypes
  <2> QED
    BY <1>1, <2>1, <2>3 DEF MemoryTypes
<1>5. WaitingTypes'
  <2>1. WaitingTypes
    BY DEF Inv, Types
  <2>2. \A i \in DOMAIN waiting : waiting[i].deadline \in Nat
    <3>1. DOMAIN waiting = 1 .. Len(waiting) /\ waiting \in [1 .. Len(waiting) -> Waiter]
      BY <2>1, LenProperties DEF WaitingTypes
    <3> QED
      BY <3>1 DEF Waiter
  <2>3. \A i \in DOMAIN waiting : waiting[i].deadline <= now' + WhoisSeconds
    BY <1>1, <1>2, <2>1, <2>2 DEF WaitingTypes
  <2> QED
    BY <1>1, <2>1, <2>3 DEF WaitingTypes
<1>6. HistoryTypes'
  <2>1. HistoryTypes
    BY DEF Inv, Types
  <2>2. \A n \in Nicks : /\ vouched[n] # Never => vouched[n] <= now'
                         /\ toldAt[n] # Never => toldAt[n] <= now'
    BY <1>1, <1>2, <2>1 DEF HistoryTypes
  <2> QED
    BY <1>1, <2>1, <2>2 DEF HistoryTypes
<1>7. AskedIsAwaited' /\ VouchedFor' /\ ToldAsItBegan' /\ Backed'
  BY <1>1, Stays DEF Inv
<1>8. NobodyIsOvertaken'
  <2> SUFFICES ASSUME NEW n \in Awaited, Known(n)' PROVE FALSE
    BY <1>1 DEF NobodyIsOvertaken, Awaited
  <2>1. n \in DOMAIN registrations /\ registrations[n].expires > now + 1
    BY <1>1 DEF Known
  <2>2. registrations[n].expires \in Nat
    BY <2>1 DEF Inv, Types, MemoryTypes, Entry
  <2>3. Known(n)
    BY <1>2, <2>1, <2>2 DEF Known
  <2> QED
    BY <2>3 DEF Inv, NobodyIsOvertaken
<1>9. ToldIsRemembered'
  <2> SUFFICES ASSUME NEW n \in Nicks, toldAt[n] # Never
               PROVE  \/ toldAt[n] + RegistrationSeconds <= now'
                      \/ /\ n \in DOMAIN registrations
                         /\ toldAt[n] + RegistrationSeconds <= registrations[n].expires
    BY <1>1 DEF ToldIsRemembered
  <2>1. toldAt[n] \in Nat
    BY DEF Inv, Types, HistoryTypes
  <2> QED
    BY <1>1, <1>2, <2>1 DEF Inv, ToldIsRemembered
<1> QED
  BY <1>3, <1>4, <1>5, <1>6, <1>7, <1>8, <1>9 DEF Inv, Types

-----------------------------------------------------------------------------
(* The inductive invariant, and the theorems. *)

LEMMA InitInv == Init => Inv
<1> SUFFICES ASSUME Init PROVE Inv
  OBVIOUS
<1>1. /\ now = RegistrationSeconds /\ DOMAIN registrations = {} /\ DOMAIN asked = {}
      /\ waiting = <<>> /\ lines = <<>> /\ stream = <<>> /\ whois = <<>>
      /\ said = 0 /\ left = 0 /\ lost = 0
      /\ vouched = [n \in Nicks |-> Never] /\ toldAt = [n \in Nicks |-> Never]
  BY DEF Init, Start
<1>2. /\ AskedIsAwaited /\ NobodyIsOvertaken
      /\ Backed /\ VouchedFor /\ ToldAsItBegan /\ ToldIsRemembered
  BY <1>1, NothingKnown
<1>3. TimeTypes
  BY <1>1, Constants DEF TimeTypes
<1>4. MemoryTypes
  BY DEF Init, MemoryTypes
<1>5. AskedTypes
  BY DEF Init, AskedTypes
<1>6. WaitingTypes
  <2>1. waiting \in Seq(Waiter) /\ DOMAIN waiting = {}
    BY <1>1, EmptySeq
  <2> QED
    BY <2>1 DEF WaitingTypes
<1>7. lines \in Seq(Said) /\ StreamTypes
  BY <1>1, EmptySeq DEF StreamTypes
<1>8. CountTypes
  BY <1>1, IrcSessionOK DEF CountTypes
<1>9. HistoryTypes
  BY <1>1 DEF HistoryTypes
<1> QED
  BY <1>2, <1>3, <1>4, <1>5, <1>6, <1>7, <1>8, <1>9 DEF Inv, Types

LEMMA StutterInv == Inv /\ UNCHANGED vars => Inv'
<1> SUFFICES ASSUME Inv, UNCHANGED vars PROVE Inv'
  OBVIOUS
<1>1. /\ UNCHANGED <<now, registrations>> /\ UNCHANGED <<now, waiting>> /\ UNCHANGED asked
      /\ UNCHANGED now /\ UNCHANGED server /\ UNCHANGED counts /\ UNCHANGED <<now, history>>
      /\ UNCHANGED <<asked, waiting>> /\ UNCHANGED <<now, registrations, waiting>>
      /\ UNCHANGED <<asked, stream>> /\ UNCHANGED <<registrations, vouched>>
      /\ UNCHANGED registrations /\ UNCHANGED <<now, registrations, toldAt>>
      /\ UNCHANGED lines
  BY DEF vars, session, server, history
<1> QED
  BY <1>1, Stays DEF Inv, Types

LEMMA NextInv == Inv /\ [Next]_vars => Inv'
<1> SUFFICES ASSUME Inv, [Next]_vars PROVE Inv'
  OBVIOUS
<1>1. CASE Handle
  <2>1. PICK n \in Nicks :
          \/ CommandAnswered(n) \/ CommandRefused(n) \/ CommandWaits(n)
          \/ Vouched(n) \/ Released(n) \/ EndIgnored(n) \/ Unknown(n) \/ Left(n)
          \/ Kicked(n)
    BY <1>1 DEF Handle
  <2> QED
    BY <2>1, CommandAnsweredInv, CommandRefusedInv, CommandWaitsInv, VouchedInv,
       ReleasedInv, EndIgnoredInv, UnknownInv, LeftInv, KickedInv
<1>2. CASE SessionTick
  BY <1>2, SessionTickInv
<1>3. CASE Reconnected
  BY <1>3, ReconnectedInv
<1>4. CASE \E n \in Nicks : Say(n) \/ Leave(n) \/ \E by \in Nicks : Kick(n, by)
  BY <1>4, SayInv
<1>5. CASE ReplyToWhois
  BY <1>5, ReplyToWhoisInv
<1>6. CASE Clock
  BY <1>6, ClockInv
<1>7. CASE UNCHANGED vars
  BY <1>7, StutterInv
<1> QED
  BY <1>1, <1>2, <1>3, <1>4, <1>5, <1>6, <1>7 DEF Next

LEMMA Always == Spec => []Inv
BY InitInv, NextInv, PTL DEF Spec

\* The session's tables keep their types, and nothing is remembered or waited for beyond
\* its time: expires and told of Registration, deadline of Waiting (irc_session.hpp).
THEOREM TypesHold == Spec => []TypeOK
<1>1. Inv => TypeOK
  BY TypesAreTypeOK DEF Inv
<1> QED
  BY <1>1, Always, PTL

\* Session::release and Session::tick, which empty asked_ and waiting_ apart, never leave
\* a WHOIS in flight for a nick nobody waits for.
THEOREM AskedAreAwaited == Spec => []AskedIsAwaited
<1>1. Inv => AskedIsAwaited
  BY DEF Inv
<1> QED
  BY <1>1, Always, PTL

\* No command is answered at once (Session::handle) while another of the same nick waits.
THEOREM CommandsKeepTheirOrder == Spec => []NobodyIsOvertaken
<1>1. Inv => NobodyIsOvertaken
  BY DEF Inv
<1> QED
  BY <1>1, Always, PTL

\* Which handlers say something in the channel.
LEMMA WhoSpeaks ==
  ASSUME Inv, Next, NEW i \in DOMAIN lines'
  PROVE  \E n \in Nicks :
           \/ CommandAnswered(n)
           \/ Released(n)
<1> DEFINE speaks == \E n \in Nicks : CommandAnswered(n) \/ Released(n)
<1>1. lines' # <<>>
  OBVIOUS
<1>2. CASE Handle
  <2>1. PICK n \in Nicks :
          \/ CommandAnswered(n) \/ CommandRefused(n) \/ CommandWaits(n)
          \/ Vouched(n) \/ Released(n) \/ EndIgnored(n) \/ Unknown(n) \/ Left(n)
          \/ Kicked(n)
    BY <1>2 DEF Handle
  <2>2. ~CommandRefused(n)
    BY <1>1, RefusedInSilence
  <2>3. ~CommandWaits(n) /\ ~Vouched(n) /\ ~EndIgnored(n) /\ ~Unknown(n) /\ ~Left(n)
       /\ ~Kicked(n)
    BY <1>1 DEF CommandWaits, Vouched, EndIgnored, Unknown, Left, Kicked
  <2> QED
    BY <2>1, <2>2, <2>3
<1>3. ~SessionTick /\ ~Reconnected /\ ~ReplyToWhois /\ ~Clock
  BY <1>1 DEF SessionTick, Reconnected, ReplyToWhois, Clock
<1>4. ~\E n \in Nicks : Say(n) \/ Leave(n) \/ \E by \in Nicks : Kick(n, by)
  BY <1>1 DEF Say, Leave, Kick
<1> QED
  BY <1>2, <1>3, <1>4 DEF Next

\* When an answer goes to a nick, and when a refusal does.
LEMMA Speech ==
  ASSUME Inv, Next, NEW i \in DOMAIN lines'
  PROVE  /\ lines'[i].says = "answer" =>
              LET since == vouched'[lines'[i].to] IN
              since # Never /\ now - since < RegistrationSeconds
         /\ lines'[i].says = "register" =>
              LET since == toldAt[lines'[i].to] IN
              since = Never \/ now - since >= RegistrationSeconds
<1>1. PICK n \in Nicks : CommandAnswered(n) \/ Released(n)
  BY WhoSpeaks
<1>2. /\ now \in Nat /\ vouched \in [Nicks -> Nat \cup {Never}]
      /\ toldAt \in [Nicks -> Nat \cup {Never}]
  BY DEF Inv, Types, TimeTypes, HistoryTypes
<1>3. CASE CommandAnswered(n)
  <2>1. lines' = <<Answer(n, Head(stream).id)>> /\ UNCHANGED vouched
    BY <1>3 DEF CommandAnswered, history
  <2>2. lines'[i].says = "answer" /\ lines'[i].to = n
    BY <2>1 DEF Answer
  <2>3. /\ n \in DOMAIN registrations /\ registrations[n].registered
        /\ registrations[n].expires > now
    BY <1>3 DEF CommandAnswered, Known
  <2>4. registrations[n].expires \in Nat
    BY <2>3 DEF Inv, Types, MemoryTypes, Entry
  <2>5. vouched[n] # Never /\ registrations[n].expires <= vouched[n] + RegistrationSeconds
    BY <2>3 DEF Inv, VouchedFor
  <2>6. vouched[n] \in Nat
    BY <1>2, <2>5
  <2>7. now - vouched[n] < RegistrationSeconds
    BY <1>2, <2>3, <2>4, <2>5, <2>6, Constants
  <2> QED
    BY <2>1, <2>2, <2>5, <2>7
<1>4. CASE Released(n)
  <2>1. /\ n \in DOMAIN asked /\ lines'[i].to = n
        /\ (lines'[i].says = "answer" <=> asked[n])
        /\ (asked[n] => vouched' = [vouched EXCEPT ![n] = now])
    BY <1>4, ReleasedDoes
  <2>2. CASE asked[n]
    <3>1. vouched'[n] = now
      BY <1>2, <2>1, <2>2
    <3>2. now # Never /\ now - now < RegistrationSeconds
      BY <1>2, Constants
    <3> QED
      BY <2>1, <2>2, <3>1, <3>2
  <2>3. CASE ~asked[n]
    <3>1. lines'[i].says # "answer"
      BY <2>1, <2>3
    <3>2. ASSUME toldAt[n] # Never PROVE now - toldAt[n] >= RegistrationSeconds
      <4>1. toldAt[n] \in Nat
        BY <1>2, <3>2
      <4>2. ASSUME n \in DOMAIN registrations,
                   toldAt[n] + RegistrationSeconds <= registrations[n].expires
            PROVE  toldAt[n] + RegistrationSeconds <= now
        <5>1. ~Known(n)
          BY <2>1 DEF Inv, AskedIsAwaited, NobodyIsOvertaken
        <5>2. registrations[n].expires \in Nat
          BY <4>2 DEF Inv, Types, MemoryTypes, Entry
        <5> QED
          BY <1>2, <4>1, <4>2, <5>1, <5>2, Constants DEF Known
      <4>3. toldAt[n] + RegistrationSeconds <= now
        BY <3>2, <4>2 DEF Inv, ToldIsRemembered
      <4> QED
        BY <1>2, <4>1, <4>3, Constants
    <3> QED
      BY <2>1, <3>1, <3>2
  <2> QED
    BY <2>1, <2>2, <2>3 DEF Inv, Types, AskedTypes
<1> QED
  BY <1>1, <1>3, <1>4

\* Whoever the channel hears answered (irc_run's responder, from Session::handle and
\* release), NickServ vouched for on this link, lately, and he has not gone by himself
\* since: NICK, QUIT and PART are forgotten, being kicked out is not.
THEOREM OnlyTheVouchedForAreAnswered == Spec => AnsweredIsVouchedFor
<1>1. Inv /\ [Next]_vars =>
        [\A i \in DOMAIN lines' :
           lines'[i].says = "answer" =>
             LET since == vouched'[lines'[i].to] IN
             since # Never /\ now - since < RegistrationSeconds]_vars
  BY Speech
<1> QED
  BY <1>1, Always, PTL DEF Spec, AnsweredIsVouchedFor

\* Nobody is told to register twice in registration_seconds (Registration::told), unless
\* he left or kicked somebody out, or the link dropped, in between.
THEOREM NobodyIsToldTooOften == Spec => ToldSparingly
<1>1. Inv /\ [Next]_vars =>
        [\A i \in DOMAIN lines' :
           lines'[i].says = "register" =>
             LET since == toldAt[lines'[i].to] IN
             since = Never \/ now - since >= RegistrationSeconds]_vars
  BY Speech
<1> QED
  BY <1>1, Always, PTL DEF Spec, ToldSparingly

\* A nick that was asked about and is known not to be registered hears nothing more while
\* that is remembered: release told him, so handle's own telling is never reached.
THEOREM TheRefusedHearNothingMore ==
  Spec => [][\A n \in Nicks : CommandRefused(n) => lines' = <<>>]_vars
<1>1. Inv /\ [Next]_vars => [\A n \in Nicks : CommandRefused(n) => lines' = <<>>]_vars
  BY RefusedInSilence
<1> QED
  BY <1>1, Always, PTL DEF Spec

=============================================================================
