--------------------------- MODULE StorageProofs ---------------------------
(***************************************************************************)
(* What the documents hold, that the steps of Storage implement AtomicStore *)
(* and that nothing is reset without a copy, for any threads, players,      *)
(* quotes and bounds.                                                      *)
(***************************************************************************)
EXTENDS Storage, FiniteSetTheorems, TLAPS

-----------------------------------------------------------------------------
(* The documents: what a transaction leaves is a store again. *)

LEMMA FirstStores == NewStore \in Store /\ EmptyStore \in Store
<1>1. NewStore.state \in State /\ NewStore.quotes \in Quotes
  BY DocumentsOK, SMT DEF NewStore, State, Quotes
<1>2. NewStore \in Store
  BY <1>1 DEF NewStore, Store
<1>3. [NewStore.state EXCEPT !.nukes = Players] \in State
  BY <1>1, SMT DEF State
<1> QED
  BY <1>1, <1>2, <1>3, SMT DEF EmptyStore, Store, Quotes

LEMMA StoreParts ==
  ASSUME NEW s \in Store
  PROVE  /\ s.quotes \in Quotes /\ s.state \in State
         /\ s.state.scores \in [Players -> Nat]
         /\ s.state.quote_authors \in [Texts -> Players \cup {Nobody}]
         /\ s.state.quotes_added \in [Players -> Nat]
         /\ s.state.nukes \in SUBSET Players
BY DEF Store, State

\* What the transactions change, one place at a time.
LEMMA QuotesUpdate ==
  ASSUME NEW s \in Store, NEW quotes \in Quotes
  PROVE  [s EXCEPT !.quotes = quotes] \in Store /\ [s EXCEPT !.quotes = quotes].state = s.state
BY DEF Store

LEMMA StateUpdate ==
  ASSUME NEW s \in Store, NEW state \in State
  PROVE  [s EXCEPT !.state = state] \in Store /\ [s EXCEPT !.state = state].state = state
BY DEF Store

LEMMA ScoresUpdate ==
  ASSUME NEW s \in Store, NEW scores \in [Players -> Nat]
  PROVE  /\ [s EXCEPT !.state.scores = scores] \in Store
         /\ [s EXCEPT !.state.scores = scores].state = [s.state EXCEPT !.scores = scores]
<1>1. [s.state EXCEPT !.scores = scores] \in State
  BY StoreParts DEF State
<1>2. [s EXCEPT !.state.scores = scores] = [s EXCEPT !.state = [s.state EXCEPT !.scores = scores]]
  OBVIOUS
<1> QED
  BY <1>1, <1>2, StateUpdate

LEMMA NukesUpdate ==
  ASSUME NEW s \in Store, NEW nukes \in SUBSET Players
  PROVE  [s EXCEPT !.state.nukes = nukes] \in Store
<1>1. [s.state EXCEPT !.nukes = nukes] \in State
  BY StoreParts DEF State
<1>2. [s EXCEPT !.state.nukes = nukes] = [s EXCEPT !.state = [s.state EXCEPT !.nukes = nukes]]
  OBVIOUS
<1> QED
  BY <1>1, <1>2, StateUpdate

LEMMA AddedUpdate ==
  ASSUME NEW s \in Store, NEW added \in [Players -> Nat]
  PROVE  [s EXCEPT !.state.quotes_added = added] \in Store
<1>1. [s.state EXCEPT !.quotes_added = added] \in State
  BY StoreParts DEF State
<1>2. [s EXCEPT !.state.quotes_added = added]
        = [s EXCEPT !.state = [s.state EXCEPT !.quotes_added = added]]
  OBVIOUS
<1> QED
  BY <1>1, <1>2, StateUpdate

LEMMA AuthorsUpdate ==
  ASSUME NEW s \in Store, NEW authors \in [Texts -> Players \cup {Nobody}]
  PROVE  /\ [s EXCEPT !.state.quote_authors = authors] \in Store
         /\ [s EXCEPT !.state.quote_authors = authors].state.scores = s.state.scores
         /\ [s EXCEPT !.state.quote_authors = authors].state.quotes_added = s.state.quotes_added
<1> DEFINE state == [s.state EXCEPT !.quote_authors = authors]
<1>1. state \in State /\ state.scores = s.state.scores /\ state.quotes_added = s.state.quotes_added
  BY StoreParts DEF State
<1>2. [s EXCEPT !.state.quote_authors = authors] = [s EXCEPT !.state = state]
  OBVIOUS
<1> HIDE DEF state
<1> QED
  BY <1>1, <1>2, StateUpdate

LEMMA PlayedType ==
  ASSUME NEW s \in Store, NEW p \in Players PROVE Played(s, p) \in Store
<1> DEFINE scores == [s.state.scores EXCEPT ![p] = @ + 1]
<1>1. scores \in [Players -> Nat]
  BY StoreParts
<1>2. [s EXCEPT !.state.scores[p] = @ + 1] = [s EXCEPT !.state.scores = scores]
  OBVIOUS
<1> HIDE DEF scores
<1> QED
  BY <1>1, <1>2, ScoresUpdate DEF Played

LEMMA AddedType ==
  ASSUME NEW s \in Store, NEW p \in Players, NEW text \in Texts
  PROVE  QuoteAdded(s, p, text) \in Store
<1>1. CASE s.state.scores[p] < Cost \/ text \in s.quotes
  BY <1>1 DEF QuoteAdded
<1>2. CASE ~(s.state.scores[p] < Cost \/ text \in s.quotes)
  <2> DEFINE s1 == [s EXCEPT !.quotes = s.quotes \cup {text}]
             authors == [s1.state.quote_authors EXCEPT ![text] = p]
             s2 == [s1 EXCEPT !.state.quote_authors = authors]
             scores == [s2.state.scores EXCEPT ![p] = @ - Cost]
             s3 == [s2 EXCEPT !.state.scores = scores]
             added == [s3.state.quotes_added EXCEPT ![p] = @ + 1]
             s4 == [s3 EXCEPT !.state.quotes_added = added]
  <2>1. QuoteAdded(s, p, text) = s4
    BY <1>2, ZenonT(30) DEF QuoteAdded
  <2>2. s.quotes \cup {text} \in Quotes
    BY StoreParts DEF Quotes
  <2>3. s1 \in Store /\ s1.state = s.state
    BY <2>2, QuotesUpdate
  <2> HIDE DEF s1
  <2>4. authors \in [Texts -> Players \cup {Nobody}]
    BY <2>3, StoreParts
  <2> HIDE DEF authors
  <2>5. s2 \in Store /\ s2.state.scores = s.state.scores
    BY <2>3, <2>4, AuthorsUpdate
  <2> HIDE DEF s2
  <2>6. s.state.scores[p] \in Nat /\ s.state.scores[p] - Cost \in Nat
    BY <1>2, StoreParts, DocumentsOK
  <2>7. scores \in [Players -> Nat]
    BY <2>5, <2>6, StoreParts
  <2> HIDE DEF scores
  <2>8. s3 \in Store
    BY <2>5, <2>7, ScoresUpdate
  <2> HIDE DEF s3
  <2>9. added \in [Players -> Nat]
    BY <2>8, StoreParts
  <2> HIDE DEF added
  <2> QED
    BY <2>1, <2>8, <2>9, AddedUpdate
<1> QED
  BY <1>1, <1>2

LEMMA DeletedType ==
  ASSUME NEW s \in Store, NEW text \in Texts PROVE QuoteDeleted(s, text) \in Store
<1> DEFINE author == s.state.quote_authors[text]
           s1 == [s EXCEPT !.quotes = s.quotes \ {text}]
<1>1. s.quotes \ {text} \in Quotes
  BY StoreParts DEF Quotes
<1>2. s1 \in Store /\ s1.state = s.state
  BY <1>1, QuotesUpdate
<1>3. CASE text \notin s.quotes \/ author = Nobody
  BY <1>2, <1>3 DEF QuoteDeleted
<1>4. CASE text \in s.quotes /\ author # Nobody
  <2> DEFINE authors == [s1.state.quote_authors EXCEPT ![text] = Nobody]
             s2 == [s1 EXCEPT !.state.quote_authors = authors]
             added == [s2.state.quotes_added EXCEPT ![author] = IF @ > 0 THEN @ - 1 ELSE 0]
             s3 == [s2 EXCEPT !.state.quotes_added = added]
  <2>1. QuoteDeleted(s, text) = s3
    BY <1>4 DEF QuoteDeleted
  <2>2. author \in Players
    BY <1>4, StoreParts
  <2> HIDE DEF author, s1
  <2>3. authors \in [Texts -> Players \cup {Nobody}]
    BY <1>2, StoreParts
  <2> HIDE DEF authors
  <2>4. s2 \in Store
    BY <1>2, <2>3, AuthorsUpdate
  <2> HIDE DEF s2
  <2>5. added \in [Players -> Nat]
    BY <2>2, <2>4, StoreParts
  <2> HIDE DEF added
  <2> QED
    BY <2>1, <2>4, <2>5, AddedUpdate
<1> QED
  BY <1>3, <1>4

LEMMA AllResetType ==
  ASSUME NEW s \in Store, NEW p PROVE AllReset(s, p) \in Store
<1> DEFINE s1 == [s EXCEPT !.state.scores = [q \in Players |-> 0]]
           s2 == [s1 EXCEPT !.state.nukes = {}]
<1>1. AllReset(s, p) \in {s, s2}
  BY DEF AllReset
<1>2. s1 \in Store
  BY ScoresUpdate
<1> HIDE DEF s1
<1>3. s2 \in Store
  BY <1>2, NukesUpdate
<1> QED
  BY <1>1, <1>3

LEMMA PlayerResetType ==
  ASSUME NEW s \in Store, NEW p, NEW victim \in Players PROVE PlayerReset(s, p, victim) \in Store
<1> DEFINE scores == [s.state.scores EXCEPT ![victim] = 0]
           s1 == [s EXCEPT !.state.scores = scores]
           nukes == s1.state.nukes \ {p, victim}
           s2 == [s1 EXCEPT !.state.nukes = nukes]
<1>1. PlayerReset(s, p, victim) \in {s, s2}
  BY DEF PlayerReset
<1>2. scores \in [Players -> Nat]
  BY StoreParts
<1> HIDE DEF scores
<1>3. s1 \in Store
  BY <1>2, ScoresUpdate
<1> HIDE DEF s1
<1>4. nukes \in SUBSET Players
  BY <1>3, StoreParts
<1> HIDE DEF nukes
<1>5. s2 \in Store
  BY <1>3, <1>4, NukesUpdate
<1> QED
  BY <1>1, <1>5

LEMMA OutcomesType ==
  ASSUME NEW s \in Store, NEW request \in Requests, NEW after \in Outcomes(request, s)
  PROVE  after \in Store
<1>1. CASE request \in [do : {"play", "reset", "reset all"}, who : Players]
  <2>1. CASE request.do = "play"
    BY <1>1, <2>1, PlayedType DEF Outcomes
  <2>2. CASE request.do = "reset all"
    BY <1>1, <2>2, AllResetType DEF Outcomes
  <2>3. CASE request.do = "reset"
    <3>1. PICK v \in Players : after = PlayerReset(s, request.who, v)
      BY <2>3 DEF Outcomes
    <3> QED
      BY <3>1, PlayerResetType
  <2> QED
    BY <1>1, <2>1, <2>2, <2>3
<1>2. CASE request \in [do : {"add"}, who : Players, text : Texts]
  BY <1>2, AddedType DEF Outcomes
<1>3. CASE request \in [do : {"delete"}, text : Texts]
  BY <1>3, DeletedType DEF Outcomes
<1> QED
  BY <1>1, <1>2, <1>3 DEF Requests

-----------------------------------------------------------------------------
(* The inductive invariant. *)

Session == [at : 0 .. MaxTime, resets : BOOLEAN, before : Store, after : Store,
            saving : {"nothing", "quotes", "state", "undo"},
            result : {"none", "done", "failed"}]

\* A thread that runs its function or saves what it left has the mutex.
Serving(t) == pc[t] \in {"copy", "write", "replace", "leave"}
Exclusive == \A t \in Threads : Serving(t) => mutex = t

\* Nothing of an older version is left once the bot runs.
Running == /\ \A t \in Threads : pc[t] # "out" => up
           /\ up => file["state"] # Old

\* What the callers know.
Answered ==
  \A t \in Threads :
    /\ pc[t] = "out" => told[t] \in {"nothing", "done", "failed"}
    /\ pc[t] # "out" => told[t] = "asked"
    /\ pc[t] = "leave" => session[t].result \in {"done", "failed"}

\* What a thread that saves has loaded is on disk, but for the quotes it has saved.
Loaded(t) ==
  LET s == session[t] IN
  /\ \E request \in Requests : s.after \in Outcomes(request, s.before)
  /\ pc[t] = "copy" => OnDisk = s.before
  /\ pc[t] # "copy" =>
       \/ s.saving = "quotes" /\ OnDisk = s.before /\ QuotesChanged(s)
       \/ /\ \/ s.saving = "state" /\ StateChanged(s)
             \/ s.saving = "undo" /\ QuotesChanged(s)
          /\ OnDisk = [s.before EXCEPT !.quotes = s.after.quotes]
  /\ pc[t] = "replace" => temporary[FileOf(s.saving)] = Contents(s)

Saved == \A t \in Threads : pc[t] \in {"copy", "write", "replace"} => Loaded(t)

Inv == TypeOK /\ Exclusive /\ Running /\ Answered /\ Saved

\* What is on disk, by document.
LEMMA DiskType ==
  TypeOK => /\ file["quotes"] \in {Missing} \cup Quotes
            /\ file["state"] \in {Missing, Old} \cup State
            /\ OnDisk \in Store
            /\ OnDisk.quotes = QuotesOf(file["quotes"])
            /\ OnDisk.state = StateOf(file["state"])
<1> SUFFICES ASSUME TypeOK PROVE /\ file["quotes"] \in {Missing} \cup Quotes
                                 /\ file["state"] \in {Missing, Old} \cup State
  BY DEF TypeOK, OnDisk
<1>1. QuotesOf(file["quotes"]) \in Quotes /\ StateOf(file["state"]) \in State
  BY DEF TypeOK, OnDisk, Store
<1> QED
  BY <1>1 DEF QuotesOf, StateOf

LEMMA InitInv == Init => Inv
<1> SUFFICES ASSUME Init PROVE Inv
  OBVIOUS
<1>1. TypeOK
  <2>1. EmptyStore.quotes \in Quotes /\ EmptyStore.state \in State /\ NewStore.state \in State
        /\ NewStore.quotes \in Quotes
    BY FirstStores DEF Store
  <2>2. PICK quotes \in {Missing, EmptyStore.quotes}, state \in {Missing, Old, EmptyStore.state} :
          file = [name \in {"quotes", "state"} |-> IF name = "quotes" THEN quotes ELSE state]
    BY DEF Init
  <2>4. DOMAIN file = {"quotes", "state"} /\ file["quotes"] = quotes /\ file["state"] = state
    BY <2>2
  <2>5. QuotesOf(file["quotes"]) \in Quotes
    BY <2>1, <2>4 DEF QuotesOf
  <2>6. StateOf(file["state"]) \in State
    BY <2>1, <2>4 DEF StateOf
  <2>7. OnDisk \in Store
    BY <2>5, <2>6 DEF OnDisk, Store
  <2>3. session \in [Threads -> Session]
    BY FirstStores, StorageOK DEF Init, Fresh, Session
  <2>8. pc \in [Threads -> {"out", "waiting", "copy", "write", "replace", "leave"}]
        /\ told \in [Threads -> {"nothing", "asked", "done", "failed"}]
    BY DEF Init
  <2>9. DOMAIN temporary = {"quotes", "state"} /\ temporary["quotes"] = Missing
        /\ temporary["state"] = Missing
    BY DEF Init
  <2>10. kept \in [0 .. MaxTime -> {Missing, Half} \cup State]
    BY DEF Init
  <2>11. up \in BOOLEAN /\ torn \in BOOLEAN
    BY Zenon DEF Init
  <2>12. now = 0 /\ mutex = Free /\ served = 0 /\ faults = 0 /\ crashes = 0 /\ resets = {}
    BY DEF Init
  <2> QED
    BY <2>3, <2>4, <2>7, <2>8, <2>9, <2>10, <2>11, <2>12, StorageOK DEF TypeOK, Session
<1> QED
  BY <1>1 DEF Init, Inv, Exclusive, Serving, Running, Answered, Saved

-----------------------------------------------------------------------------
(* Every step keeps it.  First the ones that save nothing. *)

LEMMA FreshType == \A second \in 0 .. MaxTime : Fresh(second) \in Session
BY FirstStores DEF Fresh, Session

LEMMA SessionParts ==
  ASSUME NEW s \in Session
  PROVE  /\ s.at \in 0 .. MaxTime /\ s.resets \in BOOLEAN /\ s.before \in Store /\ s.after \in Store
         /\ s.saving \in {"nothing", "quotes", "state", "undo"}
         /\ s.result \in {"none", "done", "failed"}
BY DEF Session

\* Nothing of what a thread loaded changes while it and the files stay as they are.
LEMMA LoadedStays ==
  ASSUME NEW t, Loaded(t), pc'[t] = pc[t], session'[t] = session[t], file' = file,
         temporary' = temporary
  PROVE  Loaded(t)'
BY DEF Loaded, OnDisk

LEMMA AskInv ==
  ASSUME Inv, NEW t \in Threads, Ask(t)
  PROVE  Inv'
<1>1. TypeOK'
  <2>1. Fresh(now) \in Session
    BY FreshType DEF Inv, TypeOK
  <2>2. session' \in [Threads -> Session]
    BY <2>1 DEF Inv, TypeOK, Ask, Session
  <2>3. OnDisk' = OnDisk
    BY DEF Ask, files, OnDisk
  <2> QED
    BY <2>2, <2>3 DEF Inv, TypeOK, Ask, Session, files, history
<1>2. /\ pc' = [pc EXCEPT ![t] = "waiting"] /\ mutex' = mutex
      /\ pc \in [Threads -> {"out", "waiting", "copy", "write", "replace", "leave"}]
  BY DEF Ask, Inv, TypeOK
<1>3. Exclusive' /\ Running'
  BY <1>2 DEF Ask, Inv, Exclusive, Serving, Running, files
<1>4. Answered'
  BY <1>2 DEF Ask, Inv, TypeOK, Answered
<1>5. ASSUME NEW u \in Threads, pc'[u] \in {"copy", "write", "replace"} PROVE Loaded(u)'
  <2>1. pc'[u] = pc[u] /\ session'[u] = session[u] /\ u # t
    BY <1>2, <1>5 DEF Ask, Inv, TypeOK
  <2> QED
    BY <1>5, <2>1, LoadedStays DEF Ask, files, Inv, Saved
<1> QED
  BY <1>1, <1>3, <1>4, <1>5 DEF Inv, Saved

LEMMA TickInv == ASSUME Inv, Tick PROVE Inv'
<1>1. TypeOK'
  <2>1. now' \in 0 .. MaxTime
    BY StorageOK DEF Tick, Inv, TypeOK
  <2>2. OnDisk' = OnDisk
    BY DEF Tick, files, OnDisk
  <2> QED
    BY <2>1, <2>2 DEF Inv, TypeOK, Tick, threads, files, counts, history
<1>2. Exclusive' /\ Running' /\ Answered'
  BY DEF Tick, threads, files, Inv, Exclusive, Serving, Running, Answered
<1>3. Saved'
  BY LoadedStays DEF Tick, threads, files, Inv, Saved
<1> QED
  BY <1>1, <1>2, <1>3 DEF Inv

LEMMA MigrationFailsInv == ASSUME Inv, MigrationFails PROVE Inv'
<1>1. TypeOK'
  <2>1. OnDisk' = OnDisk
    BY DEF MigrationFails, OnDisk
  <2>2. /\ DOMAIN temporary' = {"quotes", "state"}
        /\ temporary'["quotes"] \in {Missing, Half} \cup Quotes
        /\ temporary'["state"] \in {Missing, Half} \cup State
    BY DEF Inv, TypeOK, MigrationFails
  <2> QED
    BY <2>1, <2>2 DEF Inv, TypeOK, MigrationFails, MayFail, threads, history
<1>2. Exclusive' /\ Running' /\ Answered'
  BY DEF MigrationFails, threads, Inv, Exclusive, Serving, Running, Answered
<1>3. \A t \in Threads : pc'[t] = "out"
  BY DEF MigrationFails, threads, Inv, Running
<1> QED
  BY <1>1, <1>2, <1>3 DEF Inv, Saved

\* A start that migrates rewrites the state as a session would have read it.
LEMMA RestartKeepsTheDisk == ASSUME Inv, Restart PROVE OnDisk' = OnDisk /\ file'["state"] # Old
<1>1. DOMAIN file = {"quotes", "state"}
  BY DEF Inv, TypeOK
<1>2. EmptyStore.state \in State
  BY FirstStores DEF Store
<1>3. EmptyStore.state \notin {Missing, Old}
  BY <1>2, StorageOK
<1>4. CASE file["state"] = Old
  <2>1. file'["state"] = EmptyStore.state /\ file'["quotes"] = file["quotes"]
    BY <1>1, <1>4, StorageOK DEF Restart, StateOf
  <2>2. StateOf(file'["state"]) = StateOf(file["state"])
    BY <1>3, <1>4, <2>1, StorageOK DEF StateOf
  <2> QED
    BY <1>3, <2>1, <2>2 DEF OnDisk
<1>5. CASE file["state"] # Old
  BY <1>5 DEF Restart, OnDisk
<1> QED
  BY <1>4, <1>5

LEMMA RestartInv == ASSUME Inv, Restart PROVE Inv'
<1>1. TypeOK'
  <2>1. DOMAIN file' = {"quotes", "state"} /\ OnDisk' \in Store
    BY RestartKeepsTheDisk DEF Inv, TypeOK, Restart
  <2>2. /\ DOMAIN temporary' = {"quotes", "state"}
        /\ temporary'["quotes"] \in {Missing, Half} \cup Quotes
        /\ temporary'["state"] \in {Missing, Half} \cup State
    BY DEF Inv, TypeOK, Restart
  <2> QED
    BY <2>1, <2>2 DEF Inv, TypeOK, Restart, threads, counts, history
<1>2. Exclusive' /\ Answered'
  BY DEF Restart, threads, Inv, Exclusive, Serving, Answered
<1>3. Running' /\ \A t \in Threads : pc'[t] = "out"
  BY RestartKeepsTheDisk DEF Restart, threads, Inv, Running
<1> QED
  BY <1>1, <1>2, <1>3 DEF Inv, Saved

LEMMA CrashInv == ASSUME Inv, Crash PROVE Inv'
<1>1. TypeOK'
  <2>1. OnDisk' = OnDisk
    BY DEF Crash, OnDisk
  <2>2. /\ DOMAIN temporary' = {"quotes", "state"}
        /\ temporary'["quotes"] \in {Missing, Half} \cup Quotes
        /\ temporary'["state"] \in {Missing, Half} \cup State
    BY DEF Inv, TypeOK, Crash
  <2>3. kept' \in [0 .. MaxTime -> {Missing, Half} \cup State]
    BY DEF Inv, TypeOK, Crash
  <2>4. session' \in [Threads -> Session]
    BY FreshType, StorageOK DEF Crash
  <2>5. torn' \in BOOLEAN /\ up' \in BOOLEAN
    BY Zenon DEF Crash
  <2> QED
    BY <2>1, <2>2, <2>3, <2>4, <2>5 DEF Inv, TypeOK, Crash, Session
<1>2. Exclusive' /\ Running' /\ Answered' /\ Saved'
  BY DEF Crash, Exclusive, Serving, Running, Answered, Saved
<1> QED
  BY <1>1, <1>2 DEF Inv

-----------------------------------------------------------------------------
(* Then what the thread with the mutex does. *)

At == {"out", "waiting", "copy", "write", "replace", "leave"}

\* Whatever it does, the others neither run nor save: what is left to see is where it
\* goes and what it has loaded.
LEMMA ServingStep ==
  ASSUME Inv, TypeOK', NEW t \in Threads, mutex \in {t, Free}, mutex' = t, pc[t] # "out",
         \A u \in Threads \ {t} : pc'[u] = pc[u] /\ session'[u] = session[u],
         up' = up, told' = told,
         up => file'["state"] # Old,
         pc'[t] \in {"copy", "write", "replace", "leave"},
         pc'[t] = "leave" => session'[t].result \in {"done", "failed"},
         pc'[t] # "leave" => Loaded(t)'
  PROVE  Inv'
<1>1. \A u \in Threads \ {t} : pc[u] \in {"out", "waiting"}
  <2>1. pc \in [Threads -> At] /\ Exclusive
    BY DEF Inv, TypeOK, At
  <2>2. Free \notin Threads
    BY StorageOK
  <2> QED
    BY <2>1, <2>2 DEF Exclusive, Serving, At
<1>2. Exclusive'
  BY <1>1 DEF Exclusive, Serving
<1>3. Running'
  BY DEF Inv, Running
<1>4. Answered'
  <2>1. \A u \in Threads \ {t} : told'[u] = told[u] /\ pc'[u] = pc[u]
    OBVIOUS
  <2> QED
    BY <1>1, <2>1 DEF Inv, Answered
<1>5. Saved'
  BY <1>1 DEF Saved
<1> QED
  BY <1>2, <1>3, <1>4, <1>5 DEF Inv

\* The thread's session and where it is keep their types.
LEMMA ThreadType ==
  ASSUME TypeOK, NEW t \in Threads, NEW s \in Session, NEW at \in At,
         session' = [session EXCEPT ![t] = s], pc' = [pc EXCEPT ![t] = at]
  PROVE  /\ session' \in [Threads -> Session] /\ session'[t] = s
         /\ pc' \in [Threads -> At] /\ pc'[t] = at
         /\ \A u \in Threads \ {t} : pc'[u] = pc[u] /\ session'[u] = session[u]
<1>1. session \in [Threads -> Session] /\ pc \in [Threads -> At]
  BY DEF TypeOK, Session, At
<1> QED
  BY <1>1

LEMMA SavingType ==
  ASSUME TypeOK, NEW t \in Threads, NEW s \in Session, NEW saving \in {"quotes", "state", "undo"},
         Saving(t, s, saving)
  PROVE  /\ session' \in [Threads -> Session] /\ pc' \in [Threads -> At]
         /\ pc'[t] = "write" /\ session'[t].saving = saving
         /\ session'[t].before = s.before /\ session'[t].after = s.after
         /\ \A u \in Threads \ {t} : pc'[u] = pc[u] /\ session'[u] = session[u]
<1> DEFINE next == [s EXCEPT !.saving = saving]
<1>1. next \in Session /\ next.saving = saving /\ next.before = s.before /\ next.after = s.after
  BY DEF Session
<1>2. session' = [session EXCEPT ![t] = next] /\ pc' = [pc EXCEPT ![t] = "write"]
  BY DEF Saving
<1> HIDE DEF next
<1> QED
  BY <1>1, <1>2, ThreadType DEF At

LEMMA ReturningType ==
  ASSUME TypeOK, NEW t \in Threads, NEW s \in Session, NEW result \in {"done", "failed"},
         Returning(t, s, result)
  PROVE  /\ session' \in [Threads -> Session] /\ pc' \in [Threads -> At]
         /\ pc'[t] = "leave" /\ session'[t].result = result
         /\ \A u \in Threads \ {t} : pc'[u] = pc[u] /\ session'[u] = session[u]
<1> DEFINE next == [s EXCEPT !.result = result]
<1>1. next \in Session /\ next.result = result
  BY DEF Session
<1>2. session' = [session EXCEPT ![t] = next] /\ pc' = [pc EXCEPT ![t] = "leave"]
  BY DEF Returning
<1> HIDE DEF next
<1> QED
  BY <1>1, <1>2, ThreadType DEF At

\* A document is changed or nothing is: a store is its two documents.
LEMMA Unchanged ==
  ASSUME NEW s \in Session, ~QuotesChanged(s), ~StateChanged(s)
  PROVE  s.after = s.before
BY SessionParts DEF QuotesChanged, StateChanged, Store

LEMMA QuotesAlone ==
  ASSUME NEW s \in Session, ~QuotesChanged(s)
  PROVE  s.before = [s.before EXCEPT !.quotes = s.after.quotes]
BY SessionParts DEF QuotesChanged, Store

\* A function that ran on what is on disk leaves a thread that saves it, or is done.
LEMMA SaveFirstLoads ==
  ASSUME TypeOK, NEW t \in Threads, NEW s \in Session, SaveFirst(t, s),
         OnDisk = s.before, OnDisk' = OnDisk,
         \E request \in Requests : s.after \in Outcomes(request, s.before)
  PROVE  /\ session' \in [Threads -> Session] /\ pc' \in [Threads -> At]
         /\ \A u \in Threads \ {t} : pc'[u] = pc[u] /\ session'[u] = session[u]
         /\ \/ pc'[t] = "write" /\ Loaded(t)' /\ session'[t].before = s.before
            \/ pc'[t] = "leave" /\ session'[t].result = "done" /\ s.after = s.before
<1>1. CASE QuotesChanged(s)
  <2>1. Saving(t, s, "quotes")
    BY <1>1 DEF SaveFirst
  <2>2. /\ session' \in [Threads -> Session] /\ pc' \in [Threads -> At]
        /\ pc'[t] = "write" /\ session'[t].saving = "quotes"
        /\ session'[t].before = s.before /\ session'[t].after = s.after
        /\ \A u \in Threads \ {t} : pc'[u] = pc[u] /\ session'[u] = session[u]
    BY <2>1, SavingType
  <2>3. Loaded(t)'
    BY <1>1, <2>2 DEF Loaded, QuotesChanged
  <2> QED
    BY <2>2, <2>3
<1>2. CASE ~QuotesChanged(s) /\ StateChanged(s)
  <2>1. Saving(t, s, "state")
    BY <1>2 DEF SaveFirst
  <2>2. s.before = [s.before EXCEPT !.quotes = s.after.quotes]
    BY <1>2, QuotesAlone
  <2>3. /\ session' \in [Threads -> Session] /\ pc' \in [Threads -> At]
        /\ pc'[t] = "write" /\ session'[t].saving = "state"
        /\ session'[t].before = s.before /\ session'[t].after = s.after
        /\ \A u \in Threads \ {t} : pc'[u] = pc[u] /\ session'[u] = session[u]
    BY <2>1, SavingType
  <2>4. Loaded(t)'
    BY <1>2, <2>2, <2>3 DEF Loaded, StateChanged
  <2> QED
    BY <2>3, <2>4
<1>3. CASE ~QuotesChanged(s) /\ ~StateChanged(s)
  <2>1. Returning(t, s, "done")
    BY <1>3 DEF SaveFirst
  <2> QED
    BY <1>3, <2>1, ReturningType, Unchanged
<1> QED
  BY <1>1, <1>2, <1>3

\* Where a thread that enters, and does not fail, goes.
LEMMA EnterLeaves ==
  ASSUME Inv, NEW t \in Threads, Enter(t)
  PROVE  /\ session' \in [Threads -> Session] /\ pc' \in [Threads -> At]
         /\ \A u \in Threads \ {t} : pc'[u] = pc[u] /\ session'[u] = session[u]
         /\ \/ pc'[t] \in {"copy", "write"} /\ Loaded(t)' /\ session'[t].before = OnDisk
            \/ /\ pc'[t] = "leave" /\ session'[t].result = "done"
               /\ \E request \in Requests : OnDisk \in Outcomes(request, OnDisk)
<1>0. PICK request \in Requests : \E after \in Outcomes(request, OnDisk) :
        LET s == [session[t] EXCEPT !.before = OnDisk, !.after = after,
                                    !.resets = Copies(request, OnDisk)]
        IN  IF s.resets
            THEN session' = [session EXCEPT ![t] = s] /\ pc' = [pc EXCEPT ![t] = "copy"]
            ELSE SaveFirst(t, s)
  BY DEF Enter
<1>1. PICK after \in Outcomes(request, OnDisk) :
        LET s == [session[t] EXCEPT !.before = OnDisk, !.after = after,
                                    !.resets = Copies(request, OnDisk)]
        IN  IF s.resets
            THEN session' = [session EXCEPT ![t] = s] /\ pc' = [pc EXCEPT ![t] = "copy"]
            ELSE SaveFirst(t, s)
  BY <1>0
<1>2. session[t] \in Session /\ OnDisk \in Store /\ OnDisk' = OnDisk
  BY DEF Inv, TypeOK, Session, Enter, files, OnDisk
<1>3. after \in Store
  BY <1>2, OutcomesType
<1> DEFINE s == [session[t] EXCEPT !.before = OnDisk, !.after = after,
                                   !.resets = Copies(request, OnDisk)]
<1>4. Copies(request, OnDisk) \in BOOLEAN
  BY DEF Copies
<1> DEFINE flag == Copies(request, OnDisk)
<1> HIDE DEF flag
<1>5. s \in Session /\ s.before = OnDisk /\ s.after = after
  <2>1. s = [session[t] EXCEPT !.before = OnDisk, !.after = after, !.resets = flag]
    BY DEF flag
  <2>2. flag \in BOOLEAN
    BY <1>4 DEF flag
  <2> QED
    BY <1>2, <1>3, <2>1, <2>2 DEF Session
<1>6. \E r \in Requests : s.after \in Outcomes(r, s.before)
  BY <1>5
<1>7. IF s.resets THEN session' = [session EXCEPT ![t] = s] /\ pc' = [pc EXCEPT ![t] = "copy"]
      ELSE SaveFirst(t, s)
  BY <1>1
<1> HIDE DEF s
<1>8. TypeOK
  BY DEF Inv
<1>9. CASE s.resets
  <2>1. /\ session' \in [Threads -> Session] /\ session'[t] = s
        /\ pc' \in [Threads -> At] /\ pc'[t] = "copy"
        /\ \A u \in Threads \ {t} : pc'[u] = pc[u] /\ session'[u] = session[u]
    BY <1>5, <1>7, <1>8, <1>9, ThreadType DEF At
  <2>2. Loaded(t)'
    BY <1>2, <1>5, <1>6, <2>1 DEF Loaded
  <2> QED
    BY <1>5, <2>1, <2>2
<1>10. CASE ~s.resets
  <2>1. SaveFirst(t, s)
    BY <1>7, <1>10
  <2>2. /\ session' \in [Threads -> Session] /\ pc' \in [Threads -> At]
        /\ \A u \in Threads \ {t} : pc'[u] = pc[u] /\ session'[u] = session[u]
        /\ \/ pc'[t] = "write" /\ Loaded(t)' /\ session'[t].before = s.before
           \/ pc'[t] = "leave" /\ session'[t].result = "done" /\ s.after = s.before
    BY <1>2, <1>5, <1>6, <1>8, <2>1, SaveFirstLoads
  <2> QED
    BY <1>5, <1>6, <2>2
<1> QED
  BY <1>9, <1>10

LEMMA EnterInv == ASSUME Inv, NEW t \in Threads, Enter(t) PROVE Inv'
<1>1. OnDisk' = OnDisk
  BY DEF Enter, files, OnDisk
<1>2. session' \in [Threads -> Session] /\ pc' \in [Threads -> At]
  BY EnterLeaves
<1>3. TypeOK'
  BY <1>1, <1>2 DEF Inv, TypeOK, Enter, files, counts, history, Session, At
<1>4. mutex = Free /\ mutex' = t /\ pc[t] # "out" /\ up' = up /\ told' = told /\ file' = file
  BY DEF Enter, MayEnter, files
<1>5. up => file'["state"] # Old
  BY <1>4 DEF Inv, Running
<1> QED
  BY <1>3, <1>4, <1>5, EnterLeaves, ServingStep

LEMMA EnterFailsInv == ASSUME Inv, NEW t \in Threads, EnterFails(t) PROVE Inv'
<1>1. OnDisk' = OnDisk
  BY DEF EnterFails, files, OnDisk
<1>2. session[t] \in Session /\ TypeOK
  BY DEF Inv, TypeOK, Session
<1>3. /\ session' \in [Threads -> Session] /\ pc' \in [Threads -> At]
      /\ pc'[t] = "leave" /\ session'[t].result = "failed"
      /\ \A u \in Threads \ {t} : pc'[u] = pc[u] /\ session'[u] = session[u]
  BY <1>2, ReturningType DEF EnterFails
<1>4. TypeOK'
  BY <1>1, <1>3 DEF Inv, TypeOK, EnterFails, MayFail, files, history, Session, At
<1>5. mutex = Free /\ mutex' = t /\ pc[t] # "out" /\ up' = up /\ told' = told /\ file' = file
  BY DEF EnterFails, MayEnter, files
<1>6. up => file'["state"] # Old
  BY <1>5 DEF Inv, Running
<1> QED
  BY <1>3, <1>4, <1>5, <1>6, ServingStep

\* A thread that runs its function or saves has the mutex, in a bot that runs.
LEMMA Mine ==
  ASSUME Inv, NEW t \in Threads, Serving(t)
  PROVE  /\ mutex = t /\ up /\ file["state"] # Old /\ pc[t] # "out"
         /\ session[t] \in Session /\ TypeOK /\ session \in [Threads -> Session]
         /\ pc \in [Threads -> At]
         /\ pc[t] \in {"copy", "write", "replace"} => Loaded(t)
BY DEF Inv, TypeOK, Session, At, Exclusive, Serving, Running, Saved

LEMMA CopyInv == ASSUME Inv, NEW t \in Threads, Copy(t) PROVE Inv'
<1>1. Serving(t) /\ pc[t] = "copy"
  BY DEF Copy, Serving
<1>2. OnDisk' = OnDisk /\ file' = file
  BY DEF Copy, OnDisk
<1>3. SaveFirst(t, session[t])
  BY DEF Copy
<1>4. OnDisk = session[t].before
      /\ \E request \in Requests : session[t].after \in Outcomes(request, session[t].before)
  BY <1>1, Mine DEF Loaded
<1>5. /\ session' \in [Threads -> Session] /\ pc' \in [Threads -> At]
      /\ \A u \in Threads \ {t} : pc'[u] = pc[u] /\ session'[u] = session[u]
      /\ \/ pc'[t] = "write" /\ Loaded(t)'
         \/ pc'[t] = "leave" /\ session'[t].result = "done"
  BY <1>1, <1>2, <1>3, <1>4, Mine, SaveFirstLoads
<1>6. kept' \in [0 .. MaxTime -> {Missing, Half} \cup State]
  <2>1. file["state"] \in {Missing} \cup State
    BY <1>1, Mine, DiskType
  <2>2. kept \in [0 .. MaxTime -> {Missing, Half} \cup State]
    BY DEF Inv, TypeOK
  <2> QED
    BY <2>1, <2>2 DEF Copy
<1>7. TypeOK'
  BY <1>2, <1>5, <1>6 DEF Inv, TypeOK, Copy, counts, history, Session, At
<1> QED
  BY <1>1, <1>2, <1>5, <1>7, Mine, ServingStep DEF Copy

LEMMA CopyFailsInv == ASSUME Inv, NEW t \in Threads, CopyFails(t) PROVE Inv'
<1>1. Serving(t) /\ pc[t] = "copy"
  BY DEF CopyFails, Serving
<1>2. OnDisk' = OnDisk /\ file' = file
  BY DEF CopyFails, OnDisk
<1>3. /\ session' \in [Threads -> Session] /\ pc' \in [Threads -> At]
      /\ pc'[t] = "leave" /\ session'[t].result = "failed"
      /\ \A u \in Threads \ {t} : pc'[u] = pc[u] /\ session'[u] = session[u]
  BY <1>1, Mine, ReturningType DEF CopyFails, CopyThrows
<1>4. kept' \in [0 .. MaxTime -> {Missing, Half} \cup State]
  <2>1. kept \in [0 .. MaxTime -> {Missing, Half} \cup State] /\ session[t].at \in 0 .. MaxTime
    BY <1>1, Mine, SessionParts DEF TypeOK
  <2> QED
    BY <2>1 DEF CopyFails
<1>5. TypeOK'
  BY <1>2, <1>3, <1>4 DEF Inv, TypeOK, CopyFails, MayFail, history, Session, At
<1> QED
  BY <1>1, <1>2, <1>3, <1>5, Mine, ServingStep DEF CopyFails

\* What is written is what belongs in that file.
LEMMA ContentsType ==
  ASSUME NEW s \in Session
  PROVE  \/ FileOf(s.saving) = "quotes" /\ Contents(s) \in Quotes
         \/ FileOf(s.saving) = "state" /\ Contents(s) \in State
BY SessionParts, StoreParts DEF FileOf, Contents

LEMMA WriteInv == ASSUME Inv, NEW t \in Threads, Write(t) PROVE Inv'
<1>1. Serving(t) /\ pc[t] = "write" /\ pc' = [pc EXCEPT ![t] = "replace"] /\ session' = session
  BY DEF Write, Serving
<1>2. OnDisk' = OnDisk /\ file' = file
  BY DEF Write, OnDisk
<1>3. /\ pc' \in [Threads -> At] /\ pc'[t] = "replace"
      /\ \A u \in Threads \ {t} : pc'[u] = pc[u] /\ session'[u] = session[u]
  BY <1>1, Mine DEF At
<1> DEFINE s == session[t]
<1>4. /\ DOMAIN temporary' = {"quotes", "state"}
      /\ temporary'["quotes"] \in {Missing, Half} \cup Quotes
      /\ temporary'["state"] \in {Missing, Half} \cup State
      /\ temporary'[FileOf(s.saving)] = Contents(s)
  <2>1. /\ DOMAIN temporary = {"quotes", "state"}
        /\ temporary["quotes"] \in {Missing, Half} \cup Quotes
        /\ temporary["state"] \in {Missing, Half} \cup State
    BY DEF Inv, TypeOK
  <2>2. temporary' = [temporary EXCEPT ![FileOf(s.saving)] = Contents(s)]
    BY DEF Write
  <2>3. s \in Session
    BY <1>1, Mine
  <2> QED
    BY <2>1, <2>2, <2>3, ContentsType
<1>5. TypeOK'
  BY <1>1, <1>2, <1>3, <1>4 DEF Inv, TypeOK, Write, counts, history, At
<1>6. Loaded(t)'
  BY <1>1, <1>2, <1>3, <1>4, Mine DEF Loaded
<1> QED
  BY <1>1, <1>2, <1>3, <1>5, <1>6, Mine, ServingStep DEF Write

\* The file that is not renamed is not there any more.
LEMMA SaveFailsInv == ASSUME Inv, NEW t \in Threads, SaveFails(t) PROVE Inv'
<1> DEFINE s == session[t]
<1>1. Serving(t) /\ pc[t] \in {"write", "replace"}
  BY DEF SaveFails, Serving
<1>2. OnDisk' = OnDisk /\ file' = file
  BY DEF SaveFails, OnDisk
<1>3. /\ DOMAIN temporary' = {"quotes", "state"}
      /\ temporary'["quotes"] \in {Missing, Half} \cup Quotes
      /\ temporary'["state"] \in {Missing, Half} \cup State
  BY DEF Inv, TypeOK, SaveFails
<1>4. s \in Session /\ Loaded(t)
  BY <1>1, Mine
<1>5. /\ session' \in [Threads -> Session] /\ pc' \in [Threads -> At] /\ torn' \in BOOLEAN
      /\ \A u \in Threads \ {t} : pc'[u] = pc[u] /\ session'[u] = session[u]
      /\ \/ pc'[t] = "write" /\ Loaded(t)'
         \/ pc'[t] = "leave" /\ session'[t].result = "failed"
  <2>1. CASE s.saving = "state" /\ QuotesChanged(s)
    <3>1. Saving(t, s, "undo") /\ torn' = torn
      BY <2>1 DEF SaveFails, SaveFailed
    <3>2. /\ session' \in [Threads -> Session] /\ pc' \in [Threads -> At]
          /\ pc'[t] = "write" /\ session'[t].saving = "undo"
          /\ session'[t].before = s.before /\ session'[t].after = s.after
          /\ \A u \in Threads \ {t} : pc'[u] = pc[u] /\ session'[u] = session[u]
      BY <1>1, <1>4, <3>1, Mine, SavingType
    <3>3. Loaded(t)'
      BY <1>1, <1>2, <1>4, <2>1, <3>2 DEF Loaded, QuotesChanged
    <3>4. torn' \in BOOLEAN
      BY <3>1 DEF Inv, TypeOK
    <3> QED
      BY <3>2, <3>3, <3>4
  <2>2. CASE ~(s.saving = "state" /\ QuotesChanged(s))
    <3>1. Returning(t, s, "failed") /\ torn' = (torn \/ s.saving = "undo")
      BY <2>2 DEF SaveFails, SaveFailed
    <3>2. torn' \in BOOLEAN
      BY <3>1, Zenon
    <3> QED
      BY <1>1, <1>4, <3>1, <3>2, Mine, ReturningType
  <2> QED
    BY <2>1, <2>2
<1>6. TypeOK'
  BY <1>2, <1>3, <1>5 DEF Inv, TypeOK, SaveFails, MayFail, Session, At
<1> QED
  BY <1>1, <1>2, <1>5, <1>6, Mine, ServingStep DEF SaveFails

\* What is on disk once the rename is done.
LEMMA ReplacedDisk ==
  ASSUME Inv, NEW t \in Threads, Replace(t)
  PROVE  LET s == session[t] IN
         /\ OnDisk' = IF s.saving = "quotes" THEN [s.before EXCEPT !.quotes = s.after.quotes]
                      ELSE IF s.saving = "state" THEN s.after ELSE s.before
         /\ DOMAIN file' = {"quotes", "state"} /\ file'["state"] # Old
<1> DEFINE s == session[t]
           name == FileOf(s.saving)
<1>1. Serving(t) /\ pc[t] = "replace"
  BY DEF Replace, Serving
<1>2. s \in Session /\ Loaded(t) /\ TypeOK /\ file["state"] # Old
  BY <1>1, Mine
<1>3. file' = [file EXCEPT ![name] = Contents(s)] /\ DOMAIN file = {"quotes", "state"}
  BY <1>1, <1>2 DEF Replace, Loaded, TypeOK
<1>4. s.before \in Store /\ s.after \in Store
  BY <1>2, SessionParts
<1>5. CASE s.saving \in {"quotes", "undo"}
  <2> DEFINE quotes == Contents(s)
  <2>1. name = "quotes" /\ quotes = (IF s.saving = "quotes" THEN s.after.quotes ELSE s.before.quotes)
    BY <1>5 DEF FileOf, Contents
  <2>2. quotes \in Quotes /\ quotes # Missing
    BY <1>4, <2>1, StoreParts, StorageOK
  <2> HIDE DEF quotes
  <2>3. file'["quotes"] = quotes /\ file'["state"] = file["state"] /\ DOMAIN file' = {"quotes", "state"}
    BY <1>3, <2>1 DEF quotes
  <2>4. OnDisk' = [quotes |-> quotes, state |-> OnDisk.state]
    BY <2>2, <2>3 DEF OnDisk, QuotesOf
  <2>5. OnDisk.state = s.before.state
    BY <1>1, <1>2, <1>4 DEF Loaded, Store
  <2>6. OnDisk' = IF s.saving = "quotes" THEN [s.before EXCEPT !.quotes = s.after.quotes] ELSE s.before
    BY <1>4, <1>5, <2>1, <2>4, <2>5 DEF Store
  <2> QED
    BY <1>2, <1>5, <2>3, <2>6
<1>6. CASE s.saving = "state"
  <2>1. name = "state" /\ Contents(s) = s.after.state
    BY <1>6 DEF FileOf, Contents
  <2>2. s.after.state \in State /\ s.after.state \notin {Missing, Old}
    BY <1>4, StoreParts, StorageOK
  <2>3. file'["quotes"] = file["quotes"] /\ file'["state"] = s.after.state
        /\ DOMAIN file' = {"quotes", "state"}
    BY <1>3, <2>1
  <2>4. OnDisk' = [quotes |-> OnDisk.quotes, state |-> s.after.state]
    BY <2>2, <2>3 DEF OnDisk, StateOf
  <2>5. OnDisk.quotes = s.after.quotes
    BY <1>1, <1>2, <1>4, <1>6 DEF Loaded, Store
  <2>6. OnDisk' = s.after
    BY <1>4, <2>4, <2>5 DEF Store
  <2> QED
    BY <1>6, <2>2, <2>3, <2>6
<1>7. s.saving \in {"quotes", "state", "undo"}
  BY <1>1, <1>2 DEF Loaded
<1> QED
  BY <1>5, <1>6, <1>7

\* Where it goes then.
LEMMA ReplaceGoes ==
  ASSUME Inv, NEW t \in Threads, Replace(t)
  PROVE  LET s == session[t] IN
         /\ session' \in [Threads -> Session] /\ pc' \in [Threads -> At]
         /\ \A u \in Threads \ {t} : pc'[u] = pc[u] /\ session'[u] = session[u]
         /\ \/ /\ s.saving = "quotes" /\ StateChanged(s)
               /\ pc'[t] = "write" /\ Loaded(t)' /\ session'[t].before = s.before
            \/ /\ ~(s.saving = "quotes" /\ StateChanged(s))
               /\ pc'[t] = "leave"
               /\ session'[t].result = IF s.saving = "undo" THEN "failed" ELSE "done"
<1> DEFINE s == session[t]
<1>1. Serving(t) /\ pc[t] = "replace"
  BY DEF Replace, Serving
<1>2. s \in Session /\ Loaded(t) /\ TypeOK
  BY <1>1, Mine
<1>3. CASE s.saving = "quotes" /\ StateChanged(s)
  <2>1. Saving(t, s, "state")
    BY <1>3 DEF Replace, SaveNext
  <2>2. /\ session' \in [Threads -> Session] /\ pc' \in [Threads -> At]
        /\ pc'[t] = "write" /\ session'[t].saving = "state"
        /\ session'[t].before = s.before /\ session'[t].after = s.after
        /\ \A u \in Threads \ {t} : pc'[u] = pc[u] /\ session'[u] = session[u]
    BY <1>2, <2>1, SavingType
  <2>3. OnDisk' = [s.before EXCEPT !.quotes = s.after.quotes]
    BY <1>3, ReplacedDisk
  <2>4. Loaded(t)'
    BY <1>2, <1>3, <2>2, <2>3 DEF Loaded, StateChanged
  <2> QED
    BY <1>3, <2>2, <2>4
<1>4. CASE ~(s.saving = "quotes" /\ StateChanged(s))
  <2>1. Returning(t, s, IF s.saving = "undo" THEN "failed" ELSE "done")
    BY <1>4 DEF Replace, SaveNext
  <2>2. CASE s.saving = "undo"
    BY <1>2, <1>4, <2>1, <2>2, ReturningType
  <2>3. CASE s.saving # "undo"
    BY <1>2, <1>4, <2>1, <2>3, ReturningType
  <2> QED
    BY <2>2, <2>3
<1> QED
  BY <1>3, <1>4

LEMMA ReplaceInv == ASSUME Inv, NEW t \in Threads, Replace(t) PROVE Inv'
<1> DEFINE s == session[t]
<1>1. Serving(t) /\ pc[t] = "replace"
  BY DEF Replace, Serving
<1>2. s \in Session /\ s.before \in Store /\ s.after \in Store
  BY <1>1, Mine, SessionParts
<1>3. DOMAIN file' = {"quotes", "state"} /\ OnDisk' \in Store /\ file'["state"] # Old
  <2>1. [s.before EXCEPT !.quotes = s.after.quotes] \in Store
    BY <1>2, StoreParts, QuotesUpdate
  <2> QED
    BY <1>2, <2>1, ReplacedDisk
<1>4. /\ DOMAIN temporary' = {"quotes", "state"}
      /\ temporary'["quotes"] \in {Missing, Half} \cup Quotes
      /\ temporary'["state"] \in {Missing, Half} \cup State
  BY DEF Inv, TypeOK, Replace
<1>5. resets' \subseteq [at : 0 .. MaxTime, before : State]
  <2>1. s.at \in 0 .. MaxTime /\ s.before.state \in State
    BY <1>1, <1>2, Mine, SessionParts, StoreParts
  <2> QED
    BY <2>1 DEF Inv, TypeOK, Replace
<1>6. session' \in [Threads -> Session] /\ pc' \in [Threads -> At]
  BY ReplaceGoes
<1>7. TypeOK'
  BY <1>3, <1>4, <1>5, <1>6 DEF Inv, TypeOK, Replace, counts, Session, At
<1>8. /\ \A u \in Threads \ {t} : pc'[u] = pc[u] /\ session'[u] = session[u]
      /\ \/ pc'[t] = "write" /\ Loaded(t)'
         \/ pc'[t] = "leave" /\ session'[t].result \in {"done", "failed"}
  BY ReplaceGoes
<1> QED
  BY <1>1, <1>3, <1>7, <1>8, Mine, ServingStep DEF Replace

LEMMA LeaveInv == ASSUME Inv, NEW t \in Threads, Leave(t) PROVE Inv'
<1>1. Serving(t) /\ pc[t] = "leave"
  BY DEF Leave, Serving
<1>2. OnDisk' = OnDisk /\ file' = file /\ temporary' = temporary /\ mutex' = Free /\ up' = up
  BY DEF Leave, Unlock, files, OnDisk
<1>3. Fresh(0) \in Session
  BY FreshType, StorageOK
<1>4. /\ session' \in [Threads -> Session] /\ pc' \in [Threads -> At] /\ pc'[t] = "out"
      /\ \A u \in Threads \ {t} : pc'[u] = pc[u] /\ session'[u] = session[u]
  BY <1>1, <1>3, Mine, ThreadType DEF Leave, At
<1>5. session[t].result \in {"done", "failed"}
  BY <1>1 DEF Inv, Answered
<1>6. told \in [Threads -> {"nothing", "asked", "done", "failed"}]
  BY DEF Inv, TypeOK
<1>7. told' = [told EXCEPT ![t] = session[t].result]
  BY DEF Leave
<1>8. TypeOK'
  BY <1>2, <1>4, <1>5, <1>6, <1>7 DEF Inv, TypeOK, Leave, files, counts, history, Session, At
<1>9. \A u \in Threads : ~Serving(u)'
  <2>1. \A u \in Threads \ {t} : ~Serving(u)
    BY <1>1, Mine DEF Inv, Exclusive
  <2> QED
    BY <1>4, <2>1 DEF Serving
<1>10. Exclusive' /\ Saved'
  BY <1>9 DEF Exclusive, Saved, Serving
<1>11. Running'
  BY <1>1, <1>2, Mine DEF Running
<1>12. Answered'
  BY <1>4, <1>5, <1>6, <1>7, <1>9 DEF Inv, Answered, Serving
<1> QED
  BY <1>8, <1>10, <1>11, <1>12 DEF Inv

LEMMA NextInv == Inv /\ [Next]_vars => Inv'
<1> SUFFICES ASSUME Inv, [Next]_vars PROVE Inv'
  OBVIOUS
<1>1. ASSUME NEW t \in Threads, Ask(t) \/ Enter(t) \/ EnterFails(t) PROVE Inv'
  BY <1>1, AskInv, EnterInv, EnterFailsInv
<1>2. ASSUME NEW t \in Threads, Step(t) PROVE Inv'
  BY <1>2, CopyInv, CopyFailsInv, WriteInv, SaveFailsInv, ReplaceInv, LeaveInv DEF Step
<1>3. CASE Crash \/ Restart \/ MigrationFails \/ Tick
  BY <1>3, CrashInv, RestartInv, MigrationFailsInv, TickInv
<1>4. CASE UNCHANGED vars
  <2>1. Exclusive' /\ Running' /\ Answered'
    BY <1>4 DEF vars, threads, files, Inv, Exclusive, Serving, Running, Answered
  <2>2. Saved'
    BY <1>4, LoadedStays DEF vars, threads, files, Inv, Saved
  <2>3. TypeOK'
    BY <1>4 DEF vars, threads, files, counts, history, Inv, TypeOK, OnDisk
  <2> QED
    BY <2>1, <2>2, <2>3 DEF Inv
<1> QED
  BY <1>1, <1>2, <1>3, <1>4 DEF Next

LEMMA SpecInv == Spec => []Inv
BY InitInv, NextInv, PTL DEF Spec

\* The variables keep their types: in particular no crash, failed write or failed rename
\* ever leaves a document half written (save_json), whatever the threads do.
THEOREM Typed == Spec => []TypeOK
<1>1. Inv => TypeOK
  BY DEF Inv
<1> QED
  BY <1>1, SpecInv, PTL

-----------------------------------------------------------------------------
(* Storage implements AtomicStore. *)

Told == [t \in Threads |-> Outcome(t)]

\* The two speak of the same requests.
LEMMA SameRequests ==
  /\ Atomic!Requests = Requests
  /\ \A request, s : Atomic!Outcomes(request, s) = Outcomes(request, s)
  /\ Atomic!NewStore = NewStore /\ Atomic!EmptyStore = EmptyStore
BY DEF Atomic!Requests, Requests, Atomic!Outcomes, Outcomes, Atomic!Played, Played,
       Atomic!QuoteAdded, QuoteAdded, Atomic!QuoteDeleted, QuoteDeleted,
       Atomic!AllReset, AllReset, Atomic!PlayerReset, PlayerReset,
       Atomic!NewStore, NewStore, Atomic!EmptyStore, EmptyStore

\* While a thread serves a request, the others would find what it found.
LEMMA CommittedBefore ==
  Inv => \A t \in Threads :
           pc[t] \in {"copy", "write", "replace"} => Committed = session[t].before
<1> SUFFICES ASSUME Inv, NEW t \in Threads, pc[t] \in {"copy", "write", "replace"}
             PROVE  Committed = session[t].before
  OBVIOUS
<1> DEFINE s == session[t]
<1>1. Serving(t)
  BY DEF Serving
<1>2. s \in Session /\ Loaded(t) /\ mutex = t /\ s.before \in Store /\ s.after \in Store
  BY <1>1, Mine, SessionParts
<1>3. \A u \in Threads : Between(u) => u = t
  BY <1>2 DEF Inv, Exclusive, Serving, Between
<1>4. CASE Between(t)
  <2>1. (CHOOSE u \in Threads : Between(u)) = t
    BY <1>3, <1>4
  <2>2. Committed = [OnDisk EXCEPT !.quotes = s.before.quotes]
    BY <1>4, <2>1 DEF Committed
  <2>3. OnDisk = [s.before EXCEPT !.quotes = s.after.quotes]
    BY <1>2, <1>4 DEF Loaded, Between
  <2> QED
    BY <1>2, <2>2, <2>3 DEF Store
<1>5. CASE ~Between(t)
  <2>1. ~\E u \in Threads : Between(u)
    BY <1>3, <1>5
  <2>2. Committed = OnDisk
    <3>1. Committed = [OnDisk EXCEPT !.quotes = OnDisk.quotes]
      BY <2>1 DEF Committed
    <3>2. OnDisk \in Store
      BY DEF Inv, TypeOK
    <3> QED
      BY <3>1, <3>2 DEF Store
  <2>3. OnDisk = s.before
    BY <1>2, <1>5, QuotesAlone DEF Loaded, Between
  <2> QED
    BY <2>2, <2>3
<1> QED
  BY <1>4, <1>5

\* Otherwise, what is on disk.
LEMMA CommittedOnDisk ==
  Inv /\ (\A t \in Threads : pc[t] \notin {"write", "replace"}) => Committed = OnDisk
<1> SUFFICES ASSUME Inv, \A t \in Threads : pc[t] \notin {"write", "replace"}
             PROVE  Committed = OnDisk
  OBVIOUS
<1>1. Committed = [OnDisk EXCEPT !.quotes = OnDisk.quotes]
  BY DEF Committed, Between
<1>2. OnDisk \in Store
  BY DEF Inv, TypeOK
<1> QED
  BY <1>1, <1>2 DEF Store

LEMMA CommittedNext ==
  /\ Inv' => \A t \in Threads :
               pc'[t] \in {"copy", "write", "replace"} => Committed' = session'[t].before
  /\ Inv' /\ (\A t \in Threads : pc'[t] \notin {"write", "replace"}) => Committed' = OnDisk'
<1>1. (Inv => \A t \in Threads :
           pc[t] \in {"copy", "write", "replace"} => Committed = session[t].before)'
  BY CommittedBefore, PTL
<1>2. (Inv /\ (\A t \in Threads : pc[t] \notin {"write", "replace"}) => Committed = OnDisk)'
  BY CommittedOnDisk, PTL
<1> QED
  BY <1>1, <1>2

\* One thread learns something.
LEMMA ToldNext ==
  ASSUME NEW t \in Threads, NEW answer, Outcome(t)' = answer,
         \A u \in Threads \ {t} : /\ pc'[u] = pc[u] /\ session'[u] = session[u]
                                  /\ told'[u] = told[u]
  PROVE  Told' = [Told EXCEPT ![t] = answer]
<1>1. \A u \in Threads \ {t} : Outcome(u)' = Outcome(u)
  BY DEF Outcome
<1>2. Told' = [u \in Threads |-> Outcome(u)']
  BY DEF Told
<1>3. [Told EXCEPT ![t] = answer] = [u \in Threads |-> IF u = t THEN answer ELSE Outcome(u)]
  BY DEF Told
<1> QED
  BY <1>1, <1>2, <1>3

\* What a thread is told while it waits, runs and saves.
LEMMA AskedUntilItLeaves ==
  Inv => \A t \in Threads : pc[t] \in {"waiting", "copy", "write", "replace"} => Outcome(t) = "asked"
BY DEF Inv, Answered, Outcome

\* What the others find stays as it was, or is what some request leaves.
Whole ==
  Committed' = Committed \/ \E request \in Requests : Committed' \in Outcomes(request, Committed)

\* The steps of AtomicStore, told of Committed and Told; only a torn one is not Whole.
Maps ==
  /\ Atomic!Next \/ (Committed' = Committed /\ Told' = Told)
  /\ torn' \/ Whole

LEMMA AtomicAsk ==
  ASSUME NEW t \in Threads, Told[t] # "asked", Told' = [Told EXCEPT ![t] = "asked"],
         Committed' = Committed
  PROVE  Maps
BY DEF Maps, Whole, Told, Atomic!Next, Atomic!Ask, Atomic!Asked

LEMMA AtomicServe ==
  ASSUME NEW t \in Threads, Told[t] = "asked", Told' = [Told EXCEPT ![t] = "done"],
         NEW request \in Requests, Committed' \in Outcomes(request, Committed)
  PROVE  Maps
BY SameRequests DEF Maps, Whole, Told, Atomic!Next, Atomic!Serve, Atomic!Asked, Atomic!Done

LEMMA AtomicRefuse ==
  ASSUME NEW t \in Threads, Told[t] = "asked", Told' = [Told EXCEPT ![t] = "failed"],
         Committed' = Committed
  PROVE  Maps
BY DEF Maps, Whole, Told, Atomic!Next, Atomic!Refuse, Atomic!Asked, Atomic!Failed

LEMMA AtomicTear ==
  ASSUME torn', NEW t \in Threads, Told[t] = "asked", Told' = [Told EXCEPT ![t] = "failed"],
         NEW request \in Requests, NEW s \in Outcomes(request, Committed),
         Committed' = [Committed EXCEPT !.quotes = s.quotes]
  PROVE  Maps
<1>1. Atomic!Torn
  BY SameRequests DEF Atomic!Torn
<1> QED
  BY <1>1 DEF Maps, Told, Atomic!Next, Atomic!Tear, Atomic!Asked, Atomic!Failed

LEMMA AtomicCrash ==
  ASSUME Told' = [t \in Threads |-> "idle"],
         \/ Committed' = Committed
         \/ /\ torn'
            /\ \E request \in Requests : \E s \in Outcomes(request, Committed) :
                 Committed' = [Committed EXCEPT !.quotes = s.quotes]
  PROVE  Maps
<1>1. Atomic!Torn \/ Committed' = Committed
  BY SameRequests DEF Atomic!Torn
<1> QED
  BY <1>1 DEF Maps, Whole, Told, Atomic!Next, Atomic!Crash, Atomic!Idle

\* What the others would find stays as long as nobody begins or ends.
LEMMA CommittedStays ==
  ASSUME Inv, Inv',
         (\A u \in Threads : pc[u] \notin {"copy", "write", "replace"}) => OnDisk' = OnDisk,
         \A u \in Threads :
           \/ /\ pc[u] \notin {"copy", "write", "replace"} /\ pc'[u] \notin {"copy", "write", "replace"}
           \/ /\ pc[u] \in {"copy", "write", "replace"} /\ pc'[u] \in {"copy", "write", "replace"}
              /\ session'[u].before = session[u].before
  PROVE  Committed' = Committed
<1>1. CASE \E u \in Threads : pc[u] \in {"copy", "write", "replace"}
  BY <1>1, CommittedBefore, CommittedNext
<1>2. CASE \A u \in Threads : pc[u] \notin {"copy", "write", "replace"}
  BY <1>2, CommittedOnDisk, CommittedNext
<1> QED
  BY <1>1, <1>2

LEMMA AskMaps == ASSUME Inv, NEW t \in Threads, Ask(t) PROVE Maps
<1>1. Inv'
  BY AskInv
<1>2. pc \in [Threads -> At] /\ session \in [Threads -> Session]
      /\ told \in [Threads -> {"nothing", "asked", "done", "failed"}]
  BY DEF Inv, TypeOK, Session, At
<1>3. /\ \A u \in Threads \ {t} : pc'[u] = pc[u] /\ session'[u] = session[u] /\ told'[u] = told[u]
      /\ pc[t] = "out" /\ pc'[t] = "waiting" /\ OnDisk' = OnDisk
  BY <1>2 DEF Ask, files, OnDisk
<1>4. Committed' = Committed
  BY <1>1, <1>3, CommittedStays
<1>5. Outcome(t)' = "asked"
  BY <1>2 DEF Ask, Outcome
<1>6. Told' = [Told EXCEPT ![t] = "asked"]
  BY <1>3, <1>5, ToldNext
<1>7. Told[t] # "asked"
  BY <1>3 DEF Told, Outcome, Inv, Answered
<1> QED
  BY <1>4, <1>6, <1>7, AtomicAsk

LEMMA EnterMaps == ASSUME Inv, NEW t \in Threads, Enter(t) PROVE Maps
<1>1. Inv'
  BY EnterInv
<1>2. /\ pc[t] = "waiting" /\ mutex = Free /\ mutex' = t /\ told' = told
      /\ OnDisk' = OnDisk
  BY DEF Enter, MayEnter, files, OnDisk
<1>3. \A u \in Threads : ~Serving(u)
  BY <1>2, StorageOK DEF Inv, Exclusive
<1>4. Committed = OnDisk
  BY <1>3, CommittedOnDisk DEF Serving
<1>5. \A u \in Threads \ {t} : pc'[u] = pc[u] /\ session'[u] = session[u] /\ told'[u] = told[u]
  BY <1>2, EnterLeaves
<1>6. Told[t] = "asked"
  BY <1>2, AskedUntilItLeaves DEF Told
<1>7. CASE pc'[t] \in {"copy", "write"} /\ session'[t].before = OnDisk
  <2>1. Committed' = OnDisk
    BY <1>1, <1>7, CommittedNext
  <2>2. Outcome(t)' = "asked"
    BY <1>1, <1>7 DEF Inv, Answered, Outcome
  <2>3. Told' = [Told EXCEPT ![t] = "asked"]
    BY <1>5, <2>2, ToldNext
  <2>4. Told' = Told
    BY <1>6, <2>3 DEF Told
  <2> QED
    BY <1>4, <2>1, <2>4 DEF Maps, Whole
<1>8. ASSUME pc'[t] = "leave", session'[t].result = "done",
             NEW request \in Requests, OnDisk \in Outcomes(request, OnDisk)
      PROVE  Maps
  <2>1. Committed' = OnDisk
    <3>1. \A u \in Threads : pc'[u] \notin {"write", "replace"}
      BY <1>3, <1>5, <1>8 DEF Serving
    <3> QED
      BY <1>1, <1>2, <3>1, CommittedNext
  <2>2. Outcome(t)' = "done"
    BY <1>8 DEF Outcome
  <2>3. Told' = [Told EXCEPT ![t] = "done"]
    BY <1>5, <2>2, ToldNext
  <2> QED
    BY <1>4, <1>6, <1>8, <2>1, <2>3, AtomicServe
<1> QED
  BY <1>7, <1>8, EnterLeaves

\* A thread goes on serving its request: nobody sees anything.
LEMMA GoesOn ==
  ASSUME Inv, Inv', NEW t \in Threads, told' = told,
         pc[t] \in {"copy", "write", "replace"}, pc'[t] \in {"copy", "write", "replace"},
         session'[t].before = session[t].before,
         \A u \in Threads \ {t} : pc'[u] = pc[u] /\ session'[u] = session[u]
  PROVE  Maps
<1>1. Committed' = Committed
  BY CommittedBefore, CommittedNext
<1>2. Outcome(t)' = "asked"
  BY DEF Inv, Answered, Outcome
<1>3. Told' = [Told EXCEPT ![t] = "asked"]
  BY <1>2, ToldNext
<1>4. Told' = Told
  BY <1>3, AskedUntilItLeaves DEF Told
<1> QED
  BY <1>1, <1>4 DEF Maps, Whole

\* A thread is done, or has failed: the others find what is on disk.
LEMMA Ends ==
  ASSUME Inv, Inv', NEW t \in Threads, told' = told,
         pc[t] \in {"copy", "write", "replace"}, pc'[t] = "leave",
         NEW answer \in {"done", "failed"}, session'[t].result = answer,
         \A u \in Threads \ {t} : pc'[u] = pc[u] /\ session'[u] = session[u]
  PROVE  /\ Told[t] = "asked" /\ Told' = [Told EXCEPT ![t] = answer]
         /\ Committed = session[t].before /\ Committed' = OnDisk'
<1>1. Told[t] = "asked"
  BY AskedUntilItLeaves DEF Told
<1>2. Outcome(t)' = answer
  BY DEF Outcome
<1>3. Told' = [Told EXCEPT ![t] = answer]
  BY <1>2, ToldNext
<1>4. mutex = t
  BY Mine DEF Serving
<1>5. \A u \in Threads : pc'[u] \notin {"write", "replace"}
  BY <1>4 DEF Inv, Exclusive, Serving
<1>6. Committed' = OnDisk'
  BY <1>5, CommittedNext
<1> QED
  BY <1>1, <1>3, <1>6, CommittedBefore

LEMMA EnterFailsMaps == ASSUME Inv, NEW t \in Threads, EnterFails(t) PROVE Maps
<1>1. Inv'
  BY EnterFailsInv
<1>2. pc[t] = "waiting" /\ mutex = Free /\ told' = told /\ OnDisk' = OnDisk
  BY DEF EnterFails, MayEnter, files, OnDisk
<1>3. session[t] \in Session /\ TypeOK
  BY DEF Inv, TypeOK, Session
<1>4. /\ pc'[t] = "leave" /\ session'[t].result = "failed"
      /\ \A u \in Threads \ {t} : pc'[u] = pc[u] /\ session'[u] = session[u]
  BY <1>3, ReturningType DEF EnterFails
<1>5. \A u \in Threads : ~Serving(u)
  BY <1>2, StorageOK DEF Inv, Exclusive
<1>6. Committed = OnDisk
  BY <1>5, CommittedOnDisk DEF Serving
<1>7. Committed' = OnDisk'
  <2>1. \A u \in Threads : pc'[u] \notin {"write", "replace"}
    BY <1>4, <1>5 DEF Serving
  <2> QED
    BY <1>1, <2>1, CommittedNext
<1>8. Told[t] = "asked"
  BY <1>2, AskedUntilItLeaves DEF Told
<1>9. Told' = [Told EXCEPT ![t] = "failed"]
  <2>1. Outcome(t)' = "failed"
    BY <1>4 DEF Outcome
  <2> QED
    BY <1>2, <1>4, <2>1, ToldNext
<1> QED
  BY <1>2, <1>6, <1>7, <1>8, <1>9, AtomicRefuse

LEMMA CopyMaps == ASSUME Inv, NEW t \in Threads, Copy(t) PROVE Maps
<1> DEFINE s == session[t]
<1>1. Inv'
  BY CopyInv
<1>2. Serving(t) /\ pc[t] = "copy" /\ told' = told /\ OnDisk' = OnDisk /\ SaveFirst(t, s)
  BY DEF Copy, Serving, OnDisk
<1>3. PICK request \in Requests : s.after \in Outcomes(request, s.before)
  BY <1>2, Mine DEF Loaded
<1>4. OnDisk = s.before
  BY <1>2, Mine DEF Loaded
<1>5. /\ \A u \in Threads \ {t} : pc'[u] = pc[u] /\ session'[u] = session[u]
      /\ \/ pc'[t] = "write" /\ session'[t].before = s.before
         \/ pc'[t] = "leave" /\ session'[t].result = "done" /\ s.after = s.before
  BY <1>2, <1>3, <1>4, Mine, SaveFirstLoads
<1>6. CASE pc'[t] = "write" /\ session'[t].before = s.before
  BY <1>1, <1>2, <1>5, <1>6, GoesOn
<1>7. CASE pc'[t] = "leave" /\ session'[t].result = "done" /\ s.after = s.before
  <2>1. /\ Told[t] = "asked" /\ Told' = [Told EXCEPT ![t] = "done"]
        /\ Committed = s.before /\ Committed' = s.before
    BY <1>1, <1>2, <1>4, <1>5, <1>7, Ends
  <2> QED
    BY <1>3, <1>7, <2>1, AtomicServe
<1> QED
  BY <1>5, <1>6, <1>7

LEMMA CopyFailsMaps == ASSUME Inv, NEW t \in Threads, CopyFails(t) PROVE Maps
<1>1. Inv'
  BY CopyFailsInv
<1>2. Serving(t) /\ pc[t] = "copy" /\ told' = told /\ OnDisk' = OnDisk
  BY DEF CopyFails, Serving, OnDisk
<1>3. /\ pc'[t] = "leave" /\ session'[t].result = "failed"
      /\ \A u \in Threads \ {t} : pc'[u] = pc[u] /\ session'[u] = session[u]
  BY <1>2, Mine, ReturningType DEF CopyFails, CopyThrows
<1>4. /\ Told[t] = "asked" /\ Told' = [Told EXCEPT ![t] = "failed"]
      /\ Committed = session[t].before /\ Committed' = OnDisk
  BY <1>1, <1>2, <1>3, Ends
<1>5. OnDisk = session[t].before
  BY <1>2, Mine DEF Loaded
<1> QED
  BY <1>4, <1>5, AtomicRefuse

LEMMA WriteMaps == ASSUME Inv, NEW t \in Threads, Write(t) PROVE Maps
<1>1. Inv'
  BY WriteInv
<1>2. /\ pc[t] = "write" /\ told' = told /\ session' = session
      /\ pc' = [pc EXCEPT ![t] = "replace"] /\ pc \in [Threads -> At]
  BY DEF Write, Inv, TypeOK, At
<1> QED
  BY <1>1, <1>2, GoesOn

\* When not even the quotes can be put back, they are ahead of the state.
LEMMA SaveFailsMaps == ASSUME Inv, NEW t \in Threads, SaveFails(t) PROVE Maps
<1> DEFINE s == session[t]
<1>1. Inv'
  BY SaveFailsInv
<1>2. Serving(t) /\ pc[t] \in {"write", "replace"} /\ told' = told /\ OnDisk' = OnDisk
  BY DEF SaveFails, Serving, OnDisk
<1>3. s \in Session /\ Loaded(t) /\ TypeOK
  BY <1>2, Mine
<1>4. CASE s.saving = "state" /\ QuotesChanged(s)
  <2>1. Saving(t, s, "undo")
    BY <1>4 DEF SaveFails, SaveFailed
  <2>2. /\ pc'[t] = "write" /\ session'[t].before = s.before
        /\ \A u \in Threads \ {t} : pc'[u] = pc[u] /\ session'[u] = session[u]
    BY <1>3, <2>1, SavingType
  <2> QED
    BY <1>1, <1>2, <2>2, GoesOn
<1>5. CASE ~(s.saving = "state" /\ QuotesChanged(s))
  <2>1. Returning(t, s, "failed")
    BY <1>5 DEF SaveFails, SaveFailed
  <2>2. /\ pc'[t] = "leave" /\ session'[t].result = "failed"
        /\ \A u \in Threads \ {t} : pc'[u] = pc[u] /\ session'[u] = session[u]
    BY <1>3, <2>1, ReturningType
  <2>3. /\ Told[t] = "asked" /\ Told' = [Told EXCEPT ![t] = "failed"]
        /\ Committed = s.before /\ Committed' = OnDisk
    BY <1>1, <1>2, <2>2, Ends
  <2>4. CASE s.saving = "undo"
    <3>1. OnDisk = [s.before EXCEPT !.quotes = s.after.quotes]
      BY <1>2, <1>3, <2>4 DEF Loaded
    <3>2. PICK request \in Requests : s.after \in Outcomes(request, s.before)
      BY <1>3 DEF Loaded
    <3>3. torn'
      BY <1>5, <2>4 DEF SaveFails, SaveFailed
    <3> QED
      BY <2>3, <3>1, <3>2, <3>3, AtomicTear
  <2>5. CASE s.saving # "undo"
    <3>1. OnDisk = s.before
      BY <1>2, <1>3, <1>5, <2>5, QuotesAlone DEF Loaded
    <3> QED
      BY <2>3, <3>1, AtomicRefuse
  <2> QED
    BY <2>4, <2>5
<1> QED
  BY <1>4, <1>5

LEMMA ReplaceMaps == ASSUME Inv, NEW t \in Threads, Replace(t) PROVE Maps
<1> DEFINE s == session[t]
<1>1. Inv'
  BY ReplaceInv
<1>2. Serving(t) /\ pc[t] = "replace" /\ told' = told
  BY DEF Replace, Serving
<1>3. s \in Session /\ Loaded(t) /\ s.before \in Store /\ s.after \in Store
  BY <1>2, Mine, SessionParts
<1>4. /\ \A u \in Threads \ {t} : pc'[u] = pc[u] /\ session'[u] = session[u]
      /\ \/ /\ s.saving = "quotes" /\ StateChanged(s)
            /\ pc'[t] = "write" /\ session'[t].before = s.before
         \/ /\ ~(s.saving = "quotes" /\ StateChanged(s))
            /\ pc'[t] = "leave"
            /\ session'[t].result = IF s.saving = "undo" THEN "failed" ELSE "done"
  BY ReplaceGoes
<1>5. OnDisk' = IF s.saving = "quotes" THEN [s.before EXCEPT !.quotes = s.after.quotes]
                ELSE IF s.saving = "state" THEN s.after ELSE s.before
  BY ReplacedDisk
<1>6. CASE s.saving = "quotes" /\ StateChanged(s)
  BY <1>1, <1>2, <1>4, <1>6, GoesOn
<1>7. CASE ~(s.saving = "quotes" /\ StateChanged(s)) /\ s.saving # "undo"
  <2>1. /\ Told[t] = "asked" /\ Told' = [Told EXCEPT ![t] = "done"]
        /\ Committed = s.before /\ Committed' = OnDisk'
    BY <1>1, <1>2, <1>4, <1>7, Ends
  <2>2. OnDisk' = s.after
    <3>1. s.saving \in {"quotes", "state"}
      BY <1>2, <1>3, <1>7 DEF Loaded
    <3> QED
      BY <1>3, <1>5, <1>7, <3>1 DEF StateChanged, Store
  <2>3. PICK request \in Requests : s.after \in Outcomes(request, s.before)
    BY <1>3 DEF Loaded
  <2> QED
    BY <2>1, <2>2, <2>3, AtomicServe
<1>8. CASE s.saving = "undo"
  <2>1. /\ Told[t] = "asked" /\ Told' = [Told EXCEPT ![t] = "failed"]
        /\ Committed = s.before /\ Committed' = OnDisk'
    BY <1>1, <1>2, <1>4, <1>8, Ends
  <2> QED
    BY <1>5, <1>8, <2>1, AtomicRefuse
<1> QED
  BY <1>6, <1>7, <1>8

LEMMA LeaveMaps == ASSUME Inv, NEW t \in Threads, Leave(t) PROVE Maps
<1>1. Inv'
  BY LeaveInv
<1>2. /\ pc[t] = "leave" /\ OnDisk' = OnDisk
      /\ pc' = [pc EXCEPT ![t] = "out"] /\ session' = [session EXCEPT ![t] = Fresh(0)]
      /\ told' = [told EXCEPT ![t] = session[t].result]
      /\ pc \in [Threads -> At] /\ session \in [Threads -> Session]
      /\ told \in [Threads -> {"nothing", "asked", "done", "failed"}]
  BY DEF Leave, files, OnDisk, Inv, TypeOK, At, Session
<1>3. /\ \A u \in Threads \ {t} : pc'[u] = pc[u] /\ session'[u] = session[u] /\ told'[u] = told[u]
      /\ pc'[t] = "out" /\ told'[t] = session[t].result
  BY <1>2
<1>4. Committed' = Committed
  BY <1>1, <1>2, <1>3, CommittedStays
<1>5. session[t].result \in {"done", "failed"}
  BY <1>2 DEF Inv, Answered
<1>6. Outcome(t)' = session[t].result /\ Outcome(t) = session[t].result
  BY <1>2, <1>3, <1>5 DEF Outcome
<1>7. Told' = [Told EXCEPT ![t] = session[t].result]
  BY <1>3, <1>6, ToldNext
<1>8. Told' = Told
  BY <1>6, <1>7 DEF Told
<1> QED
  BY <1>4, <1>8 DEF Maps, Whole

\* Whoever was between the two renames leaves the quotes of what its function left.
LEMMA CrashMaps == ASSUME Inv, Crash PROVE Maps
<1>1. Inv'
  BY CrashInv
<1>2. OnDisk' = OnDisk /\ \A t \in Threads : pc'[t] = "out" /\ told'[t] = "nothing"
  BY DEF Crash, OnDisk
<1>3. Committed' = OnDisk
  BY <1>1, <1>2, CommittedNext
<1>4. Told' = [t \in Threads |-> "idle"]
  BY <1>2 DEF Told, Outcome
<1>5. CASE \E t \in Threads : pc[t] \in {"copy", "write", "replace"}
  <2>1. PICK t \in Threads : pc[t] \in {"copy", "write", "replace"}
    BY <1>5
  <2> DEFINE s == session[t]
  <2>2. s \in Session /\ Loaded(t) /\ Committed = s.before
    BY <2>1, Mine, CommittedBefore DEF Serving
  <2>3. OnDisk = s.before \/ OnDisk = [s.before EXCEPT !.quotes = s.after.quotes]
    BY <2>1, <2>2 DEF Loaded
  <2>4. PICK request \in Requests : s.after \in Outcomes(request, s.before)
    BY <2>2 DEF Loaded
  <2>5. CASE Between(t)
    <3>1. torn'
      BY <2>5 DEF Crash
    <3> QED
      BY <1>3, <1>4, <2>2, <2>3, <2>4, <3>1, AtomicCrash
  <2>6. CASE ~Between(t)
    <3>1. OnDisk = s.before
      BY <2>1, <2>2, <2>6, SessionParts, QuotesAlone DEF Loaded, Between
    <3> QED
      BY <1>3, <1>4, <2>2, <3>1, AtomicCrash
  <2> QED
    BY <2>5, <2>6
<1>6. CASE \A t \in Threads : pc[t] \notin {"copy", "write", "replace"}
  BY <1>3, <1>4, <1>6, CommittedOnDisk, AtomicCrash
<1> QED
  BY <1>5, <1>6

LEMMA RestMaps ==
  ASSUME Inv, Restart \/ MigrationFails \/ Tick \/ UNCHANGED vars
  PROVE  Maps
<1>1. Inv'
  BY NextInv DEF Next
<1>2. pc' = pc /\ session' = session /\ told' = told
  BY DEF Restart, MigrationFails, Tick, vars, threads
<1>3. OnDisk' = OnDisk
  <2>1. CASE Restart
    BY <2>1, RestartKeepsTheDisk
  <2>2. CASE MigrationFails \/ Tick \/ UNCHANGED vars
    BY <2>2 DEF MigrationFails, Tick, vars, files, OnDisk
  <2> QED
    BY <2>1, <2>2
<1>4. Committed' = Committed
  BY <1>1, <1>2, <1>3, CommittedStays
<1>5. Told' = Told
  BY <1>2 DEF Told, Outcome
<1> QED
  BY <1>4, <1>5 DEF Maps, Whole

LEMMA NextMaps == Inv /\ [Next]_vars => Maps
<1> SUFFICES ASSUME Inv, [Next]_vars PROVE Maps
  OBVIOUS
<1>1. ASSUME NEW t \in Threads, Ask(t) \/ Enter(t) \/ EnterFails(t) PROVE Maps
  BY <1>1, AskMaps, EnterMaps, EnterFailsMaps
<1>2. ASSUME NEW t \in Threads, Step(t) PROVE Maps
  BY <1>2, CopyMaps, CopyFailsMaps, WriteMaps, SaveFailsMaps, ReplaceMaps, LeaveMaps DEF Step
<1>3. CASE Crash
  BY <1>3, CrashMaps
<1>4. CASE Restart \/ MigrationFails \/ Tick \/ UNCHANGED vars
  BY <1>4, RestMaps
<1> QED
  BY <1>1, <1>2, <1>3, <1>4 DEF Next

LEMMA InitMaps == Init => Atomic!Init
<1> SUFFICES ASSUME Init PROVE Atomic!Init
  OBVIOUS
<1>1. Inv /\ \A t \in Threads : pc[t] = "out" /\ told[t] = "nothing"
  BY InitInv DEF Init
<1>2. Committed = OnDisk
  BY <1>1, CommittedOnDisk
<1>3. PICK quotes \in {Missing, EmptyStore.quotes}, state \in {Missing, Old, EmptyStore.state} :
        file = [name \in {"quotes", "state"} |-> IF name = "quotes" THEN quotes ELSE state]
  BY DEF Init
<1>4. file["quotes"] = quotes /\ file["state"] = state
  BY <1>3
<1>5. OnDisk.quotes = EmptyStore.quotes /\ NewStore.quotes = EmptyStore.quotes
  BY <1>4 DEF OnDisk, QuotesOf, NewStore, EmptyStore
<1>6. OnDisk.state \in {NewStore.state, EmptyStore.state}
  BY <1>4 DEF OnDisk, StateOf
<1>7. OnDisk \in {NewStore, EmptyStore}
  <2>1. OnDisk = [quotes |-> OnDisk.quotes, state |-> OnDisk.state]
    BY DEF OnDisk
  <2>2. NewStore = [quotes |-> NewStore.quotes, state |-> NewStore.state]
    BY DEF NewStore
  <2>3. EmptyStore = [quotes |-> EmptyStore.quotes, state |-> EmptyStore.state]
    BY DEF EmptyStore
  <2> QED
    BY <1>5, <1>6, <2>1, <2>2, <2>3
<1>8. Told = [t \in Threads |-> "idle"]
  BY <1>1 DEF Told, Outcome
<1> QED
  BY <1>2, <1>7, <1>8, SameRequests DEF Told, Atomic!Init, Atomic!Idle

\* Storage::transaction keeps what storage.hpp promises: whatever fails and whenever the
\* process dies, transactions happen one at a time, each whole or not at all, but for
\* quotes that may stay ahead of the state.
THEOREM Implements == Spec => AtomicTransactions
<1>1. Inv /\ [Next]_vars => [Atomic!Next]_<<Committed, [t \in Threads |-> Outcome(t)]>>
  BY NextMaps DEF Maps, Told
<1> QED
  BY <1>1, InitMaps, SpecInv, PTL DEF Spec, AtomicTransactions, Atomic!Spec

-----------------------------------------------------------------------------
(* Nothing is reset without a copy. *)

\* Only a thread that found a ☢️ is about to reset anything; it found it in a file, and it
\* saves nothing before that file is copied.
Backed(t) ==
  /\ pc[t] \in {"out", "waiting"} => ~session[t].resets
  /\ pc[t] = "copy" => file["state"] # Missing
  /\ pc[t] \in {"write", "replace"} /\ session[t].resets =>
       kept[session[t].at] = file["state"]

Copied == Inv /\ \A t \in Threads : Backed(t)

LEMMA InitCopied == Init => Copied
BY InitInv DEF Init, Copied, Backed, Fresh

\* Whoever neither has the mutex nor takes it is not affected.
LEMMA OthersBacked ==
  ASSUME Copied, NEW t \in Threads, mutex \in {t, Free}, NEW u \in Threads \ {t},
         pc'[u] = pc[u], session'[u] = session[u]
  PROVE  Backed(u)'
<1>1. pc[u] \in {"out", "waiting"}
  <2>1. pc \in [Threads -> At] /\ Exclusive
    BY DEF Copied, Inv, TypeOK, At
  <2>2. Free \notin Threads
    BY StorageOK
  <2> QED
    BY <2>1, <2>2 DEF Exclusive, Serving, At
<1> QED
  BY <1>1 DEF Copied, Backed

\* To save another document, or to return, forgets neither that it resets nor the copy.
LEMMA StillResets ==
  ASSUME TypeOK, NEW t \in Threads, NEW s \in Session,
         \/ \E saving \in {"quotes", "state", "undo"} : Saving(t, s, saving)
         \/ \E result \in {"done", "failed"} : Returning(t, s, result)
  PROVE  /\ pc'[t] \in {"write", "leave"}
         /\ session'[t].resets = s.resets /\ session'[t].at = s.at
         /\ \A u \in Threads \ {t} : pc'[u] = pc[u] /\ session'[u] = session[u]
<1>1. session \in [Threads -> Session] /\ pc \in [Threads -> At]
  BY DEF TypeOK, Session, At
<1>2. ASSUME NEW saving \in {"quotes", "state", "undo"}, Saving(t, s, saving)
      PROVE  /\ pc'[t] = "write" /\ session'[t] = [s EXCEPT !.saving = saving]
             /\ \A u \in Threads \ {t} : pc'[u] = pc[u] /\ session'[u] = session[u]
  BY <1>1, <1>2 DEF Saving
<1>3. ASSUME NEW result \in {"done", "failed"}, Returning(t, s, result)
      PROVE  /\ pc'[t] = "leave" /\ session'[t] = [s EXCEPT !.result = result]
             /\ \A u \in Threads \ {t} : pc'[u] = pc[u] /\ session'[u] = session[u]
  BY <1>1, <1>3 DEF Returning
<1>4. CASE \E saving \in {"quotes", "state", "undo"} : Saving(t, s, saving)
  <2>1. PICK saving \in {"quotes", "state", "undo"} : Saving(t, s, saving)
    BY <1>4
  <2>2. [s EXCEPT !.saving = saving].resets = s.resets /\ [s EXCEPT !.saving = saving].at = s.at
    BY DEF Session
  <2> QED
    BY <1>2, <2>1, <2>2
<1>5. CASE \E result \in {"done", "failed"} : Returning(t, s, result)
  <2>1. PICK result \in {"done", "failed"} : Returning(t, s, result)
    BY <1>5
  <2>2. [s EXCEPT !.result = result].resets = s.resets /\ [s EXCEPT !.result = result].at = s.at
    BY DEF Session
  <2> QED
    BY <1>3, <2>1, <2>2
<1> QED
  BY <1>4, <1>5

LEMMA SaveFirstResets ==
  ASSUME TypeOK, NEW t \in Threads, NEW s \in Session, SaveFirst(t, s)
  PROVE  /\ pc'[t] \in {"write", "leave"}
         /\ session'[t].resets = s.resets /\ session'[t].at = s.at
         /\ \A u \in Threads \ {t} : pc'[u] = pc[u] /\ session'[u] = session[u]
<1>1. \/ \E saving \in {"quotes", "state", "undo"} : Saving(t, s, saving)
      \/ \E result \in {"done", "failed"} : Returning(t, s, result)
  BY DEF SaveFirst
<1> QED
  BY <1>1, StillResets

\* Nobody finds a ☢️ in a file that is not there.
LEMMA EnterCopied == ASSUME Copied, NEW t \in Threads, Enter(t) PROVE \A u \in Threads : Backed(u)'
<1>1. PICK request \in Requests : \E after \in Outcomes(request, OnDisk) :
        LET s == [session[t] EXCEPT !.before = OnDisk, !.after = after,
                                    !.resets = Copies(request, OnDisk)]
        IN  IF s.resets
            THEN session' = [session EXCEPT ![t] = s] /\ pc' = [pc EXCEPT ![t] = "copy"]
            ELSE SaveFirst(t, s)
  BY DEF Enter
<1>2. PICK after \in Outcomes(request, OnDisk) :
        LET s == [session[t] EXCEPT !.before = OnDisk, !.after = after,
                                    !.resets = Copies(request, OnDisk)]
        IN  IF s.resets
            THEN session' = [session EXCEPT ![t] = s] /\ pc' = [pc EXCEPT ![t] = "copy"]
            ELSE SaveFirst(t, s)
  BY <1>1
<1>3. /\ session[t] \in Session /\ OnDisk \in Store /\ file' = file /\ TypeOK /\ Inv
      /\ session \in [Threads -> Session] /\ pc \in [Threads -> At] /\ mutex = Free
  BY DEF Copied, Inv, TypeOK, Session, At, Enter, MayEnter, files
<1>4. after \in Store
  BY <1>3, OutcomesType
<1> DEFINE flag == Copies(request, OnDisk)
           s == [session[t] EXCEPT !.before = OnDisk, !.after = after, !.resets = flag]
<1>5. flag \in BOOLEAN
  BY DEF Copies
<1>6. flag => file["state"] # Missing
  <2>1. SUFFICES ASSUME flag, file["state"] = Missing PROVE FALSE
    OBVIOUS
  <2>2. OnDisk.state = NewStore.state
    BY <2>1 DEF OnDisk, StateOf
  <2>3. NewStore.state.nukes = {}
    BY DEF NewStore
  <2>4. request.who \in OnDisk.state.nukes
    BY <2>1, Zenon DEF Copies
  <2> QED
    BY <2>2, <2>3, <2>4
<1>7. IF s.resets THEN session' = [session EXCEPT ![t] = s] /\ pc' = [pc EXCEPT ![t] = "copy"]
      ELSE SaveFirst(t, s)
  BY <1>2
<1> HIDE DEF flag
<1>8. s \in Session /\ s.resets = flag
  BY <1>3, <1>4, <1>5 DEF Session
<1> HIDE DEF s
<1>9. /\ \A u \in Threads \ {t} : pc'[u] = pc[u] /\ session'[u] = session[u]
      /\ Backed(t)'
  <2>1. CASE s.resets
    BY <1>3, <1>6, <1>7, <1>8, <2>1 DEF Backed
  <2>2. CASE ~s.resets
    BY <1>3, <1>7, <1>8, <2>2, SaveFirstResets DEF Backed
  <2> QED
    BY <2>1, <2>2
<1> QED
  BY <1>3, <1>9, OthersBacked

\* What is copied is the file that is there.
LEMMA CopyCopied == ASSUME Copied, NEW t \in Threads, Copy(t) PROVE \A u \in Threads : Backed(u)'
<1>1. Serving(t) /\ pc[t] = "copy" /\ Inv /\ file' = file
  BY DEF Copy, Serving, Copied
<1>2. mutex = t /\ session[t] \in Session /\ TypeOK
  BY <1>1, Mine
<1>3. /\ pc'[t] \in {"write", "leave"} /\ session'[t].at = session[t].at
      /\ \A u \in Threads \ {t} : pc'[u] = pc[u] /\ session'[u] = session[u]
  BY <1>2, SaveFirstResets DEF Copy
<1>4. file["state"] # Missing
  BY <1>1 DEF Copied, Backed
<1>5. session[t].at \in 0 .. MaxTime /\ DOMAIN kept = 0 .. MaxTime
  BY <1>2, SessionParts DEF TypeOK
<1>6. kept'[session[t].at] = file["state"]
  BY <1>4, <1>5 DEF Copy
<1>7. Backed(t)'
  BY <1>1, <1>3, <1>6 DEF Backed
<1> QED
  BY <1>2, <1>3, <1>7, OthersBacked

\* The steps that only go on or give up leave the copy and the state where they are.
LEMMA SavingCopied ==
  ASSUME Copied, NEW t \in Threads, CopyFails(t) \/ Write(t) \/ SaveFails(t)
  PROVE  \A u \in Threads : Backed(u)'
<1>1. Serving(t) /\ Inv /\ file' = file
  BY DEF CopyFails, Write, SaveFails, Serving, Copied
<1>2. mutex = t /\ session[t] \in Session /\ TypeOK /\ pc \in [Threads -> At]
  BY <1>1, Mine
<1>3. CASE CopyFails(t)
  <2>1. Returning(t, session[t], "failed")
    BY <1>3 DEF CopyFails, CopyThrows
  <2>2. pc'[t] = "leave" /\ \A u \in Threads \ {t} : pc'[u] = pc[u] /\ session'[u] = session[u]
    BY <1>2, <2>1, ReturningType
  <2> QED
    BY <1>2, <2>2, OthersBacked DEF Backed
<1>4. CASE Write(t)
  <2>1. /\ pc[t] = "write" /\ pc'[t] = "replace" /\ session' = session /\ kept' = kept
        /\ \A u \in Threads \ {t} : pc'[u] = pc[u]
    BY <1>2, <1>4 DEF Write
  <2>2. Backed(t)'
    BY <1>1, <2>1 DEF Copied, Backed
  <2> QED
    BY <1>2, <2>1, <2>2, OthersBacked
<1>5. CASE SaveFails(t)
  <2>1. \/ \E saving \in {"quotes", "state", "undo"} : Saving(t, session[t], saving)
        \/ \E result \in {"done", "failed"} : Returning(t, session[t], result)
    BY <1>5 DEF SaveFails, SaveFailed
  <2>2. /\ pc'[t] \in {"write", "leave"}
        /\ session'[t].resets = session[t].resets /\ session'[t].at = session[t].at
        /\ \A u \in Threads \ {t} : pc'[u] = pc[u] /\ session'[u] = session[u]
    BY <1>2, <2>1, StillResets
  <2>3. kept' = kept /\ pc[t] \in {"write", "replace"}
    BY <1>5 DEF SaveFails
  <2>4. Backed(t)'
    BY <1>1, <2>2, <2>3 DEF Copied, Backed
  <2> QED
    BY <1>2, <2>2, <2>4, OthersBacked
<1> QED
  BY <1>3, <1>4, <1>5

\* The quotes may be renamed first, and put back; the state is renamed last.
LEMMA ReplaceCopied == ASSUME Copied, NEW t \in Threads, Replace(t) PROVE \A u \in Threads : Backed(u)'
<1>1. Serving(t) /\ Inv /\ kept' = kept /\ pc[t] = "replace"
  BY DEF Replace, Serving, Copied
<1>2. mutex = t /\ session[t] \in Session /\ TypeOK
  BY <1>1, Mine
<1>3. \A u \in Threads \ {t} : pc'[u] = pc[u] /\ session'[u] = session[u]
  BY <1>1, ReplaceGoes
<1>4. Backed(t)'
  <2>1. CASE session[t].saving = "quotes" /\ StateChanged(session[t])
    <3>1. Saving(t, session[t], "state")
      BY <2>1 DEF Replace, SaveNext
    <3>2. /\ pc'[t] \in {"write", "leave"} /\ session'[t].resets = session[t].resets
          /\ session'[t].at = session[t].at
      BY <1>2, <3>1, StillResets
    <3>3. file'["state"] = file["state"]
      BY <1>2, <2>1 DEF Replace, FileOf, TypeOK
    <3> QED
      BY <1>1, <3>2, <3>3 DEF Copied, Backed
  <2>2. CASE ~(session[t].saving = "quotes" /\ StateChanged(session[t]))
    <3>1. pc'[t] = "leave"
      BY <1>1, <2>2, ReplaceGoes
    <3> QED
      BY <3>1 DEF Backed
  <2> QED
    BY <2>1, <2>2
<1> QED
  BY <1>2, <1>3, <1>4, OthersBacked

LEMMA LeaveCopied == ASSUME Copied, NEW t \in Threads, Leave(t) PROVE \A u \in Threads : Backed(u)'
<1>1. Serving(t) /\ Inv
  BY DEF Leave, Serving, Copied
<1>2. mutex = t /\ session \in [Threads -> Session] /\ pc \in [Threads -> At]
  BY <1>1, Mine
<1>3. /\ pc'[t] = "out" /\ session'[t] = Fresh(0)
      /\ \A u \in Threads \ {t} : pc'[u] = pc[u] /\ session'[u] = session[u]
  BY <1>2 DEF Leave
<1>4. Backed(t)'
  BY <1>3 DEF Backed, Fresh
<1> QED
  BY <1>2, <1>3, <1>4, OthersBacked

LEMMA NextCopied == Copied /\ [Next]_vars => Copied'
<1> SUFFICES ASSUME Copied, [Next]_vars PROVE \A u \in Threads : Backed(u)'
  BY NextInv DEF Copied
<1>0. Inv /\ session \in [Threads -> Session] /\ pc \in [Threads -> At]
  BY DEF Copied, Inv, TypeOK, Session, At
<1>1. ASSUME NEW t \in Threads, Ask(t) PROVE \A u \in Threads : Backed(u)'
  <2>1. /\ pc'[t] = "waiting" /\ session'[t] = Fresh(now)
        /\ \A u \in Threads \ {t} : pc'[u] = pc[u] /\ session'[u] = session[u]
        /\ file' = file /\ kept' = kept
    BY <1>0, <1>1 DEF Ask, files
  <2>2. Backed(t)'
    BY <2>1 DEF Backed, Fresh
  <2> QED
    BY <2>1, <2>2 DEF Copied, Backed
<1>2. ASSUME NEW t \in Threads, EnterFails(t) PROVE \A u \in Threads : Backed(u)'
  <2>1. mutex = Free /\ session[t] \in Session /\ TypeOK
    BY <1>0, <1>2 DEF EnterFails, MayEnter, Inv
  <2>2. pc'[t] = "leave" /\ \A u \in Threads \ {t} : pc'[u] = pc[u] /\ session'[u] = session[u]
    BY <1>2, <2>1, ReturningType DEF EnterFails
  <2> QED
    BY <2>1, <2>2, OthersBacked DEF Backed
<1>3. ASSUME NEW t \in Threads, Enter(t) PROVE \A u \in Threads : Backed(u)'
  BY <1>3, EnterCopied
<1>4. ASSUME NEW t \in Threads, Step(t) PROVE \A u \in Threads : Backed(u)'
  BY <1>4, CopyCopied, SavingCopied, ReplaceCopied, LeaveCopied DEF Step
<1>5. CASE Crash
  BY <1>5 DEF Crash, Backed, Fresh
<1>6. CASE Restart \/ MigrationFails
  <2>1. pc' = pc /\ session' = session /\ \A u \in Threads : pc[u] = "out"
    BY <1>0, <1>6 DEF Restart, MigrationFails, threads, Inv, Running
  <2> QED
    BY <2>1 DEF Copied, Backed
<1>7. CASE Tick \/ UNCHANGED vars
  BY <1>7 DEF Tick, vars, threads, files, Copied, Backed
<1> QED
  BY <1>1, <1>2, <1>3, <1>4, <1>5, <1>6, <1>7 DEF Next

\* No ☢️ changes the state on disk before a whole copy of it is under its name (backup),
\* whatever fails on the way and however the threads and the crashes interleave.
THEOREM CopiedBeforeReset == Spec => NothingResetWithoutACopy
<1>1. Copied /\ [Next]_vars =>
        [\A t \in Threads :
           session[t].resets /\ file'["state"] # file["state"] /\ pc'[t] # pc[t]
             => kept[session[t].at] = file["state"]]_vars
  <2> SUFFICES ASSUME Copied, Next, NEW t \in Threads, session[t].resets,
                      file'["state"] # file["state"], pc'[t] # pc[t]
               PROVE  kept[session[t].at] = file["state"]
    OBVIOUS
  <2>1. PICK u \in Threads : Replace(u)
    BY DEF Next, Ask, Enter, EnterFails, Step, Copy, CopyFails, Write, SaveFails, Leave, Crash,
           Restart, MigrationFails, Tick, threads, files
  <2>2. t = u
    BY <2>1, ReplaceGoes DEF Copied
  <2> QED
    BY <2>1, <2>2 DEF Replace, Copied, Backed
<1> QED
  BY <1>1, InitCopied, NextCopied, PTL DEF Spec, NothingResetWithoutACopy


-----------------------------------------------------------------------------
(* The two documents agree. *)

\* The quotes a player is known to have added.
Whose(s, p) == {t \in s.quotes : s.state.quote_authors[t] = p}

\* A counter says how many only while they can be counted.
Agrees(s) == Agree(s) /\ \A p \in Players : IsFiniteSet(Whose(s, p))

\* What a transaction leaves agrees if it adds, or takes away, one quote of one player in
\* both documents, or none in either.
LEMMA SameQuotes ==
  ASSUME NEW s \in Store, Agrees(s), NEW after,
         \A t \in Texts : after.state.quote_authors[t] # Nobody => t \in after.quotes,
         \A p \in Players : Whose(after, p) = Whose(s, p),
         \A p \in Players : after.state.quotes_added[p] = s.state.quotes_added[p]
  PROVE  Agrees(after)
BY DEF Agrees, Agree, Whose

LEMMA OneMore ==
  ASSUME NEW s \in Store, Agrees(s), NEW after, NEW p \in Players, NEW text \in Texts,
         text \notin s.quotes,
         after.quotes = s.quotes \cup {text},
         after.state.quote_authors = [s.state.quote_authors EXCEPT ![text] = p],
         after.state.quotes_added = [s.state.quotes_added EXCEPT ![p] = @ + 1]
  PROVE  Agrees(after)
<1>1. /\ s.state.quote_authors \in [Texts -> Players \cup {Nobody}]
      /\ s.state.quotes_added \in [Players -> Nat] /\ s.quotes \subseteq Texts
  BY StoreParts DEF Quotes
<1>2. \A t \in Texts : after.state.quote_authors[t] # Nobody => t \in after.quotes
  BY <1>1 DEF Agrees, Agree
<1>3. Whose(after, p) = Whose(s, p) \cup {text} /\ text \notin Whose(s, p)
  BY <1>1 DEF Whose
<1>4. \A q \in Players \ {p} : Whose(after, q) = Whose(s, q)
  BY <1>1 DEF Whose
<1>5. IsFiniteSet(Whose(s, p)) /\ s.state.quotes_added[p] = Cardinality(Whose(s, p))
  BY DEF Agrees, Agree, Whose
<1>6. IsFiniteSet(Whose(after, p)) /\ Cardinality(Whose(after, p)) = Cardinality(Whose(s, p)) + 1
  BY <1>3, <1>5, FS_AddElement
<1>7. \A q \in Players : /\ IsFiniteSet(Whose(after, q))
                         /\ after.state.quotes_added[q] = Cardinality(Whose(after, q))
  <2> SUFFICES ASSUME NEW q \in Players
               PROVE  /\ IsFiniteSet(Whose(after, q))
                      /\ after.state.quotes_added[q] = Cardinality(Whose(after, q))
    OBVIOUS
  <2>1. CASE q = p
    BY <1>1, <1>5, <1>6, <2>1
  <2>2. CASE q # p
    <3>1. Whose(after, q) = Whose(s, q) /\ after.state.quotes_added[q] = s.state.quotes_added[q]
      BY <1>1, <1>4, <2>2
    <3> QED
      BY <3>1 DEF Agrees, Agree, Whose
  <2> QED
    BY <2>1, <2>2
<1> QED
  BY <1>2, <1>7 DEF Agrees, Agree, Whose

LEMMA OneLess ==
  ASSUME NEW s \in Store, Agrees(s), NEW after, NEW p \in Players, NEW text \in Texts,
         text \in s.quotes, s.state.quote_authors[text] = p,
         after.quotes = s.quotes \ {text},
         after.state.quote_authors = [s.state.quote_authors EXCEPT ![text] = Nobody],
         after.state.quotes_added = [s.state.quotes_added EXCEPT ![p] = IF @ > 0 THEN @ - 1 ELSE 0]
  PROVE  Agrees(after)
<1>1. /\ s.state.quote_authors \in [Texts -> Players \cup {Nobody}]
      /\ s.state.quotes_added \in [Players -> Nat] /\ s.quotes \subseteq Texts
      /\ Nobody \notin Players
  BY StoreParts, DocumentsOK DEF Quotes
<1>2. \A t \in Texts : after.state.quote_authors[t] # Nobody => t \in after.quotes
  BY <1>1 DEF Agrees, Agree
<1>3. Whose(after, p) = Whose(s, p) \ {text} /\ text \in Whose(s, p)
  BY <1>1 DEF Whose
<1>4. \A q \in Players \ {p} : Whose(after, q) = Whose(s, q)
  BY <1>1 DEF Whose
<1>5. IsFiniteSet(Whose(s, p)) /\ s.state.quotes_added[p] = Cardinality(Whose(s, p))
  BY DEF Agrees, Agree, Whose
<1>6. IsFiniteSet(Whose(after, p)) /\ Cardinality(Whose(after, p)) = Cardinality(Whose(s, p)) - 1
  BY <1>3, <1>5, FS_RemoveElement
<1>7. Cardinality(Whose(s, p)) > 0
  BY <1>3, <1>5, <1>6, FS_CardinalityType
<1>8. \A q \in Players : /\ IsFiniteSet(Whose(after, q))
                         /\ after.state.quotes_added[q] = Cardinality(Whose(after, q))
  <2> SUFFICES ASSUME NEW q \in Players
               PROVE  /\ IsFiniteSet(Whose(after, q))
                      /\ after.state.quotes_added[q] = Cardinality(Whose(after, q))
    OBVIOUS
  <2>1. CASE q = p
    BY <1>1, <1>5, <1>6, <1>7, <2>1
  <2>2. CASE q # p
    <3>1. Whose(after, q) = Whose(s, q) /\ after.state.quotes_added[q] = s.state.quotes_added[q]
      BY <1>1, <1>4, <2>2
    <3> QED
      BY <3>1 DEF Agrees, Agree, Whose
  <2> QED
    BY <2>1, <2>2
<1> QED
  BY <1>2, <1>8 DEF Agrees, Agree, Whose

\* quote_add signs the quote and counts it.
LEMMA AddedAgrees ==
  ASSUME NEW s \in Store, Agrees(s), NEW p \in Players, NEW text \in Texts
  PROVE  Agrees(QuoteAdded(s, p, text))
<1>1. CASE s.state.scores[p] < Cost \/ text \in s.quotes
  BY <1>1 DEF QuoteAdded
<1>2. CASE ~(s.state.scores[p] < Cost \/ text \in s.quotes)
  <2>1. PICK after : after = QuoteAdded(s, p, text)
    OBVIOUS
  <2>2. /\ after.quotes = s.quotes \cup {text}
        /\ after.state.quote_authors = [s.state.quote_authors EXCEPT ![text] = p]
        /\ after.state.quotes_added = [s.state.quotes_added EXCEPT ![p] = @ + 1]
    BY <1>2, <2>1 DEF QuoteAdded, Store, State
  <2> QED
    BY <1>2, <2>1, <2>2, OneMore
<1> QED
  BY <1>1, <1>2

\* quote_delete takes it back; one of nobody's counts for nobody.
LEMMA DeletedAgrees ==
  ASSUME NEW s \in Store, Agrees(s), NEW text \in Texts
  PROVE  Agrees(QuoteDeleted(s, text))
<1>1. PICK author \in Players \cup {Nobody} : author = s.state.quote_authors[text]
  BY StoreParts
<1>2. CASE text \notin s.quotes
  BY <1>2 DEF QuoteDeleted
<1>3. PICK after : after = QuoteDeleted(s, text)
  OBVIOUS
<1>4. CASE text \in s.quotes /\ author = Nobody
  <2>1. after.quotes = s.quotes \ {text} /\ after.state = s.state
    BY <1>1, <1>3, <1>4 DEF QuoteDeleted, Store
  <2>2. \A t \in Texts : after.state.quote_authors[t] # Nobody => t \in after.quotes
    BY <1>1, <1>4, <2>1 DEF Agrees, Agree
  <2>3. \A p \in Players : Whose(after, p) = Whose(s, p)
    BY <1>1, <1>4, <2>1, DocumentsOK DEF Whose
  <2> QED
    BY <1>3, <2>1, <2>2, <2>3, SameQuotes
<1>5. CASE text \in s.quotes /\ author # Nobody
  <2>1. /\ after.quotes = s.quotes \ {text}
        /\ after.state.quote_authors = [s.state.quote_authors EXCEPT ![text] = Nobody]
        /\ after.state.quotes_added
             = [s.state.quotes_added EXCEPT ![author] = IF @ > 0 THEN @ - 1 ELSE 0]
    BY <1>1, <1>3, <1>5 DEF QuoteDeleted, Store, State
  <2> QED
    BY <1>1, <1>3, <1>5, <2>1, OneLess
<1> QED
  BY <1>1, <1>2, <1>4, <1>5

\* Everything else leaves the quotes, their authors and the counters alone.
LEMMA RestAgrees ==
  ASSUME NEW s \in Store, Agrees(s), NEW after, after.quotes = s.quotes,
         after.state.quote_authors = s.state.quote_authors,
         after.state.quotes_added = s.state.quotes_added
  PROVE  Agrees(after)
BY DEF Agrees, Agree, Whose

LEMMA PlayedAgrees ==
  ASSUME NEW s \in Store, Agrees(s), NEW p \in Players PROVE Agrees(Played(s, p))
<1>1. PICK after : after = Played(s, p)
  OBVIOUS
<1>2. /\ after.quotes = s.quotes /\ after.state.quote_authors = s.state.quote_authors
      /\ after.state.quotes_added = s.state.quotes_added
  BY <1>1 DEF Played, Store, State
<1> QED
  BY <1>1, <1>2, RestAgrees

LEMMA AllResetAgrees ==
  ASSUME NEW s \in Store, Agrees(s), NEW p \in Players PROVE Agrees(AllReset(s, p))
<1>1. PICK after : after = AllReset(s, p)
  OBVIOUS
<1>2. /\ after.quotes = s.quotes /\ after.state.quote_authors = s.state.quote_authors
      /\ after.state.quotes_added = s.state.quotes_added
  BY <1>1 DEF AllReset, Store, State
<1> QED
  BY <1>1, <1>2, RestAgrees

LEMMA PlayerResetAgrees ==
  ASSUME NEW s \in Store, Agrees(s), NEW p \in Players, NEW victim \in Players
  PROVE  Agrees(PlayerReset(s, p, victim))
<1>1. PICK after : after = PlayerReset(s, p, victim)
  OBVIOUS
<1>2. /\ after.quotes = s.quotes /\ after.state.quote_authors = s.state.quote_authors
      /\ after.state.quotes_added = s.state.quotes_added
  BY <1>1 DEF PlayerReset, Store, State
<1> QED
  BY <1>1, <1>2, RestAgrees

LEMMA OutcomesAgree ==
  ASSUME NEW s \in Store, Agrees(s), NEW request \in Requests, NEW after \in Outcomes(request, s)
  PROVE  Agrees(after)
<1>1. CASE request \in [do : {"play", "reset", "reset all"}, who : Players]
  <2>1. CASE request.do = "play"
    BY <1>1, <2>1, PlayedAgrees DEF Outcomes
  <2>2. CASE request.do = "reset all"
    BY <1>1, <2>2, AllResetAgrees DEF Outcomes
  <2>3. CASE request.do = "reset"
    <3>1. PICK v \in Players : after = PlayerReset(s, request.who, v)
      BY <2>3 DEF Outcomes
    <3> QED
      BY <1>1, <3>1, PlayerResetAgrees
  <2> QED
    BY <1>1, <2>1, <2>2, <2>3
<1>2. CASE request \in [do : {"add"}, who : Players, text : Texts]
  BY <1>2, AddedAgrees DEF Outcomes
<1>3. CASE request \in [do : {"delete"}, text : Texts]
  BY <1>3, DeletedAgrees DEF Outcomes
<1> QED
  BY <1>1, <1>2, <1>3 DEF Requests

LEMMA FirstStoresAgree == Agrees(NewStore) /\ Agrees(EmptyStore)
<1>1. ASSUME NEW s \in {NewStore, EmptyStore} PROVE Agrees(s)
  <2>1. /\ s.quotes = {} /\ s.state.quote_authors = [t \in Texts |-> Nobody]
        /\ s.state.quotes_added = [p \in Players |-> 0]
    BY DEF NewStore, EmptyStore
  <2>2. \A p \in Players : Whose(s, p) = {}
    BY <2>1 DEF Whose
  <2>3. IsFiniteSet({}) /\ Cardinality({}) = 0
    BY FS_EmptySet
  <2> QED
    BY <2>1, <2>2, <2>3 DEF Agrees, Agree, Whose
<1> QED
  BY <1>1

\* What the others find agrees at any time, also while the quotes on disk are ahead, for
\* as long as they have not been left ahead for good.
CommittedAgrees == Inv /\ (~torn => Agrees(Committed))

LEMMA CommittedType == Inv => Committed \in Store
<1> SUFFICES ASSUME Inv PROVE Committed \in Store
  OBVIOUS
<1>1. CASE \E t \in Threads : pc[t] \in {"copy", "write", "replace"}
  <2>1. PICK t \in Threads : pc[t] \in {"copy", "write", "replace"}
    BY <1>1
  <2>2. session[t] \in Session
    BY DEF Inv, TypeOK, Session
  <2> QED
    BY <2>1, <2>2, CommittedBefore, SessionParts
<1>2. CASE \A t \in Threads : pc[t] \notin {"copy", "write", "replace"}
  BY <1>2, CommittedOnDisk DEF Inv, TypeOK
<1> QED
  BY <1>1, <1>2

LEMMA TornStays == [Next]_vars => (torn => torn')
<1> SUFFICES ASSUME [Next]_vars, torn PROVE torn'
  OBVIOUS
<1>1. ASSUME NEW t \in Threads, SaveFails(t) PROVE torn'
  BY <1>1 DEF SaveFails, SaveFailed
<1>2. ASSUME NEW t \in Threads, ~SaveFails(t),
             Ask(t) \/ Enter(t) \/ EnterFails(t) \/ Step(t)
      PROVE  torn'
  BY <1>2 DEF Ask, Enter, EnterFails, Step, Copy, CopyFails, Write, Replace, Leave, history
<1>3. CASE Crash \/ Restart \/ MigrationFails \/ Tick \/ UNCHANGED vars
  BY <1>3 DEF Crash, Restart, MigrationFails, Tick, vars, history
<1> QED
  BY <1>1, <1>2, <1>3 DEF Next

LEMMA NextAgrees == CommittedAgrees /\ [Next]_vars => CommittedAgrees'
<1> SUFFICES ASSUME CommittedAgrees, [Next]_vars, ~torn' PROVE Agrees(Committed)'
  BY NextInv DEF CommittedAgrees
<1>1. ~torn /\ Whole /\ Committed \in Store /\ Agrees(Committed)
  BY NextMaps, TornStays, CommittedType DEF CommittedAgrees, Maps
<1>2. PICK after : after = Committed'
  OBVIOUS
<1>3. Agrees(after)
  BY <1>1, <1>2, OutcomesAgree DEF Whole
<1> QED
  BY <1>2, <1>3 DEF Agrees, Agree, Whose

\* quote_add and quote_delete change both documents, in two renames: whenever the mutex is
\* free, whatever failed and whenever the process died, every quote with an author is on
\* file and each player's counter is the number of his, unless the quotes had to be left
\* ahead (save).
THEOREM TheDocumentsAgree == Spec => []DocumentsAgree
<1>1. Init => CommittedAgrees
  <2> SUFFICES ASSUME Init PROVE CommittedAgrees
    OBVIOUS
  <2>1. Committed \in {NewStore, EmptyStore}
    BY InitMaps, SameRequests DEF Atomic!Init
  <2> QED
    BY <2>1, InitInv, FirstStoresAgree DEF CommittedAgrees
<1>2. CommittedAgrees => DocumentsAgree
  <2> SUFFICES ASSUME CommittedAgrees, mutex = Free, ~torn PROVE Agree(OnDisk)
    BY DEF DocumentsAgree
  <2>1. Inv /\ Agrees(Committed)
    BY DEF CommittedAgrees
  <2>2. \A t \in Threads : ~Serving(t)
    BY <2>1, StorageOK DEF Inv, Exclusive
  <2>3. Committed = OnDisk
    BY <2>1, <2>2, CommittedOnDisk DEF Serving
  <2> QED
    BY <2>1, <2>3 DEF Agrees
<1> QED
  BY <1>1, <1>2, NextAgrees, PTL DEF Spec
=============================================================================
