------------------------------ MODULE Storage ------------------------------
(***************************************************************************)
(* Storage::transaction, StorageSession and save_json (src/src/storage.cpp, *)
(* storage.hpp), step by step: several threads, one mutex, two files that   *)
(* are each written beside themselves and renamed over, calls that fail,    *)
(* and a process that may die between any two of them.                      *)
(*                                                                         *)
(* A file is its contents.  The process dies, the machine does not: what    *)
(* was written stays written.                                              *)
(***************************************************************************)
EXTENDS Documents

CONSTANTS
  Threads,    \* Telegram, IRC, the raid keeper, the REST server
  Free,       \* nobody has the mutex
  Missing,    \* no such file
  Half,       \* a file half written
  Old,        \* the state as older versions wrote it, with what is gone since
  Wanted,     \* the kinds of requests the threads make
  MaxServed,  \* bound: how many transactions begin
  MaxFaults,  \* bound: how many calls fail
  MaxCrashes, \* bound: how often the process dies
  MaxTime     \* bound: the clock stops here

VARIABLES
  up,         \* the process runs
  now,        \* seconds_now()
  mutex,      \* who has mutex_
  pc,         \* where each thread is in its transaction
  session,    \* its StorageSession, and what is to be saved next
  told,       \* what transaction() told its caller
  file,       \* conquister.json and quotes.json
  temporary,  \* and the .tmp beside each
  kept,       \* the copies made by backup(), by the second in their name
  served, faults, crashes,
  torn,       \* history: the quotes have been left ahead of the state
  resets      \* history: the state before each reset, and the second it was asked in

threads == <<mutex, pc, session, told>>
files == <<file, temporary, kept>>
counts == <<served, faults, crashes>>
history == <<torn, resets>>
vars == <<up, now, threads, files, counts, history>>

ASSUME StorageOK ==
  /\ DocumentsOK
  /\ Free \notin Threads
  /\ Missing # Half /\ Missing # Old /\ Half # Old
  /\ \A q \in Quotes : q \notin {Missing, Half, Old}
  /\ \A contents \in {Missing, Half, Old} : contents \notin State
  /\ MaxServed \in Nat /\ MaxFaults \in Nat /\ MaxCrashes \in Nat /\ MaxTime \in Nat

\* Nothing loaded.
Fresh(second) == [at |-> second, resets |-> FALSE, before |-> EmptyStore, after |-> EmptyStore,
                  saving |-> "nothing", result |-> "none"]

\* load_state and load_quotes: no file is no quotes and a new game, and what an old one
\* says is put as it is put now; a file half written is refused.
Valid(contents) == contents # Half

StateOf(contents) ==
  IF contents = Missing THEN NewStore.state
  ELSE IF contents = Old THEN EmptyStore.state
  ELSE contents

QuotesOf(contents) == IF contents = Missing THEN NewStore.quotes ELSE contents

\* What is on disk, as a session loads it.
OnDisk == [quotes |-> QuotesOf(file["quotes"]), state |-> StateOf(file["state"])]

-----------------------------------------------------------------------------
(* One transaction. *)

\* "undo" writes the quotes as they were.
FileOf(saving) == IF saving = "state" THEN "state" ELSE "quotes"

Contents(s) == IF s.saving = "quotes" THEN s.after.quotes
               ELSE IF s.saving = "state" THEN s.after.state ELSE s.before.quotes

QuotesChanged(s) == s.after.quotes # s.before.quotes
StateChanged(s) == s.after.state # s.before.state

\* The thread is about to save the document, or to return what the function did.
Saving(t, s, saving) ==
  /\ session' = [session EXCEPT ![t] = [s EXCEPT !.saving = saving]]
  /\ pc' = [pc EXCEPT ![t] = "write"]

Returning(t, s, result) ==
  /\ session' = [session EXCEPT ![t] = [s EXCEPT !.result = result]]
  /\ pc' = [pc EXCEPT ![t] = "leave"]

\* Changed quotes are saved first and then the changed state.
SaveFirst(t, s) ==
  IF QuotesChanged(s) THEN Saving(t, s, "quotes")
  ELSE IF StateChanged(s) THEN Saving(t, s, "state") ELSE Returning(t, s, "done")

\* Mutant: the quotes stay as they are if the state cannot be saved.
SaveFailedNoUndo(t, s) == Returning(t, s, "failed") /\ torn' = torn

\* save_json said no.
SaveFailed(t, s) ==
  IF s.saving = "state" /\ QuotesChanged(s)
  THEN Saving(t, s, "undo") /\ torn' = torn
  ELSE Returning(t, s, "failed") /\ torn' = (torn \/ s.saving = "undo")

\* save_json said yes.
SaveNext(t, s) ==
  IF s.saving = "quotes" /\ StateChanged(s) THEN Saving(t, s, "state")
  ELSE Returning(t, s, IF s.saving = "undo" THEN "failed" ELSE "done")

MayFail == faults < MaxFaults /\ faults' = faults + 1

-----------------------------------------------------------------------------
(* Steps. *)

\* transaction() is called; the caller has taken the time already.
Ask(t) ==
  /\ up
  /\ pc[t] = "out"
  /\ served < MaxServed
  /\ served' = served + 1
  /\ pc' = [pc EXCEPT ![t] = "waiting"]
  /\ session' = [session EXCEPT ![t] = Fresh(now)]
  /\ told' = [told EXCEPT ![t] = "asked"]
  /\ UNCHANGED <<up, now, mutex, files, faults, crashes, history>>

\* Mutant: nobody waits for the mutex.
MayEnterTogether(t) == pc[t] = "waiting"

MayEnter(t) == pc[t] = "waiting" /\ mutex = Free

\* The lock is taken, the documents are loaded, the function runs.
Enter(t) ==
  /\ MayEnter(t)
  /\ mutex' = t
  /\ \E request \in {r \in Requests : r.do \in Wanted} : \E after \in Outcomes(request, OnDisk) :
       LET s == [session[t] EXCEPT !.before = OnDisk, !.after = after,
                                   !.resets = Copies(request, OnDisk)]
       IN  IF s.resets
           THEN session' = [session EXCEPT ![t] = s] /\ pc' = [pc EXCEPT ![t] = "copy"]
           ELSE SaveFirst(t, s)
  /\ UNCHANGED <<up, now, told, files, counts, history>>

\* A file cannot be read, or the function throws: nothing was changed.
EnterFails(t) ==
  /\ MayEnter(t)
  /\ MayFail
  /\ mutex' = t
  /\ Returning(t, session[t], "failed")
  /\ UNCHANGED <<up, now, told, files, served, crashes, history>>

\* backup(): the state as it is on disk, if it is there, under the second of the request.
Copy(t) ==
  /\ pc[t] = "copy"
  /\ kept' = IF file["state"] = Missing THEN kept
             ELSE [kept EXCEPT ![session[t].at] = file["state"]]
  /\ SaveFirst(t, session[t])
  /\ UNCHANGED <<up, now, mutex, told, file, temporary, counts, history>>

\* Mutant: a copy that fails is only logged.
CopyGivenUp(t) == SaveFirst(t, session[t])

\* backup() throws, and with it the transaction.
CopyThrows(t) == Returning(t, session[t], "failed")

CopyFails(t) ==
  /\ pc[t] = "copy"
  /\ MayFail
  /\ \E left \in {Half, kept[session[t].at]} : kept' = [kept EXCEPT ![session[t].at] = left]
  /\ CopyThrows(t)
  /\ UNCHANGED <<up, now, mutex, told, file, temporary, served, crashes, history>>

\* Mutant: nobody looks whether it could be written.
WriteUnchecked(t) ==
  LET s == session[t] IN
  /\ pc[t] = "write"
  /\ \E text \in {Contents(s), Half} :
       temporary' = [temporary EXCEPT ![FileOf(s.saving)] = text]
  /\ pc' = [pc EXCEPT ![t] = "replace"]
  /\ UNCHANGED <<up, now, mutex, session, told, file, kept, counts, history>>

\* The .tmp is written and closed.
Write(t) ==
  LET s == session[t] IN
  /\ pc[t] = "write"
  /\ temporary' = [temporary EXCEPT ![FileOf(s.saving)] = Contents(s)]
  /\ pc' = [pc EXCEPT ![t] = "replace"]
  /\ UNCHANGED <<up, now, mutex, session, told, file, kept, counts, history>>

\* It cannot be written, or not renamed: it is removed.
SaveFails(t) ==
  LET s == session[t] IN
  /\ pc[t] \in {"write", "replace"}
  /\ MayFail
  /\ temporary' = [temporary EXCEPT ![FileOf(s.saving)] = Missing]
  /\ SaveFailed(t, s)
  /\ UNCHANGED <<up, now, mutex, told, file, kept, served, crashes, resets>>

\* And renamed over the file.
Replace(t) ==
  LET s == session[t] IN
  /\ pc[t] = "replace"
  /\ file' = [file EXCEPT ![FileOf(s.saving)] = temporary[FileOf(s.saving)]]
  /\ temporary' = [temporary EXCEPT ![FileOf(s.saving)] = Missing]
  /\ SaveNext(t, s)
  /\ resets' = IF s.resets /\ s.saving = "state"
               THEN resets \cup {[at |-> s.at, before |-> s.before.state]} ELSE resets
  /\ UNCHANGED <<up, now, mutex, told, kept, counts, torn>>

\* Mutant: an exception keeps the mutex.
UnlockOnSuccess(t) == mutex' = IF session[t].result = "failed" THEN mutex ELSE Free

Unlock(t) == mutex' = Free

\* The lock_guard lets go, and the caller has his answer.
Leave(t) ==
  /\ pc[t] = "leave"
  /\ Unlock(t)
  /\ pc' = [pc EXCEPT ![t] = "out"]
  /\ told' = [told EXCEPT ![t] = session[t].result]
  /\ session' = [session EXCEPT ![t] = Fresh(0)]
  /\ UNCHANGED <<up, now, files, counts, history>>

\* What a transaction under way changed in the quotes and not yet in the state.
Between(t) ==
  /\ pc[t] \in {"write", "replace"}
  /\ session[t].saving \in {"state", "undo"}
  /\ QuotesChanged(session[t])

\* What the process was writing as it died is whole, half written or not there.
Crash ==
  /\ up
  /\ crashes < MaxCrashes
  /\ crashes' = crashes + 1
  /\ up' = FALSE
  /\ temporary' \in [{"quotes", "state"} -> {Half, Missing}] \cup {temporary}
  /\ \A name \in {"quotes", "state"} :
       temporary'[name] # temporary[name] =>
         \E t \in Threads : pc[t] = "write" /\ FileOf(session[t].saving) = name
  /\ kept' \in {[kept EXCEPT ![session[t].at] = Half] : t \in {u \in Threads : pc[u] = "copy"}} \cup {kept}
  /\ mutex' = Free
  /\ pc' = [t \in Threads |-> "out"]
  /\ session' = [t \in Threads |-> Fresh(0)]
  /\ told' = [t \in Threads |-> "nothing"]
  /\ torn' = (torn \/ \E t \in Threads : Between(t))
  /\ UNCHANGED <<now, file, served, faults, resets>>

\* The bot is started: the files are validated on construction, and a state of older
\* versions is written anew.
Restart ==
  /\ ~up
  /\ Valid(file["quotes"]) /\ Valid(file["state"])
  /\ up' = TRUE
  /\ file' = IF file["state"] = Old THEN [file EXCEPT !["state"] = StateOf(Old)] ELSE file
  /\ temporary' = IF file["state"] = Old THEN [temporary EXCEPT !["state"] = Missing] ELSE temporary
  /\ UNCHANGED <<now, threads, kept, counts, history>>

\* It cannot be, or the process dies before the rename: systemd starts it again.
MigrationFails ==
  /\ ~up
  /\ file["state"] = Old
  /\ MayFail
  /\ \E left \in {Half, Missing} : temporary' = [temporary EXCEPT !["state"] = left]
  /\ UNCHANGED <<up, now, threads, file, kept, served, crashes, history>>

Tick ==
  /\ now < MaxTime
  /\ now' = now + 1
  /\ UNCHANGED <<up, threads, files, counts, history>>

\* A first start, one with what an older version left, one with files of this one.
Init ==
  /\ up = FALSE
  /\ now = 0
  /\ mutex = Free
  /\ pc = [t \in Threads |-> "out"]
  /\ session = [t \in Threads |-> Fresh(0)]
  /\ told = [t \in Threads |-> "nothing"]
  /\ \E quotes \in {Missing, EmptyStore.quotes}, state \in {Missing, Old, EmptyStore.state} :
       file = [name \in {"quotes", "state"} |-> IF name = "quotes" THEN quotes ELSE state]
  /\ temporary = [name \in {"quotes", "state"} |-> Missing]
  /\ kept = [second \in 0 .. MaxTime |-> Missing]
  /\ served = 0
  /\ faults = 0
  /\ crashes = 0
  /\ torn = FALSE
  /\ resets = {}

\* What the thread with the mutex does next.
Step(t) == Copy(t) \/ CopyFails(t) \/ Write(t) \/ SaveFails(t) \/ Replace(t) \/ Leave(t)

Next ==
  \/ \E t \in Threads : Ask(t) \/ Enter(t) \/ EnterFails(t) \/ Step(t)
  \/ Crash \/ Restart \/ MigrationFails
  \/ Tick

Spec == Init /\ [][Next]_vars

\* A thread that has the mutex runs; systemd restarts the bot.
FairSpec == Spec /\ WF_vars(Restart) /\ \A t \in Threads : WF_vars(Step(t))

-----------------------------------------------------------------------------
(* Properties. *)

\* The variables keep their types; in particular neither file is ever half written,
\* whatever fails and whenever the process dies, so the bot can always start again.
TypeOK ==
  /\ up \in BOOLEAN
  /\ now \in 0 .. MaxTime
  /\ mutex \in Threads \cup {Free}
  /\ pc \in [Threads -> {"out", "waiting", "copy", "write", "replace", "leave"}]
  /\ session \in [Threads -> [at : 0 .. MaxTime, resets : BOOLEAN, before : Store, after : Store,
                              saving : {"nothing", "quotes", "state", "undo"},
                              result : {"none", "done", "failed"}]]
  /\ told \in [Threads -> {"nothing", "asked", "done", "failed"}]
  /\ DOMAIN file = {"quotes", "state"} /\ OnDisk \in Store
  /\ DOMAIN temporary = {"quotes", "state"}
  /\ temporary["quotes"] \in {Missing, Half} \cup Quotes
  /\ temporary["state"] \in {Missing, Half} \cup State
  /\ kept \in [0 .. MaxTime -> {Missing, Half} \cup State]
  /\ served \in Nat /\ faults \in Nat /\ crashes \in Nat
  /\ torn \in BOOLEAN
  /\ resets \subseteq [at : 0 .. MaxTime, before : State]

\* The two documents agree about whose quotes are whose, whatever failed, unless the
\* process died between the two renames or could not put the quotes back (save).
DocumentsAgree == (mutex = Free /\ ~torn) => Agree(OnDisk)

\* No ☢️ changes the state unless a copy of the state before it is whole (backup).
NothingResetWithoutACopy ==
  [][\A t \in Threads :
       session[t].resets /\ file'["state"] # file["state"] /\ pc'[t] # pc[t]
         => kept[session[t].at] = file["state"]]_vars

\* What a caller would find: quotes ahead of the state count only once they stay so.
Committed ==
  [OnDisk EXCEPT !.quotes = IF \E t \in Threads : Between(t)
                            THEN session[CHOOSE t \in Threads : Between(t)].before.quotes ELSE @]

\* A transaction is over for the others when its last rename is.
Outcome(t) ==
  LET told_now == IF pc[t] = "leave" THEN session[t].result ELSE told[t] IN
  IF told_now = "nothing" THEN "idle" ELSE told_now

Atomic == INSTANCE AtomicStore
            WITH store <- Committed, outcome <- [t \in Threads |-> Outcome(t)]

\* Transactions happen one at a time, each whole or not at all (storage.hpp).
AtomicTransactions == Atomic!Spec

\* A transaction that began ends: no error path keeps the mutex (lock_guard).
MutexIsReleased == \A t \in Threads : mutex = t ~> mutex # t

\* "The state before it is in the before-reset-{} backup", says the log of every ☢️
\* that was saved (furniture_burn, raid_due).
EveryResetKeepsItsCopy == \A r \in resets : kept[r.at] = r.before
=============================================================================
