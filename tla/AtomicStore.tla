---------------------------- MODULE AtomicStore ----------------------------
(***************************************************************************)
(* What Storage promises its callers (storage.hpp): transactions one at a   *)
(* time, each of which happens whole or not at all.  Two documents cannot   *)
(* be replaced at once: when the bot dies between the two, or cannot even   *)
(* put the quotes back, the quotes are ahead of the state; never the        *)
(* opposite.                                                               *)
(***************************************************************************)
EXTENDS Documents

CONSTANT Threads

VARIABLES
  store,    \* the two documents, as any caller would find them
  outcome   \* what became of each thread's transaction

Idle == "idle"
Asked == "asked"
Done == "done"
Failed == "failed"

Init ==
  /\ store \in {NewStore, EmptyStore}
  /\ outcome = [t \in Threads |-> Idle]

Ask(t) ==
  /\ outcome[t] # Asked
  /\ outcome' = [outcome EXCEPT ![t] = Asked]
  /\ UNCHANGED store

\* The function ran on the store as it was, and the store is what it left.
Serve(t) ==
  /\ outcome[t] = Asked
  /\ \E request \in Requests : store' \in Outcomes(request, store)
  /\ outcome' = [outcome EXCEPT ![t] = Done]

\* StorageError, and nothing happened.
Refuse(t) ==
  /\ outcome[t] = Asked
  /\ outcome' = [outcome EXCEPT ![t] = Failed]
  /\ UNCHANGED store

\* Only the quotes of what the function left.
Torn ==
  \E request \in Requests : \E s \in Outcomes(request, store) :
    store' = [store EXCEPT !.quotes = s.quotes]

\* The state could not be saved, nor the quotes put back.
Tear(t) ==
  /\ outcome[t] = Asked
  /\ Torn
  /\ outcome' = [outcome EXCEPT ![t] = Failed]

\* Nobody is ever told.
Crash ==
  /\ outcome' = [t \in Threads |-> Idle]
  /\ Torn \/ UNCHANGED store

Next == Crash \/ \E t \in Threads : Ask(t) \/ Serve(t) \/ Refuse(t) \/ Tear(t)

Spec == Init /\ [][Next]_<<store, outcome>>
=============================================================================
