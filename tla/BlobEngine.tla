----------------------------- MODULE BlobEngine -----------------------------
(***************************************************************************)
(* The engine with blobs: module Coordinator, in which each job now does   *)
(* something.  Between its start and its completion a save replaces the    *)
(* blob of its key, a load reads it, or the job fails without effect; that *)
(* this is one step is what module BlobFiles shows.  The whole implements  *)
(* OrderedStore.                                                           *)
(***************************************************************************)
EXTENDS Coordinator

CONSTANTS
    Saves,          \* the operations that write; the others read
    Absent          \* no blob

ASSUME SavesAssumption == Saves \subseteq Ops /\ Absent \notin Requests
ASSUME OutcomesAssumption == \A r \in Requests \cup {Absent} : r \notin {"none", "failed"}

VARIABLES
    blob,           \* the save whose payload each key holds
    outcome         \* what each job did

store == <<blob, outcome>>
storeVars == <<vars, store>>

Loads == Ops \ Saves
Jobs == Ops \cup Maintenances

StoreInit ==
    /\ Init
    /\ blob = [k \in Keys |-> Absent]
    /\ outcome = [r \in Jobs |-> "none"]

\* run_owned_operation, seen from outside: one effect or none.
Perform(r) ==
    /\ stage[r] = "running"
    /\ outcome[r] = "none"
    /\ \/ outcome' = [outcome EXCEPT ![r] = "failed"] /\ UNCHANGED blob
       \/ /\ r \in Saves
          /\ blob' = [blob EXCEPT ![KeyOf[r]] = r]
          /\ outcome' = [outcome EXCEPT ![r] = r]
       \/ r \in Loads /\ outcome' = [outcome EXCEPT ![r] = blob[KeyOf[r]]] /\ UNCHANGED blob
       \/ r \in Maintenances /\ outcome' = [outcome EXCEPT ![r] = r] /\ UNCHANGED blob
    /\ UNCHANGED vars

\* A worker sends the completion after the operation returned; a panic may come
\* before or after the effect.
Work(r) == StartJob(r) \/ (outcome[r] # "none" /\ FinishJob(r)) \/ PanicJob(r)

StoreNext ==
    \/ \E r \in Jobs : Perform(r)
    \/ (\E r \in Jobs : Work(r)) /\ UNCHANGED store
    \/ Callers /\ UNCHANGED store
    \/ Scheduler /\ UNCHANGED store
    \/ CoordinatorPanic /\ UNCHANGED store
    \/ Terminated /\ UNCHANGED store

StoreSpec == StoreInit /\ [][StoreNext]_storeVars

----------------------------------------------------------------------------
(* A request is over for its caller when it has its answer.                *)

StatusOf(r) ==
    IF stage[r] = "new" THEN "new"
    ELSE IF stage[r] = "joined" THEN "returned"
    ELSE IF reply[r] # "none" THEN "over"
    ELSE IF r \in Jobs /\ outcome[r] # "none" THEN "happened"
    ELSE "waiting"

Ordered == INSTANCE OrderedStore WITH
    admitted <- sent,
    position <- ticket,
    status <- [r \in Requests |-> StatusOf(r)],
    answer <- reply

\* The engine implements the ordered store: through every interleaving of
\* callers, coordinator and workers, failing dispatches, panicking jobs and a
\* panicking coordinator, each request happens at most once, in its turn, never
\* after it was turned away or behind a close, and never once a close returned.
Implements == Ordered!Spec

\* A load that succeeded read the last save admitted before it on its key that
\* took effect, whether or not that save's caller was told so.
LoadsSeeLastSave ==
    \A o \in Loads : outcome[o] \notin {"none", "failed"} =>
        LET before == {s \in Saves : /\ KeyOf[s] = KeyOf[o]
                                     /\ Before(s, o)
                                     /\ outcome[s] = s}
        IN  IF before = {} THEN outcome[o] = Absent
            ELSE /\ outcome[o] \in before
                 /\ \A s \in before : ticket[s] <= ticket[outcome[o]]
=============================================================================
