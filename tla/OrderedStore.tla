---------------------------- MODULE OrderedStore ----------------------------
(***************************************************************************)
(* What the store promises its callers, without threads, queues or files.  *)
(*                                                                         *)
(* A request gets a position when it is admitted.  A blob operation and a  *)
(* cleanup happen at one instant between admission and answer; operations  *)
(* on one key happen in the order of their positions; flush, cleanup and   *)
(* close are barriers.  Module BlobEngine implements this specification.   *)
(***************************************************************************)
EXTENDS Integers

CONSTANTS
    Keys, Ops, Maintenances, Flushes, Closes,
    Saves,          \* the operations that write; the others read
    KeyOf,          \* the key of an operation
    Absent          \* no blob

Loads == Ops \ Saves
Jobs == Ops \cup Maintenances
Requests == Jobs \cup Flushes \cup Closes

VARIABLES
    admitted,       \* number of requests admitted
    position,       \* order of admission, 0 before it
    status,         \* "new", "waiting", "happened", "over"; "returned" for a close
    answer,         \* what the caller is told
    blob,           \* the save each key holds
    outcome         \* what a job did: a load, what it read

vars == <<admitted, position, status, answer, blob, outcome>>

NotYet == "none"
Failed == "failed"
Errors == {"StoreClosed", "EngineFailed", "WorkerUnavailable", "ShutdownFailure",
           "MaintenanceCoordinationFailure"}

Init ==
    /\ admitted = 0
    /\ position = [r \in Requests |-> 0]
    /\ status = [r \in Requests |-> "new"]
    /\ answer = [r \in Requests |-> "none"]
    /\ blob = [k \in Keys |-> Absent]
    /\ outcome = [r \in Jobs |-> NotYet]

Earlier(q, r) == 0 < position[q] /\ position[q] < position[r]

\* Everything of this kind that was admitted before r is over.
Settled(kind, r) == \A q \in kind : Earlier(q, r) => status[q] = "over"

Become(r, s, a) ==
    /\ status' = [status EXCEPT ![r] = s]
    /\ answer' = [answer EXCEPT ![r] = a]

Admit(r) ==
    /\ status[r] = "new"
    /\ admitted' = admitted + 1
    /\ position' = [position EXCEPT ![r] = admitted + 1]
    /\ Become(r, "waiting", "none")
    /\ UNCHANGED <<blob, outcome>>

\* The answers to a call that is not admitted; a close learns the outcome of an
\* earlier one.
Refusals(r) ==
    Errors \cup (IF r \in Closes THEN {"Ok"} ELSE {})
           \cup (IF r \in Maintenances THEN {"InvalidCleanupAge"} ELSE {})

Refuse(r) ==
    /\ status[r] = "new"
    /\ \E a \in Refusals(r) : Become(r, "over", a)
    /\ UNCHANGED <<admitted, position, blob, outcome>>

\* Only now may job r happen: after everything before it on its key, after the
\* barriers before it, and not after a close.
Due(r) ==
    /\ status[r] = "waiting"
    /\ Settled(Flushes \cup Maintenances, r)
    /\ r \in Ops => \A q \in Ops :
        Earlier(q, r) /\ KeyOf[q] = KeyOf[r] => status[q] \in {"happened", "over"}
    /\ r \in Maintenances => Settled(Ops, r)
    /\ \A c \in Closes : ~Earlier(c, r) /\ status[c] # "returned"

Happen(r) ==
    /\ Due(r)
    /\ status' = [status EXCEPT ![r] = "happened"]
    /\ \/ outcome' = [outcome EXCEPT ![r] = Failed] /\ UNCHANGED blob
       \/ /\ r \in Saves
          /\ blob' = [blob EXCEPT ![KeyOf[r]] = r]
          /\ outcome' = [outcome EXCEPT ![r] = r]
       \/ /\ r \in Loads
          /\ outcome' = [outcome EXCEPT ![r] = blob[KeyOf[r]]]
          /\ UNCHANGED blob
       \/ r \in Maintenances /\ outcome' = [outcome EXCEPT ![r] = r] /\ UNCHANGED blob
    /\ UNCHANGED <<admitted, position, answer>>

\* A job's own result.
Complete(r) ==
    /\ status[r] = "happened"
    /\ Become(r, "over", "Ok")
    /\ UNCHANGED <<admitted, position, blob, outcome>>

CompleteFlush(f) ==
    /\ f \in Flushes
    /\ status[f] = "waiting"
    /\ Settled(Jobs, f)
    /\ Become(f, "over", "Ok")
    /\ UNCHANGED <<admitted, position, blob, outcome>>

\* Turned away after admission: it never happens.  StoreClosed only behind a
\* close.
Reject(r) ==
    /\ r \notin Closes
    /\ status[r] = "waiting"
    /\ \E e \in Errors :
        /\ e = "StoreClosed" => \E c \in Closes : Earlier(c, r)
        /\ Become(r, "over", e)
    /\ UNCHANGED <<admitted, position, blob, outcome>>

\* A panic answers any number of admitted requests, whether they happened or not.
Fail(lost) ==
    /\ \A r \in lost : r \notin Closes /\ status[r] \in {"waiting", "happened"}
    /\ status' = [r \in Requests |-> IF r \in lost THEN "over" ELSE status[r]]
    /\ answer' = [r \in Requests |-> IF r \in lost THEN "EngineFailed" ELSE answer[r]]
    /\ UNCHANGED <<admitted, position, blob, outcome>>

\* A close succeeds when everything before it is over.
CompleteClose(c) ==
    /\ c \in Closes
    /\ status[c] = "waiting"
    /\ \E a \in {"Ok", "ShutdownFailure", "EngineFailed"} :
        /\ a = "Ok" => Settled(Requests \ Closes, c)
        /\ Become(c, "over", a)
    /\ UNCHANGED <<admitted, position, blob, outcome>>

\* It returns when nothing admitted is left, successful or not.
ReturnClose(c) ==
    /\ c \in Closes
    /\ status[c] = "over"
    /\ \A r \in Requests \ Closes : status[r] \in {"new", "over"}
    /\ status' = [status EXCEPT ![c] = "returned"]
    /\ UNCHANGED <<admitted, position, answer, blob, outcome>>

Next ==
    \/ \E r \in Requests : Admit(r) \/ Refuse(r) \/ Reject(r)
    \/ \E r \in Jobs : Happen(r) \/ Complete(r)
    \/ \E f \in Flushes : CompleteFlush(f)
    \/ \E c \in Closes : CompleteClose(c) \/ ReturnClose(c)
    \/ \E lost \in SUBSET Requests : Fail(lost)

Spec == Init /\ [][Next]_vars
=============================================================================
