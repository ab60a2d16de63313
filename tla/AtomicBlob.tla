----------------------------- MODULE AtomicBlob -----------------------------
(***************************************************************************)
(* What the files of one key promise: a register that an operation changes *)
(* at most once, in one step, to its target.  The answer says whether it   *)
(* did; an ambiguous answer says that it may have.  A power loss brings    *)
(* back one of the values held since the last synchronization.             *)
(***************************************************************************)
CONSTANTS Values, Absent

VARIABLES
    value,          \* the blob, or Absent
    recoverable,    \* what a power loss may leave
    target,         \* what the operation in progress writes
    effect,         \* "none" (no operation), "pending" or "done"
    told            \* the last answer: "none", "done", "refused" or "unknown"

Init ==
    /\ value = Absent
    /\ recoverable = {Absent}
    /\ target = Absent
    /\ effect = "none"
    /\ told = "none"

\* Recoverable values gather until a synchronization.
Remember == recoverable' \in {{value'}, recoverable \cup {value'}}

Begin(t) ==
    /\ effect = "none"
    /\ effect' = "pending"
    /\ target' = t
    /\ told' = "none"
    /\ UNCHANGED <<value, recoverable>>

Happen ==
    /\ effect = "pending"
    /\ effect' = "done"
    /\ value' = target
    /\ Remember
    /\ UNCHANGED <<target, told>>

\* The effect may come with the answer.  To remove what is absent succeeds.
End(answer) ==
    /\ effect # "none"
    /\ \/ answer = "done" /\ value' = target
       \/ answer = "refused" /\ effect = "pending" /\ value' = value
       \/ answer = "unknown" /\ effect = "pending" /\ value' \in {value, target}
    /\ Remember
    /\ effect' = "none"
    /\ target' = Absent
    /\ told' = answer

Synchronize ==
    /\ recoverable' = {value}
    /\ UNCHANGED <<value, target, effect, told>>

\* The process is gone, or another operation overwrote the answer.
Forget ==
    /\ target' = Absent
    /\ effect' = "none"
    /\ told' = "none"
    /\ UNCHANGED <<value, recoverable>>

PowerLoss ==
    /\ value' \in recoverable
    /\ recoverable' = {value'}
    /\ target' = Absent
    /\ effect' = "none"
    /\ told' = "none"

\* The directory is removed from outside.
Remove ==
    /\ effect = "none"
    /\ value' = Absent
    /\ recoverable' = {Absent}
    /\ told' = "none"
    /\ UNCHANGED <<target, effect>>

Next ==
    \/ \E t \in Values \cup {Absent} : Begin(t)
    \/ Happen
    \/ \E answer \in {"done", "refused", "unknown"} : End(answer)
    \/ Synchronize \/ Forget \/ PowerLoss \/ Remove

Spec == Init /\ [][Next]_<<value, recoverable, target, effect, told>>
=============================================================================
