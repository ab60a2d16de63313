------------------------- MODULE CoordinatorProofs -------------------------
(***************************************************************************)
(* Theorems about Coordinator: its types and pool, the order in which it   *)
(* serves requests, its shutdown and its answers, for every number of      *)
(* keys, requests and workers, with and without faults.                    *)
(***************************************************************************)
EXTENDS Coordinator, FiniteSetTheorems, TLAPS

----------------------------------------------------------------------------
(* Type correctness.                                                       *)

\* Raising the pool to what is required never exceeds its capacity, whether
\* every thread starts or only some do.
LEMMA PoolBounded ==
    ASSUME NEW n \in Nat, workers \in 0..MaxConcurrent, Prepare(n) \/ PrepareFails(n)
    PROVE  workers' \in 0..MaxConcurrent
BY MaxAssumption DEF Prepare, PrepareFails, Target

\* A dispatch leaves the queues, keys, stages and the pool well typed.
LEMMA DispatchTyped ==
    ASSUME TypeOK,
           NEW k \in Keys, NEW act \in SUBSET Keys, NEW q \in [Keys -> Seq(Ops)],
           NEW reg \in SUBSET Keys, NEW st \in [Requests -> Stages],
           DispatchIfIdle(k, act, q, reg, st)
    PROVE  /\ queues' \in [Keys -> Seq(Ops)]
           /\ registry' \subseteq Keys
           /\ active' \subseteq Keys
           /\ workers' \in 0..MaxConcurrent
           /\ stage' \in [Requests -> Stages]
           /\ reply' \in [Requests -> Replies]
<1> USE DEF TypeOK
<1>1. CASE KeyBusy(k, act) \/ AtCapacity(act) \/ q[k] = <<>>
  BY <1>1 DEF DispatchIfIdle
<1>2. CASE ~(KeyBusy(k, act) \/ AtCapacity(act) \/ q[k] = <<>>)
  <2>1. q[k] \in Seq(Ops) /\ q[k] # <<>>
    BY <1>2
  <2>2. Head(q[k]) \in Requests /\ Tail(q[k]) \in Seq(Ops)
    BY <2>1 DEF Requests
  <2>3. queues' \in [Keys -> Seq(Ops)]
    BY <1>2, <2>2 DEF DispatchIfIdle
  <2>4. Cardinality(act) + 1 \in Nat
    <3>1. IsFiniteSet(act)
      BY KeysAssumption, FS_Subset
    <3>2. Cardinality(act) \in Nat
      BY <3>1, FS_CardinalityType
    <3> QED
      BY <3>2
  <2>5. Prepare(Cardinality(act) + 1) \/ PrepareFails(Cardinality(act) + 1)
    BY <1>2 DEF DispatchIfIdle
  <2>6. workers' \in 0..MaxConcurrent
    BY <2>4, <2>5, PoolBounded
  <2>7. registry' \subseteq Keys /\ active' \subseteq Keys
    BY <1>2 DEF DispatchIfIdle
  <2>8. stage' \in [Requests -> Stages] /\ reply' \in [Requests -> Replies]
    BY <1>2, <2>2 DEF DispatchIfIdle, Stages, Replies
  <2> QED
    BY <2>3, <2>6, <2>7, <2>8
<1> QED
  BY <1>1, <1>2

\* The engine starts well typed.
LEMMA TypeInit == Init => TypeOK
<1> SUFFICES ASSUME Init PROVE TypeOK
  OBVIOUS
<1>1. 0 \in 0..MaxConcurrent
  BY MaxAssumption
<1>2. queues \in [Keys -> Seq(Ops)] /\ events \in Seq(Requests) /\ pending \in Seq(Requests)
  BY DEF Init
<1>3. stage \in [Requests -> Stages] /\ reply \in [Requests -> Replies]
  BY DEF Init, Stages, Replies
<1> QED
  BY <1>1, <1>2, <1>3 DEF Init, TypeOK, Lifecycles, Points

\* Queueing a submission keeps the queues well typed.
LEMMA EnqueueTyped ==
    ASSUME TypeOK, NEW o \in Ops
    PROVE  Enqueue(o) \in [Keys -> Seq(Ops)]
BY KeysAssumption DEF TypeOK, Enqueue

\* An admission leaves the channel, the stages and the tickets well typed.
LEMMA AdmitTyped ==
    ASSUME TypeOK, NEW r \in Requests, Admit(r)
    PROVE  /\ events' \in Seq(Requests)
           /\ stage' \in [Requests -> Stages]
           /\ reply' \in [Requests -> Replies]
           /\ sent' \in Nat
           /\ ticket' \in [Requests -> Nat]
<1> USE DEF TypeOK, Admit
<1>1. events' \in Seq(Requests)
  OBVIOUS
<1>2. stage' \in [Requests -> Stages]
  BY DEF Stages
<1>3. sent' \in Nat /\ reply' \in [Requests -> Replies]
  OBVIOUS
<1>4. ticket' \in [Requests -> Nat]
  OBVIOUS
<1> QED
  BY <1>1, <1>2, <1>3, <1>4

\* Calls, returns and dropped handles keep the types.
LEMMA TypeCallers == TypeOK /\ Callers => TypeOK'
<1> SUFFICES ASSUME TypeOK, Callers PROVE TypeOK'
  OBVIOUS
<1> USE DEF TypeOK, local, history, Stages, Replies
<1>1. ASSUME NEW r \in Ops \cup Maintenances \cup Flushes, Submit(r) PROVE TypeOK'
  <2>1. r \in Requests
    BY <1>1 DEF Requests
  <2>2. CASE Admit(r)
    BY <1>1, <2>1, <2>2, AdmitTyped DEF Submit
  <2>3. CASE /\ Answer(r, Refusal(r)) \/ Answer(r, "InvalidCleanupAge")
             /\ UNCHANGED <<events, history>>
    <3>1. Refusal(r) \in Replies
      BY DEF Refusal
    <3> QED
      BY <1>1, <2>1, <2>3, <3>1 DEF Submit, Answer
  <2> QED
    BY <1>1, <2>2, <2>3 DEF Submit
<1>2. ASSUME NEW c \in Closes, Close(c) PROVE TypeOK'
  <2>1. c \in Requests
    BY <1>2 DEF Requests
  <2>2. CASE lifecycle \in {"Open", "Closing"}
    BY <1>2, <2>1, <2>2, AdmitTyped DEF Close
  <2>3. CASE lifecycle \notin {"Open", "Closing"}
    BY <1>2, <2>1, <2>3 DEF Close, Answer, CloseOutcome
  <2> QED
    BY <2>2, <2>3
<1>3. ASSUME NEW c \in Closes, CloseWake(c) PROVE TypeOK'
  BY <1>3 DEF CloseWake, Answer, CloseOutcome
<1>4. ASSUME NEW c \in Closes, CloseReturn(c) PROVE TypeOK'
  BY <1>4 DEF CloseReturn
<1>5. CASE DropHandles
  BY <1>5 DEF DropHandles
<1> QED
  BY <1>1, <1>2, <1>3, <1>4, <1>5 DEF Callers

\* Jobs that start, end or panic keep the types.
LEMMA TypeWorkers == TypeOK /\ Workers => TypeOK'
<1> SUFFICES ASSUME TypeOK, NEW r \in Ops \cup Maintenances,
                    StartJob(r) \/ FinishJob(r) \/ PanicJob(r)
             PROVE  TypeOK'
  BY DEF Workers
<1> USE DEF TypeOK, local, history, Stages, Replies
<1>1. r \in Requests
  BY DEF Requests
<1>2. CASE StartJob(r)
  BY <1>2 DEF StartJob
<1>3. CASE FinishJob(r)
  BY <1>1, <1>3 DEF FinishJob
<1>4. CASE PanicJob(r)
  BY <1>1, <1>4 DEF PanicJob
<1> QED
  BY <1>2, <1>3, <1>4

\* The event that a step receives is a request and the rest stays well typed.
LEMMA ReceiveTyped ==
    ASSUME TypeOK, NEW r, Receive(r)
    PROVE  r \in Requests /\ events' \in Seq(Requests)
BY DEF TypeOK, Receive

\* The same for the pending event that one turn of advance_pending_if_ready takes.
LEMMA AdvancingTyped ==
    ASSUME TypeOK, NEW r, Advancing(r)
    PROVE  r \in Requests /\ pending' \in Seq(Requests)
BY DEF TypeOK, Advancing

\* Answering a request keeps its stage and reply well typed.
LEMMA AnswerTyped ==
    ASSUME TypeOK, NEW r \in Requests, NEW result \in Replies, Answer(r, result)
    PROVE  stage' \in [Requests -> Stages] /\ reply' \in [Requests -> Replies]
BY DEF TypeOK, Answer, Stages

\* What a close and a drained event are answered is a reply.
LEMMA OutcomeTyped ==
    /\ \A state : CloseOutcome(state) \in Replies
    /\ TypeOK => \A r \in Requests, closed, other \in Replies : DrainReply(r, closed, other) \in Replies
BY DEF CloseOutcome, DrainReply, Replies, TypeOK

\* The steps that postpone, queue, promote or complete an operation keep the types.
LEMMA TypeReceivers ==
    ASSUME TypeOK, NEW o \in Ops,
           \/ PostponeSubmission(o) \/ QueueSubmission(o)
           \/ RecvCompletion(o) \/ PromoteSubmission(o)
    PROVE  TypeOK'
<1>1. o \in Requests /\ KeyOf[o] \in Keys
  BY KeysAssumption DEF Requests
<1>2. [stage EXCEPT ![o] = "queued"] \in [Requests -> Stages]
  BY DEF TypeOK, Stages
<1>3. Enqueue(o) \in [Keys -> Seq(Ops)] /\ registry \cup {KeyOf[o]} \in SUBSET Keys
  BY <1>1, EnqueueTyped DEF TypeOK
<1>4. CASE PostponeSubmission(o)
  <2>1. events' \in Seq(Requests)
    BY <1>4, ReceiveTyped DEF PostponeSubmission
  <2>2. pending' \in Seq(Requests) /\ stage' \in [Requests -> Stages]
    BY <1>1, <1>4 DEF PostponeSubmission, TypeOK, Stages
  <2> QED
    BY <1>4, <2>1, <2>2 DEF PostponeSubmission, TypeOK, history
<1>5. CASE QueueSubmission(o)
  <2>1. events' \in Seq(Requests)
    BY <1>5, ReceiveTyped DEF QueueSubmission
  <2>2. /\ queues' \in [Keys -> Seq(Ops)]
        /\ registry' \subseteq Keys /\ active' \subseteq Keys
        /\ workers' \in 0..MaxConcurrent
        /\ stage' \in [Requests -> Stages] /\ reply' \in [Requests -> Replies]
    <3>1. DispatchIfIdle(KeyOf[o], active, Enqueue(o), registry \cup {KeyOf[o]},
                         [stage EXCEPT ![o] = "queued"])
      BY <1>5 DEF QueueSubmission
    <3>2. active \in SUBSET Keys
      BY DEF TypeOK
    <3> QED
      BY <1>1, <1>2, <1>3, <3>1, <3>2, DispatchTyped
  <2> QED
    BY <1>5, <2>1, <2>2 DEF QueueSubmission, TypeOK, history, Points
<1>6. CASE RecvCompletion(o)
  <2>1. events' \in Seq(Requests)
    BY <1>6, ReceiveTyped DEF RecvCompletion
  <2>2. /\ queues' \in [Keys -> Seq(Ops)]
        /\ registry' \subseteq Keys /\ active' \subseteq Keys
        /\ workers' \in 0..MaxConcurrent
        /\ stage' \in [Requests -> Stages] /\ reply' \in [Requests -> Replies]
    <3>1. DispatchIfIdle(KeyOf[o], active \ {KeyOf[o]}, queues, registry,
                         [stage EXCEPT ![o] = CompletionStage(@)])
      BY <1>6 DEF RecvCompletion
    <3>2. /\ active \ {KeyOf[o]} \in SUBSET Keys /\ registry \in SUBSET Keys
          /\ queues \in [Keys -> Seq(Ops)]
      BY DEF TypeOK
    <3>3. [stage EXCEPT ![o] = CompletionStage(@)] \in [Requests -> Stages]
      BY DEF TypeOK, CompletionStage, Stages
    <3> QED
      BY <1>1, <3>1, <3>2, <3>3, DispatchTyped
  <2> QED
    BY <1>6, <2>1, <2>2 DEF RecvCompletion, TypeOK, history, Points
<1>7. CASE PromoteSubmission(o)
  <2>1. pending' \in Seq(Requests)
    BY <1>7, AdvancingTyped DEF PromoteSubmission
  <2>2. /\ queues' \in [Keys -> Seq(Ops)]
        /\ registry' \subseteq Keys /\ active' \subseteq Keys
        /\ workers' \in 0..MaxConcurrent
        /\ stage' \in [Requests -> Stages] /\ reply' \in [Requests -> Replies]
    <3>1. DispatchIfIdle(KeyOf[o], active, Enqueue(o), registry \cup {KeyOf[o]},
                         [stage EXCEPT ![o] = "queued"])
      BY <1>7 DEF PromoteSubmission
    <3>2. active \in SUBSET Keys
      BY DEF TypeOK
    <3> QED
      BY <1>1, <1>2, <1>3, <3>1, <3>2, DispatchTyped
  <2> QED
    BY <1>7, <2>1, <2>2 DEF PromoteSubmission, TypeOK, history
<1> QED
  BY <1>4, <1>5, <1>6, <1>7

\* The steps that reject, postpone, start or complete a barrier keep the types.
LEMMA TypeBarriers ==
    ASSUME TypeOK, NEW r \in Requests,
           \/ r \in Ops \cup Maintenances \cup Flushes /\ RejectLate(r)
           \/ r \in Maintenances \cup Flushes /\ RecvBarrier(r)
           \/ r \in Maintenances /\ RecvMaintenanceCompletion(r)
           \/ r \in Maintenances /\ StartMaintenance(r)
           \/ r \in Flushes /\ CompleteFlush(r)
           \/ r \in Closes /\ RecvClose(r)
    PROVE  TypeOK'
<1>1. CASE RejectLate(r)
  <2>1. events' \in Seq(Requests)
    BY <1>1, ReceiveTyped DEF RejectLate
  <2>2. stage' \in [Requests -> Stages] /\ reply' \in [Requests -> Replies]
    BY <1>1, AnswerTyped DEF RejectLate, Replies
  <2> QED
    BY <1>1, <2>1, <2>2 DEF RejectLate, TypeOK, local, history
<1>2. CASE RecvBarrier(r)
  <2>1. events' \in Seq(Requests)
    BY <1>2, ReceiveTyped DEF RecvBarrier
  <2>2. pending' \in Seq(Requests) /\ stage' \in [Requests -> Stages]
    BY <1>2 DEF RecvBarrier, TypeOK, Stages
  <2> QED
    BY <1>2, <2>1, <2>2 DEF RecvBarrier, TypeOK, history, Points
<1>3. CASE RecvMaintenanceCompletion(r)
  <2>1. events' \in Seq(Requests)
    BY <1>3, ReceiveTyped DEF RecvMaintenanceCompletion
  <2>2. stage' \in [Requests -> Stages] /\ reply' \in [Requests -> Replies]
    <3>1. CASE stage[r] = "completed"
      BY <1>3, <3>1, AnswerTyped DEF RecvMaintenanceCompletion, Replies
    <3>2. CASE stage[r] # "completed"
      BY <1>3, <3>2 DEF RecvMaintenanceCompletion, TypeOK, Stages
    <3> QED
      BY <3>1, <3>2
  <2> QED
    BY <1>3, <2>1, <2>2 DEF RecvMaintenanceCompletion, TypeOK, history, Points
<1>4. CASE StartMaintenance(r)
  <2>1. pending' \in Seq(Requests)
    BY <1>4, AdvancingTyped DEF StartMaintenance
  <2>2. workers' \in 0..MaxConcurrent
    BY <1>4, PoolBounded DEF StartMaintenance, TypeOK
  <2>3. stage' \in [Requests -> Stages] /\ reply' \in [Requests -> Replies]
    BY <1>4 DEF StartMaintenance, TypeOK, Stages, Replies
  <2>4. events' \in Seq(Requests)
    <3>1. events' = events \/ events' = Append(events, r)
      BY <1>4 DEF StartMaintenance, SelfCompletion
    <3>2. events \in Seq(Requests)
      BY DEF TypeOK
    <3>3. Append(events, r) \in Seq(Requests)
      BY <3>2
    <3> QED
      BY <3>1, <3>2, <3>3
  <2> QED
    BY <1>4, <2>1, <2>2, <2>3, <2>4 DEF StartMaintenance, TypeOK, history
<1>5. CASE CompleteFlush(r)
  <2>1. pending' \in Seq(Requests)
    BY <1>5, AdvancingTyped DEF CompleteFlush
  <2>2. stage' \in [Requests -> Stages] /\ reply' \in [Requests -> Replies]
    BY <1>5, AnswerTyped DEF CompleteFlush, Replies
  <2> QED
    BY <1>5, <2>1, <2>2 DEF CompleteFlush, TypeOK, history
<1>6. CASE RecvClose(r)
  <2>1. events' \in Seq(Requests)
    BY <1>6, ReceiveTyped DEF RecvClose
  <2>2. /\ pending' \in Seq(Requests)
        /\ stage' \in [Requests -> Stages] /\ reply' \in [Requests -> Replies]
    <3>1. CASE lifecycle \in {"Open", "Closing"}
      <4>1. /\ pending' = Append(pending, r) /\ reply' = reply
            /\ stage' = [stage EXCEPT ![r] = "pending"]
        BY <1>6, <3>1 DEF RecvClose
      <4>2. pending' \in Seq(Requests)
        BY <4>1 DEF TypeOK
      <4> QED
        BY <4>1, <4>2 DEF TypeOK, Stages
    <3>2. CASE lifecycle \notin {"Open", "Closing"}
      <4>1. CloseOutcome(lifecycle) \in Replies
        BY OutcomeTyped
      <4>2. Answer(r, CloseOutcome(lifecycle)) /\ pending' = pending
        BY <1>6, <3>2 DEF RecvClose
      <4>3. stage' \in [Requests -> Stages] /\ reply' \in [Requests -> Replies]
        BY <4>1, <4>2, AnswerTyped
      <4> QED
        BY <4>2, <4>3 DEF TypeOK
    <3> QED
      BY <3>1, <3>2
  <2> QED
    BY <1>6, <2>1, <2>2 DEF RecvClose, TypeOK, history, Points, Lifecycles
<1> QED
  BY <1>1, <1>2, <1>3, <1>4, <1>5, <1>6

\* The drains of an ordered shutdown and after a panic keep the types.
LEMMA TypeDrains ==
    ASSUME TypeOK, NEW r \in Requests,
           (r \in Closes /\ AnswerPendingClose(r)) \/ DrainEvent(r) \/ FailQueued(r)
    PROVE  TypeOK'
<1>1. CASE AnswerPendingClose(r)
  <2>1. pending' \in Seq(Requests)
    BY <1>1 DEF AnswerPendingClose, TypeOK
  <2>2. stage' \in [Requests -> Stages] /\ reply' \in [Requests -> Replies]
    <3>1. CloseOutcome(lifecycle) \in Replies
      BY OutcomeTyped
    <3> QED
      BY <1>1, <3>1, AnswerTyped DEF AnswerPendingClose
  <2> QED
    BY <1>1, <2>1, <2>2 DEF AnswerPendingClose, TypeOK, history
<1>2. CASE DrainEvent(r)
  <2> DEFINE other == IF stage[r] = "channel" THEN "StoreClosed" ELSE "EngineFailed"
  <2>1. events' \in Seq(Requests)
    BY <1>2 DEF DrainEvent, TypeOK
  <2>2. other \in Replies /\ CloseOutcome(lifecycle) \in Replies
    BY OutcomeTyped DEF Replies
  <2>3. DrainReply(r, CloseOutcome(lifecycle), other) \in Replies
    <3> HIDE DEF other
    <3> QED
      BY <2>2, OutcomeTyped
  <2>4. stage' \in [Requests -> Stages] /\ reply' \in [Requests -> Replies]
    BY <1>2, <2>3, AnswerTyped DEF DrainEvent
  <2> QED
    BY <1>2, <2>1, <2>4 DEF DrainEvent, TypeOK, local, history
<1>3. CASE FailQueued(r)
  <2>1. events' \in Seq(Requests)
    BY <1>3 DEF FailQueued, TypeOK
  <2>2. DrainReply(r, "ShutdownFailure", "EngineFailed") \in Replies
    BY OutcomeTyped DEF Replies
  <2>3. stage' \in [Requests -> Stages] /\ reply' \in [Requests -> Replies]
    BY <1>3, <2>2, AnswerTyped DEF FailQueued
  <2> QED
    BY <1>3, <2>1, <2>3 DEF FailQueued, TypeOK, local, history
<1> QED
  BY <1>1, <1>2, <1>3

\* Every step of the coordinator keeps the types.
LEMMA TypeScheduler == TypeOK /\ Scheduler => TypeOK'
<1> SUFFICES ASSUME TypeOK, Scheduler PROVE TypeOK'
  OBVIOUS
<1>1. ASSUME NEW k \in Keys, DispatchAvailable(k) PROVE TypeOK'
  <2>1. /\ queues' \in [Keys -> Seq(Ops)]
        /\ registry' \subseteq Keys /\ active' \subseteq Keys
        /\ workers' \in 0..MaxConcurrent
        /\ stage' \in [Requests -> Stages] /\ reply' \in [Requests -> Replies]
    <3>1. DispatchIfIdle(k, active, queues, registry, stage)
      BY <1>1 DEF DispatchAvailable
    <3>2. /\ active \in SUBSET Keys /\ registry \in SUBSET Keys
          /\ queues \in [Keys -> Seq(Ops)] /\ stage \in [Requests -> Stages]
      BY DEF TypeOK
    <3> QED
      BY <3>1, <3>2, DispatchTyped
  <2> QED
    BY <1>1, <2>1 DEF DispatchAvailable, TypeOK, history
<1>2. CASE FinishSubmission
  BY <1>2 DEF FinishSubmission, NextPoint, TypeOK, local, history, Points
<1>3. CASE FinishCompletion
  <2>1. completing \in Requests
    BY <1>3 DEF FinishCompletion, TypeOK, Requests
  <2>2. stage' \in [Requests -> Stages] /\ reply' \in [Requests -> Replies]
    <3>1. CASE stage[completing] = "delivering"
      BY <1>3, <2>1, <3>1, AnswerTyped DEF FinishCompletion, Replies
    <3>2. CASE stage[completing] # "delivering"
      BY <1>3, <3>2 DEF FinishCompletion, TypeOK
    <3> QED
      BY <3>1, <3>2
  <2>3. registry' \subseteq Keys
    BY <1>3 DEF FinishCompletion, Unregister, TypeOK
  <2> QED
    BY <1>3, <2>2, <2>3 DEF FinishCompletion, TypeOK, history, Points
<1>4. CASE AdvanceReturn
  BY <1>4 DEF AdvanceReturn, NextPoint, TypeOK, local, history, Points
<1>5. CASE ShutdownWorkers
  <2>1. lifecycle' \in Lifecycles
    BY <1>5 DEF ShutdownWorkers, JoinOutcomes, Lifecycles
  <2> QED
    BY <1>5, <2>1, MaxAssumption DEF ShutdownWorkers, TypeOK, local, history, Points
<1>6. CASE StopCoordinator \/ FailExit
  BY <1>6 DEF StopCoordinator, FailExit, TypeOK, local, history, Points
<1>7. CASE HandlesGone \/ Unwound
  BY <1>7, MaxAssumption DEF HandlesGone, Unwound, TypeOK, local, history, Points, Lifecycles
<1>8. CASE \E r \in Requests : DrainEvent(r) \/ FailQueued(r)
  BY <1>8, TypeDrains
<1>9. CASE \E c \in Closes : RecvClose(c) \/ AnswerPendingClose(c)
  BY <1>9, TypeBarriers, TypeDrains DEF Requests
<1>10. CASE \/ \E m \in Maintenances : RecvMaintenanceCompletion(m) \/ StartMaintenance(m)
            \/ \E f \in Flushes : CompleteFlush(f)
            \/ \E b \in Maintenances \cup Flushes : RecvBarrier(b)
            \/ \E r \in Ops \cup Maintenances \cup Flushes : RejectLate(r)
  BY <1>10, TypeBarriers DEF Requests
<1>11. CASE \E o \in Ops : \/ PostponeSubmission(o) \/ QueueSubmission(o)
                           \/ RecvCompletion(o) \/ PromoteSubmission(o)
  BY <1>11, TypeReceivers
<1> QED
  BY <1>1, <1>2, <1>3, <1>4, <1>5, <1>6, <1>7, <1>8, <1>9, <1>10, <1>11 DEF Scheduler

\* A panic of the coordinator keeps the types.
LEMMA TypePanic == TypeOK /\ CoordinatorPanic => TypeOK'
<1> SUFFICES ASSUME TypeOK, CoordinatorPanic PROVE TypeOK'
  OBVIOUS
<1>1. events' \in Seq(Requests)
  BY DEF CoordinatorPanic, TypeOK
<1>2. stage' \in [Requests -> Stages]
  BY DEF CoordinatorPanic, TypeOK, Stages
<1>3. reply' \in [Requests -> Replies]
  BY DEF CoordinatorPanic, TypeOK, Replies
<1>4. queues' \in [Keys -> Seq(Ops)] /\ pending' \in Seq(Requests)
  BY DEF CoordinatorPanic
<1> QED
  BY <1>1, <1>2, <1>3, <1>4 DEF CoordinatorPanic, TypeOK, history, Points

\* Every step keeps the types.
LEMMA TypeNext == TypeOK /\ [Next]_vars => TypeOK'
<1> SUFFICES ASSUME TypeOK, [Next]_vars PROVE TypeOK'
  OBVIOUS
<1>1. CASE UNCHANGED vars
  BY <1>1 DEF vars, local, history, TypeOK
<1>2. CASE Next
  <2>1. CASE Terminated
    BY <1>1, <2>1 DEF Terminated
  <2> QED
    BY <1>2, <2>1, TypeCallers, TypeWorkers, TypeScheduler, TypePanic DEF Next
<1> QED
  BY <1>1, <1>2

\* The engine's state is always well typed; in particular the lazily growing pool
\* never exceeds max_concurrent_operations, whatever fails.
THEOREM TypeCorrect == Spec => []TypeOK
<1>1. Init => TypeOK
  BY TypeInit
<1>2. TypeOK /\ [Next]_vars => TypeOK'
  BY TypeNext
<1> QED
  BY <1>1, <1>2, PTL DEF Spec

----------------------------------------------------------------------------
(* Exclusion.  PerKeyExclusion is not inductive: that a key has no job is  *)
(* known to the coordinator only through `active', which is emptied when a *)
(* completion message arrives and lost when the coordinator unwinds.  The  *)
(* invariant therefore speaks of the operations that hold their key from   *)
(* dispatch until their completion is received.                            *)

Holding(st, r) == st[r] \in {"job", "running", "completed", "lost"}
Serving == pc \in {"recv", "dispatch", "advance", "shutdown", "answer"}

Keyed(q) == \A k \in Keys : \A i \in 1..Len(q[k]) : KeyOf[q[k][i]] = k
Covered(st, act) == \A o \in Ops : Holding(st, o) => KeyOf[o] \in act
Single(st) ==
    \A o, p \in Ops : Holding(st, o) /\ Holding(st, p) /\ KeyOf[o] = KeyOf[p] => o = p
Alone(st) ==
    \A m \in Maintenances, r \in Ops \cup Maintenances :
        Holding(st, m) /\ Holding(st, r) => r = m
Flagged(st) == \A m \in Maintenances : Holding(st, m) => maintenanceActive

\* Queues hold operations of their own key; a key has at most one holder, known to
\* a serving coordinator as active; a cleanup holds alone, and only while flagged.
ExclusionInv ==
    /\ Keyed(queues)
    /\ Single(stage)
    /\ Serving => Covered(stage, active)
    /\ Alone(stage)
    /\ Serving => Flagged(stage)
    /\ maintenanceActive => Idle
    /\ \A r \in Flushes \cup Closes : ~Holding(stage, r)

\* A terminal lifecycle is published only where nothing can be dispatched any more.
QuiescenceInv ==
    lifecycle \in {"Closed", "ShutdownFailed", "Failed"} =>
        /\ pc \in {"answer", "unwind", "faildrain", "exited"}
        /\ workers = 0
        /\ \A r \in Requests : ~InFlight(r)

\* A step that dispatches nothing and only moves requests on keeps ExclusionInv.
LEMMA NoNewHolder ==
    ASSUME ExclusionInv,
           \A r \in Requests : Holding(stage', r) => Holding(stage, r),
           UNCHANGED <<queues, active, maintenanceActive>>,
           Serving' => Serving
    PROVE  ExclusionInv'
<1>1. Ops \cup Maintenances \cup Flushes \cup Closes \subseteq Requests
  BY DEF Requests
<1>2. Keyed(queues') /\ (maintenanceActive' => Idle')
  BY DEF ExclusionInv, Idle
<1>3. Single(stage') /\ Alone(stage')
  BY <1>1 DEF ExclusionInv, Single, Alone
<1>4. Serving' => Covered(stage', active') /\ Flagged(stage)'
  BY <1>1 DEF ExclusionInv, Covered, Flagged
<1>5. \A r \in Flushes \cup Closes : ~Holding(stage', r)
  BY <1>1 DEF ExclusionInv
<1> QED
  BY <1>2, <1>3, <1>4, <1>5 DEF ExclusionInv

\* Dispatching the head of an idle key's queue gives that key its only holder.
LEMMA DispatchHolds ==
    ASSUME TypeOK,
           NEW k \in Keys, NEW act \in SUBSET Keys, NEW q \in [Keys -> Seq(Ops)],
           NEW reg \in SUBSET Keys, NEW st \in [Requests -> Stages],
           DispatchIfIdle(k, act, q, reg, st),
           Keyed(q), Covered(st, act), Single(st)
    PROVE  /\ Keyed(queues') /\ Covered(stage', active') /\ Single(stage')
           /\ \A r \in Requests \ Ops : stage'[r] = st[r]
<1>1. CASE KeyBusy(k, act) \/ AtCapacity(act) \/ q[k] = <<>>
  BY <1>1 DEF DispatchIfIdle
<1>2. CASE ~(KeyBusy(k, act) \/ AtCapacity(act) \/ q[k] = <<>>)
  <2> DEFINE h == Head(q[k])
  <2>1. /\ q[k] \in Seq(Ops) /\ Len(q[k]) >= 1
        /\ h = q[k][1]
    BY <1>2
  <2>2. h \in Ops /\ h \in Requests /\ KeyOf[h] = k
    BY <2>1 DEF Keyed, Requests
  <2>3. queues' = [q EXCEPT ![k] = Tail(@)]
    BY <1>2 DEF DispatchIfIdle
  <2>4. Keyed(queues')
    <3> SUFFICES ASSUME NEW j \in Keys, NEW i \in 1..Len(queues'[j])
                 PROVE  KeyOf[queues'[j][i]] = j
      BY DEF Keyed
    <3>1. CASE j = k
      <4>1. queues'[j] = Tail(q[k])
        BY <2>3, <3>1
      <4>2. /\ i + 1 \in 1..Len(q[k])
            /\ Tail(q[k])[i] = q[k][i + 1]
        BY <2>1, <4>1
      <4> QED
        BY <3>1, <4>1, <4>2 DEF Keyed
    <3>2. CASE j # k
      BY <2>3, <3>2 DEF Keyed
    <3> QED
      BY <3>1, <3>2
  <2>5. \/ active' = act \cup {k} /\ stage' = [st EXCEPT ![h] = "job"]
        \/ active' = act /\ stage' = [st EXCEPT ![h] = "done"]
    BY <1>2 DEF DispatchIfIdle
  <2>6. k \notin act
    BY <1>2 DEF KeyBusy
  <2>7. \A o \in Ops : Holding(st, o) => KeyOf[o] # k
    BY <2>6 DEF Covered
  <2> HIDE DEF h
  <2>8. \A o \in Ops : o # h => stage'[o] = st[o]
    BY <2>2, <2>5 DEF Requests
  <2>9. Covered(stage', active')
    <3> SUFFICES ASSUME NEW o \in Ops, Holding(stage', o) PROVE KeyOf[o] \in active'
      BY DEF Covered
    <3>1. CASE o # h
      BY <2>5, <2>8, <3>1 DEF Covered, Holding
    <3>2. CASE o = h
      BY <2>2, <2>5, <3>2 DEF Holding
    <3> QED
      BY <3>1, <3>2
  <2>10. Single(stage')
    <3> SUFFICES ASSUME NEW o \in Ops, NEW p \in Ops,
                        Holding(stage', o), Holding(stage', p), KeyOf[o] = KeyOf[p]
                 PROVE  o = p
      BY DEF Single
    <3>1. CASE o # h /\ p # h
      BY <2>8, <3>1 DEF Single, Holding
    <3>2. CASE o = h \/ p = h
      BY <2>2, <2>7, <2>8, <3>2 DEF Holding
    <3> QED
      BY <3>1, <3>2
  <2>11. \A r \in Requests \ Ops : stage'[r] = st[r]
    BY <2>2, <2>5
  <2> QED
    BY <2>4, <2>9, <2>10, <2>11
<1> QED
  BY <1>1, <1>2

\* A dispatch from a serving coordinator with no cleanup active keeps ExclusionInv.
LEMMA DispatchExcludes ==
    ASSUME TypeOK, ExclusionInv, Serving, ~maintenanceActive, UNCHANGED maintenanceActive,
           NEW k \in Keys, NEW act \in SUBSET Keys, NEW q \in [Keys -> Seq(Ops)],
           NEW reg \in SUBSET Keys, NEW st \in [Requests -> Stages],
           DispatchIfIdle(k, act, q, reg, st),
           Keyed(q), Covered(st, act), Single(st),
           \A r \in Requests \ Ops : st[r] = stage[r]
    PROVE  ExclusionInv'
<1>1. /\ Keyed(queues') /\ Covered(stage', active') /\ Single(stage')
      /\ \A r \in Requests \ Ops : stage'[r] = st[r]
  BY DispatchHolds, ZenonT(60)
<1>2. \A r \in Maintenances \cup Flushes \cup Closes : r \in Requests \ Ops
  BY KindsAssumption DEF Requests
<1>3. \A m \in Maintenances : ~Holding(stage', m)
  BY <1>1, <1>2 DEF ExclusionInv, Flagged, Holding
<1>4. \A r \in Flushes \cup Closes : ~Holding(stage', r)
  BY <1>1, <1>2 DEF ExclusionInv, Holding
<1>5. Alone(stage') /\ Flagged(stage)' /\ (maintenanceActive' => Idle')
  BY <1>3 DEF Alone, Flagged
<1> QED
  BY <1>1, <1>4, <1>5 DEF ExclusionInv

\* Appending a submission to the queue of its own key keeps the queues keyed.
LEMMA EnqueueKeyed ==
    ASSUME TypeOK, Keyed(queues), NEW o \in Ops
    PROVE  Keyed(Enqueue(o))
<1> SUFFICES ASSUME NEW k \in Keys, NEW i \in 1..Len(Enqueue(o)[k])
             PROVE  KeyOf[Enqueue(o)[k][i]] = k
  BY DEF Keyed
<1>1. KeyOf[o] \in Keys /\ queues[k] \in Seq(Ops)
  BY KeysAssumption DEF TypeOK
<1>2. CASE k = KeyOf[o]
  <2>1. Enqueue(o)[k] = Append(queues[k], o)
    BY <1>2 DEF Enqueue, TypeOK
  <2>2. CASE i = Len(queues[k]) + 1
    BY <1>1, <1>2, <2>1, <2>2
  <2>3. CASE i # Len(queues[k]) + 1
    <3>1. i \in 1..Len(queues[k]) /\ Enqueue(o)[k][i] = queues[k][i]
      BY <1>1, <2>1, <2>3
    <3> QED
      BY <3>1 DEF Keyed
  <2> QED
    BY <2>2, <2>3
<1>3. CASE k # KeyOf[o]
  BY <1>3 DEF Enqueue, TypeOK, Keyed
<1> QED
  BY <1>2, <1>3

\* Initially nothing holds a key.
LEMMA ExclusionInit == Init => ExclusionInv
<1> SUFFICES ASSUME Init PROVE ExclusionInv
  OBVIOUS
<1>1. \A r \in Requests : ~Holding(stage, r)
  BY DEF Init, Holding
<1>2. \A r \in Ops \cup Maintenances \cup Flushes \cup Closes : ~Holding(stage, r)
  BY <1>1 DEF Requests
<1>3. Keyed(queues) /\ ~maintenanceActive
  BY DEF Init, Keyed
<1> QED
  BY <1>2, <1>3 DEF ExclusionInv, Single, Covered, Alone, Flagged

\* Callers and workers: a job that runs or ends holds what it held.
LEMMA ExclusionClients == TypeOK /\ ExclusionInv /\ (Callers \/ Workers) => ExclusionInv'
<1> SUFFICES ASSUME TypeOK, ExclusionInv, Callers \/ Workers PROVE ExclusionInv'
  OBVIOUS
<1> DEFINE Kept == \A r \in Requests : Holding(stage', r) => Holding(stage, r)
<1>1. UNCHANGED <<queues, active, maintenanceActive, pc>>
  BY DEF Callers, Workers, Submit, Close, CloseWake, CloseReturn, DropHandles, StartJob, FinishJob,
         PanicJob, local
<1>2. Kept
  <2> USE DEF TypeOK, Holding
  <2>1. ASSUME NEW r \in Ops \cup Maintenances \cup Flushes, Submit(r) PROVE Kept
    BY <2>1 DEF Submit, Admit, Answer
  <2>2. ASSUME NEW c \in Closes, Close(c) \/ CloseWake(c) \/ CloseReturn(c) PROVE Kept
    BY <2>2 DEF Close, CloseWake, CloseReturn, Admit, Answer
  <2>3. CASE DropHandles
    BY <2>3 DEF DropHandles
  <2>4. ASSUME NEW r \in Ops \cup Maintenances, StartJob(r) \/ FinishJob(r) \/ PanicJob(r)
        PROVE  Kept
    BY <2>4 DEF StartJob, FinishJob, PanicJob
  <2> QED
    BY <2>1, <2>2, <2>3, <2>4 DEF Callers, Workers
<1>3. Serving' => Serving
  BY <1>1 DEF Serving
<1> QED
  BY <1>1, <1>2, <1>3, NoNewHolder

\* Dispatching steps.  A received completion ends its operation's hold, and by
\* Single no other operation held that key.
LEMMA ExclusionDispatch ==
    ASSUME TypeOK, ExclusionInv,
           \/ \E k \in Keys : DispatchAvailable(k)
           \/ \E o \in Ops : QueueSubmission(o) \/ RecvCompletion(o) \/ PromoteSubmission(o)
    PROVE  ExclusionInv'
<1>1. /\ active \in SUBSET Keys /\ registry \in SUBSET Keys
      /\ queues \in [Keys -> Seq(Ops)] /\ stage \in [Requests -> Stages]
  BY DEF TypeOK
<1>2. \A o \in Ops : o \in Requests /\ KeyOf[o] \in Keys
  BY KeysAssumption DEF Requests
<1>3. ASSUME NEW k \in Keys, DispatchAvailable(k) PROVE ExclusionInv'
  <2>1. Serving /\ ~maintenanceActive /\ UNCHANGED maintenanceActive
    BY <1>3 DEF DispatchAvailable, Serving, ExclusionInv, Idle, Eligible
  <2>2. DispatchIfIdle(k, active, queues, registry, stage)
    BY <1>3 DEF DispatchAvailable
  <2>3. Keyed(queues) /\ Covered(stage, active) /\ Single(stage)
    BY <2>1 DEF ExclusionInv
  <2> QED
    BY <1>1, <2>1, <2>2, <2>3, DispatchExcludes
<1>4. ASSUME NEW o \in Ops, QueueSubmission(o) \/ PromoteSubmission(o) PROVE ExclusionInv'
  <2> DEFINE st == [stage EXCEPT ![o] = "queued"]
  <2>1. Serving /\ ~maintenanceActive /\ UNCHANGED maintenanceActive
    BY <1>4 DEF QueueSubmission, PromoteSubmission, Receive, MustPostpone, Advancing, Serving
  <2>2. DispatchIfIdle(KeyOf[o], active, Enqueue(o), registry \cup {KeyOf[o]}, st)
    BY <1>4 DEF QueueSubmission, PromoteSubmission
  <2>3. Keyed(Enqueue(o)) /\ Enqueue(o) \in [Keys -> Seq(Ops)]
    BY EnqueueKeyed, EnqueueTyped DEF ExclusionInv
  <2>4. st \in [Requests -> Stages]
    BY <1>1 DEF Stages
  <2>5. \A p \in Ops : Holding(st, p) => Holding(stage, p)
    BY <1>1, <1>2 DEF Holding
  <2>6. \A r \in Requests \ Ops : st[r] = stage[r]
    BY <1>1
  <2> HIDE DEF st
  <2>7. Covered(st, active) /\ Single(st)
    BY <2>1, <2>5 DEF ExclusionInv, Covered, Single
  <2>8. registry \cup {KeyOf[o]} \in SUBSET Keys
    BY <1>1, <1>2
  <2> QED
    BY <1>1, <1>2, <2>1, <2>2, <2>3, <2>4, <2>6, <2>7, <2>8, DispatchExcludes
<1>5. ASSUME NEW o \in Ops, RecvCompletion(o) PROVE ExclusionInv'
  <2> DEFINE st == [stage EXCEPT ![o] = CompletionStage(@)]
             act == active \ {KeyOf[o]}
  <2>1. Serving /\ UNCHANGED maintenanceActive
    BY <1>5 DEF RecvCompletion, Receive, Serving
  <2>2. Holding(stage, o)
    BY <1>5 DEF RecvCompletion, Holding
  <2>3. ~maintenanceActive
    BY <2>1, <2>2 DEF ExclusionInv, Covered, Idle
  <2>4. DispatchIfIdle(KeyOf[o], act, queues, registry, st)
    BY <1>5 DEF RecvCompletion
  <2>5. st \in [Requests -> Stages] /\ act \in SUBSET Keys
    BY <1>1 DEF Stages, CompletionStage
  <2>6. \A p \in Ops : Holding(st, p) => Holding(stage, p) /\ p # o
    BY <1>1, <1>2 DEF Holding, CompletionStage
  <2>7. \A r \in Requests \ Ops : st[r] = stage[r]
    BY <1>1
  <2> HIDE DEF st
  <2>8. Covered(st, act)
    BY <2>1, <2>2, <2>6 DEF ExclusionInv, Covered, Single
  <2>9. Single(st) /\ Keyed(queues)
    BY <2>6 DEF ExclusionInv, Single
  <2> HIDE DEF act
  <2> QED
    BY <1>1, <1>2, <2>1, <2>3, <2>4, <2>5, <2>7, <2>8, <2>9, DispatchExcludes
<1> QED
  BY <1>3, <1>4, <1>5

\* A cleanup starts when nothing is active or queued, so when nothing holds a key.
LEMMA ExclusionMaintenance ==
    ASSUME TypeOK, ExclusionInv, NEW m \in Maintenances,
           StartMaintenance(m) \/ RecvMaintenanceCompletion(m)
    PROVE  ExclusionInv'
<1>1. /\ m \in Requests
      /\ \A r \in Requests : r # m => stage'[r] = stage[r]
  BY DEF StartMaintenance, RecvMaintenanceCompletion, Answer, TypeOK, Requests
<1>2. /\ Serving /\ UNCHANGED <<queues, active>>
      /\ Ops \cup Maintenances \cup Flushes \cup Closes \subseteq Requests
      /\ m \notin Ops \cup Flushes \cup Closes
  BY KindsAssumption DEF StartMaintenance, RecvMaintenanceCompletion, Receive, Advancing, Serving,
                         Requests
<1>3. \A r \in Ops \cup Flushes \cup Closes : Holding(stage', r) <=> Holding(stage, r)
  BY <1>1, <1>2 DEF Holding
<1>4. /\ Keyed(queues') /\ Single(stage') /\ Covered(stage', active')
      /\ \A r \in Flushes \cup Closes : ~Holding(stage', r)
  BY <1>2, <1>3 DEF ExclusionInv, Single, Covered
<1>5. CASE StartMaintenance(m)
  <2>1. Idle /\ ~maintenanceActive /\ maintenanceActive' = TRUE
    BY <1>5 DEF StartMaintenance, Advancing
  <2>2. \A r \in Ops \cup Maintenances : ~Holding(stage, r)
    BY <1>2, <2>1 DEF ExclusionInv, Covered, Flagged, Idle
  <2>3. Alone(stage')
    BY <1>1, <1>2, <2>2 DEF Alone, Holding
  <2>4. Flagged(stage)' /\ Idle'
    BY <1>2, <2>1 DEF Flagged, Idle
  <2> QED
    BY <1>4, <2>3, <2>4 DEF ExclusionInv
<1>6. CASE RecvMaintenanceCompletion(m)
  <2>1. Holding(stage, m) /\ maintenanceActive' = FALSE
    BY <1>6 DEF RecvMaintenanceCompletion, Holding
  <2>2. ~Holding(stage', m)
    BY <1>1, <1>6 DEF RecvMaintenanceCompletion, Answer, Holding, TypeOK
  <2>3. \A n \in Maintenances : ~Holding(stage', n)
    BY <1>1, <1>2, <2>1, <2>2 DEF ExclusionInv, Alone, Holding
  <2> QED
    BY <1>4, <2>1, <2>3 DEF ExclusionInv, Alone, Flagged
<1> QED
  BY <1>5, <1>6

\* Every other step of the coordinator.
LEMMA ExclusionOther ==
    ASSUME TypeOK, ExclusionInv,
           \/ \E o \in Ops : PostponeSubmission(o)
           \/ \E f \in Flushes : CompleteFlush(f)
           \/ \E b \in Maintenances \cup Flushes : RecvBarrier(b)
           \/ \E r \in Ops \cup Maintenances \cup Flushes : RejectLate(r)
           \/ \E c \in Closes : RecvClose(c) \/ AnswerPendingClose(c)
           \/ \E r \in Requests : DrainEvent(r) \/ FailQueued(r)
           \/ FinishSubmission \/ FinishCompletion \/ AdvanceReturn \/ ShutdownWorkers
           \/ StopCoordinator \/ HandlesGone \/ Unwound \/ FailExit
    PROVE  ExclusionInv'
<1> DEFINE Kept ==
        /\ \A r \in Requests : Holding(stage', r) => Holding(stage, r)
        /\ UNCHANGED <<queues, active, maintenanceActive>>
        /\ Serving' => Serving
<1>1. Kept
  <2> USE DEF TypeOK, Holding, Serving, Answer, local
  <2>1. ASSUME NEW o \in Ops, PostponeSubmission(o) PROVE Kept
    BY <2>1 DEF PostponeSubmission
  <2>2. ASSUME NEW f \in Flushes, CompleteFlush(f) PROVE Kept
    BY <2>2 DEF CompleteFlush
  <2>3. ASSUME NEW b \in Maintenances \cup Flushes, RecvBarrier(b) PROVE Kept
    BY <2>3 DEF RecvBarrier, Receive
  <2>4. ASSUME NEW r \in Requests, RejectLate(r) PROVE Kept
    BY <2>4 DEF RejectLate
  <2>5. ASSUME NEW c \in Closes, RecvClose(c) PROVE Kept
    BY <2>5 DEF RecvClose, Receive
  <2>6. ASSUME NEW c \in Closes, AnswerPendingClose(c) PROVE Kept
    BY <2>6 DEF AnswerPendingClose
  <2>7. ASSUME NEW r \in Requests, DrainEvent(r) \/ FailQueued(r) PROVE Kept
    BY <2>7 DEF DrainEvent, FailQueued
  <2>8. CASE FinishCompletion
    BY <2>8 DEF FinishCompletion, DispatchDone
  <2>9. CASE \/ FinishSubmission \/ AdvanceReturn \/ ShutdownWorkers
             \/ StopCoordinator \/ HandlesGone \/ Unwound \/ FailExit
    BY <2>9 DEF FinishSubmission, DispatchDone, AdvanceReturn, ShutdownWorkers, StopCoordinator,
                HandlesGone, Unwound, FailExit
  <2> QED
    BY <2>1, <2>2, <2>3, <2>4, <2>5, <2>6, <2>7, <2>8, <2>9 DEF Requests
<1> QED
  BY <1>1, NoNewHolder

\* Unwinding forgets the active keys but lets no operation start.
LEMMA ExclusionPanic == TypeOK /\ ExclusionInv /\ CoordinatorPanic => ExclusionInv'
<1> SUFFICES ASSUME TypeOK, ExclusionInv, CoordinatorPanic PROVE ExclusionInv'
  OBVIOUS
<1>1. \A r \in Requests : Holding(stage', r) => Holding(stage, r)
  BY DEF CoordinatorPanic, Holding
<1>2. Ops \cup Maintenances \cup Flushes \cup Closes \subseteq Requests
  BY DEF Requests
<1>3. Single(stage') /\ Alone(stage')
  BY <1>1, <1>2 DEF ExclusionInv, Single, Alone
<1>4. \A r \in Flushes \cup Closes : ~Holding(stage', r)
  BY <1>1, <1>2 DEF ExclusionInv
<1>5. Keyed(queues') /\ ~Serving' /\ ~maintenanceActive'
  BY DEF CoordinatorPanic, Keyed, Serving
<1> QED
  BY <1>3, <1>4, <1>5 DEF ExclusionInv

\* Every step keeps the inductive invariant.
LEMMA ExclusionNext == TypeOK /\ ExclusionInv /\ [Next]_vars => ExclusionInv'
<1> SUFFICES ASSUME TypeOK, ExclusionInv, [Next]_vars PROVE ExclusionInv'
  OBVIOUS
<1>1. CASE UNCHANGED vars
  BY <1>1, NoNewHolder DEF vars, local, Holding, Serving
<1>2. CASE Terminated
  BY <1>1, <1>2 DEF Terminated
<1>3. CASE Callers \/ Workers
  BY <1>3, ExclusionClients
<1>4. CASE Scheduler
  BY <1>4, ExclusionDispatch, ExclusionMaintenance, ExclusionOther DEF Scheduler
<1>5. CASE CoordinatorPanic
  BY <1>5, ExclusionPanic
<1> QED
  BY <1>1, <1>2, <1>3, <1>4, <1>5 DEF Next

\* The inductive invariant holds in every state.
LEMMA ExclusionInvariant == Spec => [](TypeOK /\ ExclusionInv)
<1>1. Init => TypeOK /\ ExclusionInv
  BY TypeInit, ExclusionInit
<1>2. TypeOK /\ ExclusionInv /\ [Next]_vars => (TypeOK /\ ExclusionInv)'
  BY TypeNext, ExclusionNext
<1> QED
  BY <1>1, <1>2, PTL DEF Spec

\* Two operations on one key are never with the workers together, for any number
\* of keys, requests and workers, across failed dispatches, lost results and a
\* panic of the coordinator (dispatch_if_idle and the Completion arm).
THEOREM KeysExclusive == Spec => []PerKeyExclusion
<1>1. ExclusionInv => PerKeyExclusion
  BY DEF ExclusionInv, Single, Holding, PerKeyExclusion, InFlight
<1> QED
  BY <1>1, ExclusionInvariant, PTL

\* A cleanup never runs beside a blob operation (advance_pending_if_ready).
THEOREM CleanupExclusive == Spec => []MaintenanceExclusive
<1>1. ExclusionInv => MaintenanceExclusive
  BY KindsAssumption DEF ExclusionInv, Alone, Holding, MaintenanceExclusive, InFlight
<1> QED
  BY <1>1, ExclusionInvariant, PTL

----------------------------------------------------------------------------
(* Quiescence of the terminal lifecycles.                                  *)

\* A step from a terminal lifecycle starts no job and no thread.
LEMMA QuiescenceKept ==
    ASSUME TypeOK, QuiescenceInv, lifecycle \in {"Closed", "ShutdownFailed", "Failed"},
           [Next]_vars
    PROVE  QuiescenceInv'
<1> DEFINE Quiet ==
        /\ pc' \in {"answer", "unwind", "faildrain", "exited"}
        /\ workers' = 0
        /\ \A r \in Requests : stage'[r] \notin {"job", "running"}
<1>1. /\ pc \in {"answer", "unwind", "faildrain", "exited"}
      /\ workers = 0
      /\ \A r \in Requests : stage[r] \notin {"job", "running"}
  BY DEF QuiescenceInv, InFlight
<1>2. Quiet
  <2> USE <1>1 DEF TypeOK, Answer, local
  <2>1. CASE UNCHANGED vars
    BY <2>1 DEF vars
  <2>2. CASE Terminated
    BY <2>1, <2>2 DEF Terminated
  <2>3. ASSUME NEW r \in Ops \cup Maintenances \cup Flushes, Submit(r) PROVE Quiet
    BY <2>3 DEF Submit, Admit
  <2>4. ASSUME NEW c \in Closes, Close(c) \/ CloseWake(c) \/ CloseReturn(c) PROVE Quiet
    BY <2>4 DEF Close, CloseWake, CloseReturn, Admit
  <2>5. CASE DropHandles
    BY <2>5 DEF DropHandles
  <2>6. CASE Workers
    BY <2>6 DEF Workers, StartJob, FinishJob, PanicJob, Requests
  <2>7. CASE Scheduler
    <3>1. ASSUME NEW c \in Closes, AnswerPendingClose(c) PROVE Quiet
      BY <3>1 DEF AnswerPendingClose
    <3>2. ASSUME NEW r \in Requests, DrainEvent(r) \/ FailQueued(r) PROVE Quiet
      BY <3>2 DEF DrainEvent, FailQueued
    <3>3. CASE StopCoordinator \/ Unwound \/ FailExit
      BY <3>3 DEF StopCoordinator, Unwound, FailExit
    <3> QED
      BY <2>7, <3>1, <3>2, <3>3
         DEF Scheduler, DispatchAvailable, PostponeSubmission, QueueSubmission, RecvCompletion,
             PromoteSubmission, RecvMaintenanceCompletion, StartMaintenance, CompleteFlush,
             RecvBarrier, RejectLate, RecvClose, FinishSubmission, FinishCompletion, DispatchDone,
             AdvanceReturn, ShutdownWorkers, HandlesGone, Receive, Advancing
  <2>8. CASE CoordinatorPanic
    BY <2>8 DEF CoordinatorPanic
  <2> QED
    BY <2>1, <2>2, <2>3, <2>4, <2>5, <2>6, <2>7, <2>8 DEF Next, Callers
<1> QED
  BY <1>2 DEF QuiescenceInv, InFlight

\* The three steps that make the lifecycle terminal have joined every worker.
LEMMA QuiescenceReached ==
    ASSUME TypeOK, ExclusionInv, QuiescenceInv,
           lifecycle \notin {"Closed", "ShutdownFailed", "Failed"},
           lifecycle' \in {"Closed", "ShutdownFailed", "Failed"},
           [Next]_vars
    PROVE  QuiescenceInv'
<1>1. ShutdownWorkers \/ Unwound \/ HandlesGone
  <2>1. CASE Callers \/ Workers \/ CoordinatorPanic \/ Terminated \/ UNCHANGED vars
    BY <2>1 DEF Callers, Workers, CoordinatorPanic, Terminated, vars, Submit, Close, CloseWake,
                CloseReturn, DropHandles, StartJob, FinishJob, PanicJob
  <2>2. CASE Scheduler
    <3>1. ASSUME NEW c \in Closes, RecvClose(c) PROVE FALSE
      BY <3>1 DEF RecvClose
    <3> QED
      BY <2>2, <3>1
         DEF Scheduler, DispatchAvailable, PostponeSubmission, QueueSubmission, RecvCompletion,
             PromoteSubmission, RecvMaintenanceCompletion, StartMaintenance, CompleteFlush,
             RecvBarrier, RejectLate, FinishSubmission, FinishCompletion, AdvanceReturn,
             AnswerPendingClose, DrainEvent, FailQueued, StopCoordinator, FailExit
  <2> QED
    BY <2>1, <2>2 DEF Next
<1>2. CASE ShutdownWorkers \/ Unwound
  BY <1>2 DEF ShutdownWorkers, Unwound, WorkersJoined, QuiescenceInv, InFlight
<1>3. CASE HandlesGone
  <2>1. \A r \in Requests : ~InFlight(r)
    BY <1>3 DEF HandlesGone, SenderAlive, ExclusionInv, Holding, InFlight, Requests
  <2> QED
    BY <1>3, <2>1 DEF HandlesGone, QuiescenceInv, InFlight
<1> QED
  BY <1>1, <1>2, <1>3

\* Once the lifecycle says Closed, ShutdownFailed or Failed, no worker thread and
\* no job is left: ordered shutdown, last-handle drainage and unwinding all join
\* the workers before they publish the state.
THEOREM TerminalQuiescent == Spec => []TerminalIsQuiescent
<1> DEFINE Inv == TypeOK /\ ExclusionInv /\ QuiescenceInv
<1>1. Init => Inv
  <2>1. Init => QuiescenceInv
    BY DEF Init, QuiescenceInv
  <2> QED
    BY <2>1, TypeInit, ExclusionInit
<1>2. Inv /\ [Next]_vars => Inv'
  <2> SUFFICES ASSUME Inv, [Next]_vars PROVE Inv'
    OBVIOUS
  <2>1. TypeOK' /\ ExclusionInv'
    BY TypeNext, ExclusionNext
  <2>2. QuiescenceInv'
    <3>1. CASE lifecycle' \notin {"Closed", "ShutdownFailed", "Failed"}
      BY <3>1 DEF QuiescenceInv
    <3> QED
      BY <3>1, QuiescenceKept, QuiescenceReached
  <2> QED
    BY <2>1, <2>2
<1>3. Inv => TerminalIsQuiescent
  BY DEF QuiescenceInv, TerminalIsQuiescent
<1> QED
  BY <1>1, <1>2, <1>3, PTL DEF Spec

----------------------------------------------------------------------------
(* Where a request is.  A stage says in which sequence a request waits, if *)
(* in any, and each sequence holds a request once.                         *)

Has(s, x) == \E i \in 1..Len(s) : s[i] = x
Unique(s) == \A i, j \in 1..Len(s) : s[i] = s[j] => i = j

InChannel == {"channel", "completed", "lost"}
Waiting == InChannel \cup {"pending", "queued"}

\* Every request but x, which a step has in its hand, is where its stage says.
Places(ev, pd, q, st, x) ==
    /\ Unique(ev) /\ Unique(pd) /\ \A k \in Keys : Unique(q[k])
    /\ \A r \in Requests : Has(ev, r) <=> r # x /\ st[r] \in InChannel
    /\ \A r \in Requests : Has(pd, r) <=> r # x /\ st[r] = "pending"
    /\ \A k \in Keys, o \in Ops : Has(q[k], o) <=> o # x /\ st[o] = "queued" /\ KeyOf[o] = k

\* The stages that a request of each kind can be in, and where the coordinator is
\* while it delivers a result.
KindInv ==
    /\ \A r \in Requests \ Ops : stage[r] \notin {"queued", "delivering"}
    /\ \A r \in Requests \ Closes : stage[r] \notin {"dropped", "joined"}
    /\ \A r \in Requests : stage[r] = "delivering" => r = completing
    /\ completing # None => pc = "dispatch" /\ stage[completing] \in {"delivering", "done"}
    /\ pc = "dispatch" => ~maintenanceActive

\* A reply is there exactly when the request is over, except that a job that
\* panicked or got no worker has its reply before its completion is received.
ReplyInv == \A r \in Requests : stage[r] \notin {"lost", "done", "joined"} => reply[r] = "none"

----------------------------------------------------------------------------
(* In which order.                                                         *)

Rising(s, t) == \A i, j \in 1..Len(s) : i < j => t[s[i]] < t[s[j]]

TicketInv ==
    /\ \A r \in Requests : ticket[r] <= sent
    /\ \A r, s \in Requests : ticket[r] = ticket[s] /\ ticket[r] > 0 => r = s
    /\ \A r \in Requests : stage[r] = "new" => ticket[r] = 0
    /\ \A r \in Requests : stage[r] \notin {"new", "done", "joined"} => ticket[r] > 0

Begun(st, r) == st[r] \in {"job", "running", "completed", "lost", "delivering"}
Entered(st, r) == st[r] = "queued" \/ Begun(st, r)

\* What is in the channel came last, what is pending came after what has been
\* queued or begun, and the operations of a key begin in the order of its queue.
StageOrder(st, t) ==
    /\ \A r, s \in Requests : st[r] # "channel" /\ st[s] = "channel" => t[r] < t[s]
    /\ \A r, s \in Requests : Entered(st, r) /\ st[s] = "pending" => t[r] < t[s]
    /\ \A o, p \in Ops : KeyOf[o] = KeyOf[p] /\ Begun(st, o) /\ st[p] = "queued" => t[o] < t[p]
    /\ \A o, p \in Ops : KeyOf[o] = KeyOf[p] /\ st[o] = "delivering" /\ Holding(st, p) => t[o] < t[p]

\* Each sequence is first in, first out.
ChannelOrder(ev, st, t) ==
    \A i, j \in 1..Len(ev) :
        i < j /\ st[ev[i]] = "channel" /\ st[ev[j]] = "channel" => t[ev[i]] < t[ev[j]]

Line(ev, pd, q, st, t) ==
    /\ Places(ev, pd, q, st, None)
    /\ StageOrder(st, t)
    /\ ChannelOrder(ev, st, t)
    /\ Rising(pd, t)
    /\ \A k \in Keys : Rising(q[k], t)

LineInv == Line(events, pending, queues, stage, ticket)

----------------------------------------------------------------------------
(* Sequences of requests.                                                  *)

LEMMA EmptyHas == \A x : ~Has(<<>>, x)
  BY DEF Has

LEMMA AppendHas ==
    ASSUME NEW S, NEW s \in Seq(S), NEW x \in S
    PROVE  /\ \A y : Has(Append(s, x), y) <=> Has(s, y) \/ y = x
           /\ Unique(s) /\ ~Has(s, x) => Unique(Append(s, x))
<1>1. /\ Len(s) \in Nat /\ Len(Append(s, x)) = Len(s) + 1 /\ Append(s, x)[Len(s) + 1] = x
      /\ \A i \in 1..Len(s) : Append(s, x)[i] = s[i]
  OBVIOUS
<1>2. \A i : i \in 1..(Len(s) + 1) <=> i \in 1..Len(s) \/ i = Len(s) + 1
  BY <1>1
<1>3. \A y : Has(Append(s, x), y) <=> Has(s, y) \/ y = x
  BY <1>1, <1>2 DEF Has
<1>4. Unique(s) /\ ~Has(s, x) => Unique(Append(s, x))
  BY <1>1, <1>2 DEF Has, Unique
<1> QED
  BY <1>3, <1>4

LEMMA TailHas ==
    ASSUME NEW S, NEW s \in Seq(S), s # <<>>
    PROVE  /\ Head(s) \in S /\ Tail(s) \in Seq(S)
           /\ \A y : Has(s, y) <=> Has(Tail(s), y) \/ y = Head(s)
           /\ Unique(s) => Unique(Tail(s)) /\ ~Has(Tail(s), Head(s))
<1>1. /\ Len(s) \in Nat \ {0} /\ Tail(s) \in Seq(S) /\ Len(Tail(s)) = Len(s) - 1 /\ Head(s) = s[1] /\ Head(s) \in S
      /\ \A i \in 1..(Len(s) - 1) : Tail(s)[i] = s[i + 1]
  OBVIOUS
<1>2. \A i \in 1..Len(s) : i = 1 \/ (i - 1 \in 1..(Len(s) - 1) /\ s[i] = Tail(s)[i - 1])
  BY <1>1
<1>3. \A i \in 1..(Len(s) - 1) : i + 1 \in 1..Len(s) /\ i + 1 # 1
  BY <1>1
<1>4. 1 \in 1..Len(s)
  BY <1>1
<1>5. \A y : Has(s, y) <=> Has(Tail(s), y) \/ y = Head(s)
  BY <1>1, <1>2, <1>3, <1>4 DEF Has
<1>6. Unique(s) => Unique(Tail(s)) /\ ~Has(Tail(s), Head(s))
  <2> SUFFICES ASSUME Unique(s) PROVE Unique(Tail(s)) /\ ~Has(Tail(s), Head(s))
    OBVIOUS
  <2>1. ASSUME NEW i \in 1..(Len(s) - 1), NEW j \in 1..(Len(s) - 1), Tail(s)[i] = Tail(s)[j] PROVE i = j
    <3>1. s[i + 1] = s[j + 1] /\ i + 1 \in 1..Len(s) /\ j + 1 \in 1..Len(s)
      BY <1>1, <1>3, <2>1
    <3>2. i + 1 = j + 1
      BY <3>1 DEF Unique
    <3> QED
      BY <3>2, <1>1
  <2>2. ASSUME NEW i \in 1..(Len(s) - 1), Tail(s)[i] = Head(s) PROVE FALSE
    <3>1. s[i + 1] = s[1] /\ i + 1 \in 1..Len(s) /\ i + 1 # 1
      BY <1>1, <1>3, <2>2
    <3> QED
      BY <3>1, <1>4 DEF Unique
  <2> QED
    BY <1>1, <2>1, <2>2 DEF Unique, Has
<1> QED
  BY <1>1, <1>5, <1>6

LEMMA AppendRising ==
    ASSUME NEW s \in Seq(Requests), NEW x \in Requests, NEW t \in [Requests -> Nat], Rising(s, t),
           \A y \in Requests : Has(s, y) => t[y] < t[x]
    PROVE  Rising(Append(s, x), t)
<1>1. /\ Len(s) \in Nat /\ Len(Append(s, x)) = Len(s) + 1 /\ Append(s, x)[Len(s) + 1] = x
      /\ \A i \in 1..Len(s) : Append(s, x)[i] = s[i] /\ s[i] \in Requests
  OBVIOUS
<1>2. ASSUME NEW i \in 1..(Len(s) + 1), NEW j \in 1..(Len(s) + 1), i < j
      PROVE  t[Append(s, x)[i]] < t[Append(s, x)[j]]
  <2>1. i \in 1..Len(s)
    BY <1>1, <1>2
  <2>2. CASE j \in 1..Len(s)
    BY <1>1, <1>2, <2>1, <2>2 DEF Rising
  <2>3. CASE j = Len(s) + 1
    BY <1>1, <2>1, <2>3 DEF Has
  <2> QED
    BY SMTT(60), <1>1, <1>2, <2>2, <2>3
<1> QED
  BY <1>1, <1>2 DEF Rising

LEMMA TailRising ==
    ASSUME NEW s \in Seq(Requests), s # <<>>, NEW t \in [Requests -> Nat], Rising(s, t)
    PROVE  Rising(Tail(s), t) /\ \A y : Has(Tail(s), y) => t[Head(s)] < t[y]
<1>1. /\ Len(s) \in Nat \ {0} /\ Len(Tail(s)) = Len(s) - 1 /\ Head(s) = s[1]
      /\ \A i \in 1..(Len(s) - 1) : Tail(s)[i] = s[i + 1]
  OBVIOUS
<1>2. ASSUME NEW i \in 1..(Len(s) - 1), NEW j \in 1..(Len(s) - 1), i < j
      PROVE  t[Tail(s)[i]] < t[Tail(s)[j]]
  <2>1. i + 1 \in 1..Len(s) /\ j + 1 \in 1..Len(s) /\ i + 1 < j + 1
    BY <1>1, <1>2
  <2>2. t[s[i + 1]] < t[s[j + 1]]
    BY <2>1 DEF Rising
  <2> QED
    BY <1>1, <2>2
<1>3. ASSUME NEW i \in 1..(Len(s) - 1) PROVE t[Head(s)] < t[Tail(s)[i]]
  <2>1. 1 \in 1..Len(s) /\ i + 1 \in 1..Len(s) /\ 1 < i + 1
    BY <1>1, <1>3
  <2>2. t[s[1]] < t[s[i + 1]]
    BY <2>1 DEF Rising
  <2> QED
    BY <1>1, <2>2
<1> QED
  BY <1>1, <1>2, <1>3 DEF Rising, Has

LEMMA OpsAreRequests == Ops \subseteq Requests /\ Seq(Ops) \subseteq Seq(Requests)
<1>1. Ops \subseteq Requests
  BY DEF Requests
<1>2. ASSUME NEW s \in Seq(Ops) PROVE s \in Seq(Requests)
  BY <1>1
<1> QED
  BY <1>1, <1>2

----------------------------------------------------------------------------
(* Taking a request out of its place, and putting it into another.         *)

LEMMA TakeEvent ==
    ASSUME NEW ev \in Seq(Requests), NEW pd, NEW q, NEW st, Places(ev, pd, q, st, None), ev # <<>>
    PROVE  /\ Head(ev) \in Requests /\ Tail(ev) \in Seq(Requests) /\ st[Head(ev)] \in InChannel
           /\ Places(Tail(ev), pd, q, st, Head(ev))
<1>1. /\ Head(ev) \in Requests /\ Tail(ev) \in Seq(Requests)
      /\ \A y : Has(ev, y) <=> Has(Tail(ev), y) \/ y = Head(ev)
      /\ Unique(ev) => Unique(Tail(ev)) /\ ~Has(Tail(ev), Head(ev))
  BY TailHas
<1>2. \A r \in Requests : r # None
  BY KindsAssumption
<1>3. \A r \in Ops : r \in Requests
  BY OpsAreRequests
<1>4. st[Head(ev)] \in InChannel /\ st[Head(ev)] # "pending" /\ st[Head(ev)] # "queued"
  BY <1>1, <1>2 DEF Places, InChannel
<1> QED
  BY <1>1, <1>2, <1>3, <1>4 DEF Places

LEMMA TakePending ==
    ASSUME NEW ev, NEW pd \in Seq(Requests), NEW q, NEW st, Places(ev, pd, q, st, None), pd # <<>>
    PROVE  /\ Head(pd) \in Requests /\ Tail(pd) \in Seq(Requests) /\ st[Head(pd)] = "pending"
           /\ Places(ev, Tail(pd), q, st, Head(pd))
<1>1. /\ Head(pd) \in Requests /\ Tail(pd) \in Seq(Requests)
      /\ \A y : Has(pd, y) <=> Has(Tail(pd), y) \/ y = Head(pd)
      /\ Unique(pd) => Unique(Tail(pd)) /\ ~Has(Tail(pd), Head(pd))
  BY TailHas
<1>2. \A r \in Requests : r # None
  BY KindsAssumption
<1>3. \A r \in Ops : r \in Requests
  BY OpsAreRequests
<1>4. st[Head(pd)] = "pending" /\ st[Head(pd)] \notin InChannel /\ st[Head(pd)] # "queued"
  BY <1>1, <1>2 DEF Places, InChannel
<1> QED
  BY <1>1, <1>2, <1>3, <1>4 DEF Places

LEMMA TakeQueued ==
    ASSUME NEW ev, NEW pd, NEW q \in [Keys -> Seq(Ops)], NEW st, NEW k \in Keys,
           Places(ev, pd, q, st, None), q[k] # <<>>
    PROVE  /\ Head(q[k]) \in Ops /\ st[Head(q[k])] = "queued" /\ KeyOf[Head(q[k])] = k
           /\ Places(ev, pd, [q EXCEPT ![k] = Tail(@)], st, Head(q[k]))
<1> DEFINE h == Head(q[k])
           w == [q EXCEPT ![k] = Tail(@)]
<1>1. /\ h \in Ops
      /\ \A y : Has(q[k], y) <=> Has(Tail(q[k]), y) \/ y = h
      /\ Unique(q[k]) => Unique(Tail(q[k])) /\ ~Has(Tail(q[k]), h)
  BY TailHas
<1>2. \A r \in Requests : r # None
  BY KindsAssumption
<1>3. \A r \in Ops : r \in Requests
  BY OpsAreRequests
<1>4. w[k] = Tail(q[k]) /\ \A j \in Keys : j # k => w[j] = q[j]
  OBVIOUS
<1> HIDE DEF h, w
<1>5. st[h] = "queued" /\ KeyOf[h] = k /\ st[h] \notin InChannel /\ st[h] # "pending"
  BY <1>1, <1>2, <1>3 DEF Places, InChannel
<1>6. \A j \in Keys : Unique(w[j])
  BY ZenonT(60), <1>1, <1>4 DEF Places
<1>7. \A j \in Keys, o \in Ops : Has(w[j], o) <=> o # h /\ st[o] = "queued" /\ KeyOf[o] = j
  <2> TAKE j \in Keys, o \in Ops
  <2>1. Has(q[j], o) <=> st[o] = "queued" /\ KeyOf[o] = j
    BY <1>2, <1>3 DEF Places
  <2>2. CASE j = k
    <3>1. Unique(q[k])
      BY DEF Places
    <3>2. w[j] = Tail(q[k]) /\ (Has(q[k], o) <=> Has(Tail(q[k]), o) \/ o = h) /\ ~Has(Tail(q[k]), h)
      BY <1>1, <1>4, <2>2, <3>1
    <3> QED
      BY <2>1, <2>2, <3>2
  <2>3. CASE j # k
    BY <1>4, <1>5, <2>1, <2>3
  <2> QED
    BY <2>2, <2>3
<1>8. Places(ev, pd, w, st, h)
  BY <1>2, <1>3, <1>5, <1>6, <1>7 DEF Places
<1> QED
  BY <1>1, <1>5, <1>8 DEF h, w

\* A request that is in no sequence may be taken in hand.
LEMMA TakeFree ==
    ASSUME NEW ev, NEW pd, NEW q, NEW st, NEW x \in Requests,
           Places(ev, pd, q, st, None), st[x] \notin Waiting
    PROVE  Places(ev, pd, q, st, x)
<1>1. x # None /\ \A r \in Requests : r # None
  BY KindsAssumption
<1>2. st[x] \notin InChannel /\ st[x] # "pending" /\ st[x] # "queued"
  BY DEF Waiting
<1> QED
  BY <1>1, <1>2, OpsAreRequests DEF Places

LEMMA PutFree ==
    ASSUME NEW ev, NEW pd, NEW q, NEW st \in [Requests -> Stages], NEW x \in Requests,
           Places(ev, pd, q, st, x), NEW s \in Stages \ Waiting
    PROVE  Places(ev, pd, q, [st EXCEPT ![x] = s], None)
<1> DEFINE w == [st EXCEPT ![x] = s]
<1>1. w[x] = s /\ \A r \in Requests : r # x => w[r] = st[r]
  OBVIOUS
<1>2. \A r \in Requests : r # None
  BY KindsAssumption
<1>3. s \notin InChannel /\ s # "pending" /\ s # "queued"
  BY DEF Waiting
<1> HIDE DEF w
<1>4. Places(ev, pd, q, w, None)
  BY <1>1, <1>2, <1>3, OpsAreRequests DEF Places
<1> QED
  BY <1>4 DEF w

LEMMA PutEvent ==
    ASSUME NEW ev \in Seq(Requests), NEW pd, NEW q, NEW st \in [Requests -> Stages], NEW x \in Requests,
           Places(ev, pd, q, st, x), NEW s \in InChannel
    PROVE  Places(Append(ev, x), pd, q, [st EXCEPT ![x] = s], None)
<1> DEFINE w == [st EXCEPT ![x] = s]
           e == Append(ev, x)
<1>1. w[x] = s /\ \A r \in Requests : r # x => w[r] = st[r]
  OBVIOUS
<1>2. \A r \in Requests : r # None
  BY KindsAssumption
<1>3. s \in InChannel /\ s # "pending" /\ s # "queued"
  BY DEF InChannel
<1>4. ~Has(ev, x)
  BY DEF Places
<1>5. Unique(e) /\ \A y : Has(e, y) <=> Has(ev, y) \/ y = x
  BY <1>4, AppendHas DEF Places
<1> HIDE DEF w, e
<1>6. Places(e, pd, q, w, None)
  BY <1>1, <1>2, <1>3, <1>5, OpsAreRequests DEF Places
<1> QED
  BY <1>6 DEF w, e

LEMMA PutPending ==
    ASSUME NEW ev, NEW pd \in Seq(Requests), NEW q, NEW st \in [Requests -> Stages], NEW x \in Requests,
           Places(ev, pd, q, st, x)
    PROVE  Places(ev, Append(pd, x), q, [st EXCEPT ![x] = "pending"], None)
<1> DEFINE w == [st EXCEPT ![x] = "pending"]
           e == Append(pd, x)
<1>1. w[x] = "pending" /\ \A r \in Requests : r # x => w[r] = st[r]
  OBVIOUS
<1>2. \A r \in Requests : r # None
  BY KindsAssumption
<1>3. "pending" \notin InChannel /\ "pending" # "queued"
  BY DEF InChannel
<1>4. ~Has(pd, x)
  BY DEF Places
<1>5. Unique(e) /\ \A y : Has(e, y) <=> Has(pd, y) \/ y = x
  BY <1>4, AppendHas DEF Places
<1> HIDE DEF w, e
<1>6. Places(ev, e, q, w, None)
  BY <1>1, <1>2, <1>3, <1>5, OpsAreRequests DEF Places
<1> QED
  BY <1>6 DEF w, e

LEMMA PutQueued ==
    ASSUME NEW ev, NEW pd, NEW q \in [Keys -> Seq(Ops)], NEW st \in [Requests -> Stages], NEW x \in Ops,
           Places(ev, pd, q, st, x)
    PROVE  Places(ev, pd, [q EXCEPT ![KeyOf[x]] = Append(@, x)], [st EXCEPT ![x] = "queued"], None)
<1> DEFINE k == KeyOf[x]
           w == [st EXCEPT ![x] = "queued"]
           e == [q EXCEPT ![k] = Append(@, x)]
<1>1. x \in Requests /\ k \in Keys /\ k = KeyOf[x]
  BY KeysAssumption, OpsAreRequests
<1>2. w[x] = "queued" /\ \A r \in Requests : r # x => w[r] = st[r]
  BY <1>1
<1>3. \A r \in Requests : r # None
  BY KindsAssumption
<1>4. "queued" \notin InChannel /\ "queued" # "pending"
  BY DEF InChannel
<1>5. q[k] \in Seq(Ops) /\ ~Has(q[k], x) /\ Unique(q[k])
  BY <1>1 DEF Places
<1>6. Unique(Append(q[k], x)) /\ \A y : Has(Append(q[k], x), y) <=> Has(q[k], y) \/ y = x
  BY <1>5, AppendHas
<1>7. e[k] = Append(q[k], x) /\ \A j \in Keys : j # k => e[j] = q[j]
  BY <1>1
<1> HIDE DEF k, w, e
<1>8. \A j \in Keys : Unique(e[j])
  BY <1>6, <1>7 DEF Places
<1>9. \A j \in Keys, o \in Ops : Has(e[j], o) <=> w[o] = "queued" /\ KeyOf[o] = j
  <2> TAKE j \in Keys, o \in Ops
  <2>1. (Has(q[j], o) <=> o # x /\ st[o] = "queued" /\ KeyOf[o] = j) /\ o \in Requests
    BY OpsAreRequests DEF Places
  <2>2. CASE j = k
    <3>1. e[j] = Append(q[k], x) /\ (Has(Append(q[k], x), o) <=> Has(q[k], o) \/ o = x)
      BY <1>6, <1>7, <2>2
    <3> QED
      BY <1>1, <1>2, <2>1, <2>2, <3>1
  <2>3. CASE j # k
    BY <1>1, <1>2, <1>7, <2>1, <2>3
  <2> QED
    BY <2>2, <2>3
<1>10. Places(ev, pd, e, w, None)
  BY <1>1, <1>2, <1>3, <1>4, <1>8, <1>9, OpsAreRequests DEF Places
<1> QED
  BY <1>10 DEF k, w, e

----------------------------------------------------------------------------
(* The front of a sequence came first.                                     *)

LEMMA ChannelFront ==
    ASSUME NEW ev \in Seq(Requests), NEW pd, NEW q, NEW st, NEW t,
           Line(ev, pd, q, st, t), ev # <<>>, st[Head(ev)] = "channel"
    PROVE  \A y \in Requests : y # Head(ev) /\ st[y] = "channel" => t[Head(ev)] < t[y]
<1>1. Len(ev) \in Nat \ {0} /\ Head(ev) = ev[1]
  OBVIOUS
<1>2. ASSUME NEW y \in Requests, y # Head(ev), st[y] = "channel" PROVE t[Head(ev)] < t[y]
  <2>1. Has(ev, y)
    BY <1>2, KindsAssumption DEF Line, Places, InChannel
  <2>2. PICK i \in 1..Len(ev) : ev[i] = y
    BY <2>1 DEF Has
  <2>3. 1 \in 1..Len(ev) /\ 1 < i
    BY <1>1, <1>2, <2>2
  <2> QED
    BY <1>1, <1>2, <2>2, <2>3 DEF Line, ChannelOrder
<1> QED
  BY <1>2

LEMMA PendingFront ==
    ASSUME NEW ev, NEW pd \in Seq(Requests), NEW q, NEW st, NEW t \in [Requests -> Nat],
           Line(ev, pd, q, st, t), pd # <<>>
    PROVE  \A y \in Requests : y # Head(pd) /\ st[y] = "pending" => t[Head(pd)] < t[y]
<1>1. \A y : Has(pd, y) <=> Has(Tail(pd), y) \/ y = Head(pd)
  BY TailHas
<1>2. \A y : Has(Tail(pd), y) => t[Head(pd)] < t[y]
  BY TailRising DEF Line
<1> QED
  BY <1>1, <1>2, KindsAssumption DEF Line, Places

LEMMA QueueFront ==
    ASSUME NEW ev, NEW pd, NEW q \in [Keys -> Seq(Ops)], NEW st, NEW t \in [Requests -> Nat], NEW k \in Keys,
           Line(ev, pd, q, st, t), q[k] # <<>>
    PROVE  \A p \in Ops : p # Head(q[k]) /\ st[p] = "queued" /\ KeyOf[p] = k => t[Head(q[k])] < t[p]
<1>1. q[k] \in Seq(Requests)
  BY OpsAreRequests
<1>2. \A y : Has(q[k], y) <=> Has(Tail(q[k]), y) \/ y = Head(q[k])
  BY <1>1, TailHas
<1>3. \A y : Has(Tail(q[k]), y) => t[Head(q[k])] < t[y]
  BY <1>1, TailRising DEF Line
<1>4. \A p \in Ops : p # None
  BY KindsAssumption, OpsAreRequests
<1> QED
  BY <1>2, <1>3, <1>4 DEF Line, Places

----------------------------------------------------------------------------
(* A request moves on.  Line holds after each move that the engine makes.  *)

\* The order that stages show, when one request changes its stage.
LEMMA StageMove ==
    ASSUME NEW st \in [Requests -> Stages], NEW t \in [Requests -> Nat], NEW x \in Requests, NEW s \in Stages \ {"channel"},
           StageOrder(st, t),
           st[x] = "channel" => \A y \in Requests : y # x /\ st[y] = "channel" => t[x] < t[y],
           s = "pending" => st[x] = "channel",
           s = "queued" => st[x] \in {"channel", "pending"} /\ \A y \in Requests : y # x /\ st[y] = "pending" => t[x] < t[y],
           s = "job" /\ x \in Ops => /\ st[x] = "queued"
                                    /\ \A p \in Ops : p # x /\ st[p] = "queued" /\ KeyOf[p] = KeyOf[x] => t[x] < t[p],
           s = "lost" /\ x \in Ops => st[x] = "running",
           s \in {"job", "lost"} /\ x \notin Ops =>
               st[x] = "running" \/ \A y \in Requests : y # x /\ st[y] = "pending" => t[x] < t[y],
           s = "running" => st[x] = "job",
           s = "completed" => st[x] = "running",
           s = "delivering" => st[x] = "completed" /\ Single(st)
    PROVE  StageOrder([st EXCEPT ![x] = s], t)
<1> DEFINE w == [st EXCEPT ![x] = s]
<1>1. w[x] = s /\ \A r \in Requests : r # x => w[r] = st[r]
  OBVIOUS
<1>2. \A r \in Ops : r \in Requests
  BY OpsAreRequests
<1>3. \A r \in Requests : t[r] \in Nat
  OBVIOUS
<1> HIDE DEF w
<1>4. ASSUME NEW r \in Requests, NEW y \in Requests, w[r] # "channel", w[y] = "channel" PROVE t[r] < t[y]
  BY <1>1, <1>4 DEF StageOrder
<1>5. ASSUME NEW r \in Requests, NEW y \in Requests, Entered(w, r), w[y] = "pending" PROVE t[r] < t[y]
  <2>1. CASE r # x /\ y # x
    BY <1>1, <1>5, <2>1 DEF StageOrder, Entered, Begun
  <2>2. CASE y = x
    BY <1>1, <1>5, <2>2 DEF StageOrder, Entered, Begun
  <2>3. CASE r = x /\ y # x
    BY <1>1, <1>5, <2>3 DEF StageOrder, Entered, Begun
  <2> QED
    BY <2>1, <2>2, <2>3
<1>6. ASSUME NEW o \in Ops, NEW p \in Ops, KeyOf[o] = KeyOf[p], Begun(w, o), w[p] = "queued" PROVE t[o] < t[p]
  <2>1. CASE o # x /\ p # x
    BY <1>1, <1>2, <1>6, <2>1 DEF StageOrder, Begun
  <2>2. CASE p = x
    BY <1>1, <1>2, <1>6, <2>2 DEF StageOrder, Entered, Begun
  <2>3. CASE o = x /\ p # x
    BY <1>1, <1>2, <1>6, <2>3 DEF StageOrder, Begun
  <2> QED
    BY <2>1, <2>2, <2>3
<1>7. ASSUME NEW o \in Ops, NEW p \in Ops, KeyOf[o] = KeyOf[p], w[o] = "delivering", Holding(w, p) PROVE t[o] < t[p]
  <2>1. CASE o # x /\ p # x
    BY <1>1, <1>2, <1>7, <2>1 DEF StageOrder, Holding
  <2>2. CASE p = x
    BY <1>1, <1>2, <1>7, <2>2 DEF StageOrder, Begun, Holding
  <2>3. CASE o = x /\ p # x
    BY <1>1, <1>2, <1>7, <2>3 DEF Single, Holding
  <2> QED
    BY <2>1, <2>2, <2>3
<1>8. StageOrder(w, t)
  BY <1>4, <1>5, <1>6, <1>7 DEF StageOrder
<1> QED
  BY <1>8 DEF w

\* The order of the channel, when requests leave it and completions join it.
LEMMA ChannelMove ==
    ASSUME NEW ev \in Seq(Requests), NEW st, NEW w, NEW t, NEW x \in Requests,
           ChannelOrder(ev, st, t), \A y \in Requests : w[y] = "channel" => st[y] = "channel"
    PROVE  /\ ChannelOrder(ev, w, t)
           /\ ev # <<>> => ChannelOrder(Tail(ev), w, t)
           /\ w[x] # "channel" => ChannelOrder(Append(ev, x), w, t)
<1>1. /\ Len(ev) \in Nat /\ Len(Append(ev, x)) = Len(ev) + 1 /\ Append(ev, x)[Len(ev) + 1] = x
      /\ \A i \in 1..Len(ev) : ev[i] \in Requests /\ Append(ev, x)[i] = ev[i]
  OBVIOUS
<1>2. ChannelOrder(ev, w, t)
  BY <1>1 DEF ChannelOrder
<1>3. ASSUME ev # <<>>, NEW i \in 1..Len(Tail(ev)), NEW j \in 1..Len(Tail(ev)), i < j,
             w[Tail(ev)[i]] = "channel", w[Tail(ev)[j]] = "channel"
      PROVE  t[Tail(ev)[i]] < t[Tail(ev)[j]]
  <2>1. /\ i + 1 \in 1..Len(ev) /\ j + 1 \in 1..Len(ev) /\ i + 1 < j + 1
        /\ Tail(ev)[i] = ev[i + 1] /\ Tail(ev)[j] = ev[j + 1]
    BY <1>3
  <2> QED
    BY <1>2, <1>3, <2>1 DEF ChannelOrder
<1>4. ASSUME w[x] # "channel", NEW i \in 1..Len(Append(ev, x)), NEW j \in 1..Len(Append(ev, x)), i < j,
             w[Append(ev, x)[i]] = "channel", w[Append(ev, x)[j]] = "channel"
      PROVE  t[Append(ev, x)[i]] < t[Append(ev, x)[j]]
  <2>1. i \in 1..Len(ev) /\ j \in 1..Len(ev)
    BY <1>1, <1>4
  <2> QED
    BY <1>1, <1>2, <1>4, <2>1 DEF ChannelOrder
<1> QED
  BY <1>2, <1>3, <1>4 DEF ChannelOrder

\* A received request is answered, refused or delivered.
LEMMA EventOut ==
    ASSUME NEW ev \in Seq(Requests), NEW pd, NEW q, NEW st \in [Requests -> Stages], NEW t \in [Requests -> Nat],
           Line(ev, pd, q, st, t), ev # <<>>,
           NEW s \in {"done", "delivering"}, s = "delivering" => st[Head(ev)] = "completed" /\ Single(st)
    PROVE  Line(Tail(ev), pd, q, [st EXCEPT ![Head(ev)] = s], t)
<1> DEFINE x == Head(ev)
           w == [st EXCEPT ![x] = s]
<1>1. x \in Requests /\ Places(Tail(ev), pd, q, st, x)
  BY TakeEvent DEF Line
<1>2. s \in Stages \ Waiting /\ s # "channel"
  BY DEF Stages, Waiting, InChannel
<1>3. st[x] = "channel" => \A y \in Requests : y # x /\ st[y] = "channel" => t[x] < t[y]
  BY ChannelFront
<1>4. \A y \in Requests : w[y] = "channel" => st[y] = "channel"
  BY <1>2
<1> HIDE DEF x
<1>5. Places(Tail(ev), pd, q, w, None)
  BY <1>1, <1>2, PutFree
<1>6. StageOrder(w, t)
  <2>1. s \notin {"pending", "queued", "job", "running", "completed", "lost"} /\ StageOrder(st, t)
    BY DEF Line
  <2>2. s = "delivering" => st[x] = "completed" /\ Single(st)
    BY DEF x
  <2> QED
    BY <1>1, <1>2, <1>3, <2>1, <2>2, StageMove
<1> HIDE DEF w
<1>7. ChannelOrder(Tail(ev), w, t)
  BY <1>1, <1>4, ChannelMove DEF Line
<1>8. Line(Tail(ev), pd, q, w, t)
  BY <1>5, <1>6, <1>7 DEF Line
<1> QED
  BY <1>8 DEF w, x

\* A received request is postponed.
LEMMA EventPending ==
    ASSUME NEW ev \in Seq(Requests), NEW pd \in Seq(Requests), NEW q, NEW st \in [Requests -> Stages], NEW t \in [Requests -> Nat],
           Line(ev, pd, q, st, t), ev # <<>>, st[Head(ev)] = "channel"
    PROVE  Line(Tail(ev), Append(pd, Head(ev)), q, [st EXCEPT ![Head(ev)] = "pending"], t)
<1> DEFINE x == Head(ev)
           w == [st EXCEPT ![x] = "pending"]
<1>1. x \in Requests /\ Places(Tail(ev), pd, q, st, x) /\ st[x] = "channel"
  BY TakeEvent DEF Line
<1>2. \A y \in Requests : y # x /\ st[y] = "channel" => t[x] < t[y]
  BY ChannelFront
<1>3. \A y \in Requests : w[y] = "channel" => st[y] = "channel"
  OBVIOUS
<1> HIDE DEF x
<1>4. Places(Tail(ev), Append(pd, x), q, w, None)
  BY <1>1, PutPending
<1>5. "pending" \in Stages \ {"channel"}
  BY DEF Stages
<1>6. StageOrder(w, t)
  BY <1>1, <1>2, <1>5, StageMove DEF Line
<1> HIDE DEF w
<1>7. ChannelOrder(Tail(ev), w, t)
  BY <1>1, <1>3, ChannelMove DEF Line
<1>8. \A y \in Requests : Has(pd, y) => t[y] < t[x]
  BY <1>1 DEF Line, Places, StageOrder
<1>9. Rising(Append(pd, x), t)
  BY <1>1, <1>8, AppendRising DEF Line
<1>10. Line(Tail(ev), Append(pd, x), q, w, t)
  BY <1>4, <1>6, <1>7, <1>9 DEF Line
<1> QED
  BY <1>10 DEF w, x

\* The queues stay in order when a request behind everything queued joins its key's.
LEMMA QueueGrows ==
    ASSUME NEW q \in [Keys -> Seq(Ops)], NEW t \in [Requests -> Nat], NEW x \in Ops,
           \A k \in Keys : Rising(q[k], t) /\ \A p \in Ops : Has(q[k], p) => t[p] < t[x]
    PROVE  \A k \in Keys : Rising([q EXCEPT ![KeyOf[x]] = Append(@, x)][k], t)
<1> DEFINE k == KeyOf[x]
<1>1. k \in Keys /\ x \in Requests
  BY KeysAssumption, OpsAreRequests
<1>2. q[k] \in Seq(Requests) /\ q[k] \in Seq(Ops)
  BY <1>1, OpsAreRequests
<1>3. \A y \in Requests : Has(q[k], y) => t[y] < t[x]
  BY <1>1, <1>2 DEF Has
<1>4. Rising(Append(q[k], x), t)
  BY <1>1, <1>2, <1>3, AppendRising
<1> QED
  BY <1>1, <1>4

\* A received operation is queued, when nothing is pending.
LEMMA EventQueued ==
    ASSUME NEW ev \in Seq(Requests), NEW pd \in Seq(Requests), NEW q \in [Keys -> Seq(Ops)],
           NEW st \in [Requests -> Stages], NEW t \in [Requests -> Nat],
           Line(ev, pd, q, st, t), ev # <<>>, st[Head(ev)] = "channel", Head(ev) \in Ops, pd = <<>>
    PROVE  Line(Tail(ev), pd, [q EXCEPT ![KeyOf[Head(ev)]] = Append(@, Head(ev))], [st EXCEPT ![Head(ev)] = "queued"], t)
<1> DEFINE x == Head(ev)
           w == [st EXCEPT ![x] = "queued"]
           e == [q EXCEPT ![KeyOf[x]] = Append(@, x)]
<1>1. x \in Requests /\ x \in Ops /\ Places(Tail(ev), pd, q, st, x) /\ st[x] = "channel"
  BY TakeEvent DEF Line
<1>2. \A y \in Requests : y # x /\ st[y] = "channel" => t[x] < t[y]
  BY ChannelFront
<1>3. \A y \in Requests : w[y] = "channel" => st[y] = "channel"
  OBVIOUS
<1> HIDE DEF x
<1>4. Places(Tail(ev), pd, e, w, None)
  BY <1>1, PutQueued
<1>5. "queued" \in Stages \ {"channel"}
  BY DEF Stages
<1>6. \A y \in Requests : st[y] # "pending"
  BY EmptyHas, KindsAssumption DEF Line, Places
<1>7. StageOrder(w, t)
  BY <1>1, <1>2, <1>5, <1>6, StageMove DEF Line
<1>8. \A p \in Ops : st[p] = "queued" => t[p] < t[x]
  BY <1>1, OpsAreRequests DEF Line, StageOrder
<1>9. \A k \in Keys : Rising(e[k], t)
  <2>1. \A k \in Keys : Rising(q[k], t) /\ \A p \in Ops : Has(q[k], p) => t[p] < t[x]
    BY <1>8 DEF Line, Places
  <2> QED
    BY <1>1, <2>1, QueueGrows
<1> HIDE DEF w, e
<1>10. ChannelOrder(Tail(ev), w, t)
  BY <1>1, <1>3, ChannelMove DEF Line
<1>11. Line(Tail(ev), pd, e, w, t)
  BY <1>4, <1>7, <1>9, <1>10 DEF Line
<1> QED
  BY <1>11 DEF w, x, e

\* The first pending operation is queued.
LEMMA PendingQueued ==
    ASSUME NEW ev \in Seq(Requests), NEW pd \in Seq(Requests), NEW q \in [Keys -> Seq(Ops)],
           NEW st \in [Requests -> Stages], NEW t \in [Requests -> Nat],
           Line(ev, pd, q, st, t), pd # <<>>, Head(pd) \in Ops
    PROVE  Line(ev, Tail(pd), [q EXCEPT ![KeyOf[Head(pd)]] = Append(@, Head(pd))], [st EXCEPT ![Head(pd)] = "queued"], t)
<1> DEFINE x == Head(pd)
           w == [st EXCEPT ![x] = "queued"]
           e == [q EXCEPT ![KeyOf[x]] = Append(@, x)]
<1>1. x \in Requests /\ x \in Ops /\ Places(ev, Tail(pd), q, st, x) /\ st[x] = "pending"
  BY TakePending DEF Line
<1>2. \A y \in Requests : y # x /\ st[y] = "pending" => t[x] < t[y]
  BY PendingFront
<1>3. Rising(Tail(pd), t)
  BY TailRising DEF Line
<1>4. \A y \in Requests : w[y] = "channel" => st[y] = "channel"
  OBVIOUS
<1> HIDE DEF x
<1>5. Places(ev, Tail(pd), e, w, None)
  BY <1>1, PutQueued
<1>6. "queued" \in Stages \ {"channel"}
  BY DEF Stages
<1>7. StageOrder(w, t)
  BY <1>1, <1>2, <1>6, StageMove DEF Line
<1>8. \A p \in Ops : st[p] = "queued" => t[p] < t[x]
  BY <1>1, OpsAreRequests DEF Line, StageOrder, Entered
<1>9. \A k \in Keys : Rising(e[k], t)
  <2>1. \A k \in Keys : Rising(q[k], t) /\ \A p \in Ops : Has(q[k], p) => t[p] < t[x]
    BY <1>8 DEF Line, Places
  <2> QED
    BY <1>1, <2>1, QueueGrows
<1> HIDE DEF w, e
<1>10. ChannelOrder(ev, w, t)
  BY <1>1, <1>4, ChannelMove DEF Line
<1>11. Line(ev, Tail(pd), e, w, t)
  BY <1>3, <1>5, <1>7, <1>9, <1>10 DEF Line
<1> QED
  BY <1>11 DEF w, x, e

\* The first pending request is answered, or a cleanup is given to a worker.
LEMMA PendingOut ==
    ASSUME NEW ev \in Seq(Requests), NEW pd \in Seq(Requests), NEW q, NEW st \in [Requests -> Stages], NEW t \in [Requests -> Nat],
           Line(ev, pd, q, st, t), pd # <<>>, NEW s \in {"done", "job"}, s = "job" => Head(pd) \notin Ops
    PROVE  Line(ev, Tail(pd), q, [st EXCEPT ![Head(pd)] = s], t)
<1> DEFINE x == Head(pd)
           w == [st EXCEPT ![x] = s]
<1>1. /\ x \in Requests /\ Places(ev, Tail(pd), q, st, x) /\ st[x] = "pending"
      /\ s = "job" => x \notin Ops
  BY TakePending DEF Line
<1>2. \A y \in Requests : y # x /\ st[y] = "pending" => t[x] < t[y]
  BY PendingFront
<1>3. Rising(Tail(pd), t)
  BY TailRising DEF Line
<1>4. s \in Stages \ Waiting /\ s # "channel" /\ s \notin {"pending", "queued", "running", "completed", "lost", "delivering"}
  BY DEF Stages, Waiting, InChannel
<1>5. \A y \in Requests : w[y] = "channel" => st[y] = "channel"
  BY <1>4
<1> HIDE DEF x
<1>6. Places(ev, Tail(pd), q, w, None)
  BY <1>1, <1>4, PutFree
<1>7. StageOrder(st, t)
  BY DEF Line
<1>8. StageOrder(w, t)
  BY <1>1, <1>2, <1>4, <1>7, StageMove
<1> HIDE DEF w
<1>9. ChannelOrder(ev, w, t)
  BY <1>1, <1>5, ChannelMove DEF Line
<1>10. Line(ev, Tail(pd), q, w, t)
  BY <1>3, <1>6, <1>8, <1>9 DEF Line
<1> QED
  BY <1>10 DEF w, x

\* A cleanup that gets no worker is sent to the coordinator as its own completion.
LEMMA PendingLost ==
    ASSUME NEW ev \in Seq(Requests), NEW pd \in Seq(Requests), NEW q, NEW st \in [Requests -> Stages], NEW t \in [Requests -> Nat],
           Line(ev, pd, q, st, t), pd # <<>>, Head(pd) \notin Ops
    PROVE  Line(Append(ev, Head(pd)), Tail(pd), q, [st EXCEPT ![Head(pd)] = "lost"], t)
<1> DEFINE x == Head(pd)
           w == [st EXCEPT ![x] = "lost"]
<1>1. x \in Requests /\ Places(ev, Tail(pd), q, st, x) /\ st[x] = "pending" /\ x \notin Ops
  BY TakePending DEF Line
<1>2. \A y \in Requests : y # x /\ st[y] = "pending" => t[x] < t[y]
  BY PendingFront
<1>3. Rising(Tail(pd), t)
  BY TailRising DEF Line
<1>4. "lost" \in InChannel /\ "lost" \in Stages
  BY DEF Stages, InChannel
<1>5. w[x] = "lost" /\ \A y \in Requests : w[y] = "channel" => st[y] = "channel"
  BY <1>1
<1> HIDE DEF x
<1>6. Places(Append(ev, x), Tail(pd), q, w, None)
  BY <1>1, <1>4, PutEvent
<1>7. StageOrder(st, t)
  BY DEF Line
<1>8. StageOrder(w, t)
  BY <1>1, <1>2, <1>4, <1>7, StageMove
<1> HIDE DEF w
<1>9. ChannelOrder(Append(ev, x), w, t)
  BY <1>1, <1>5, ChannelMove DEF Line
<1>10. Line(Append(ev, x), Tail(pd), q, w, t)
  BY <1>3, <1>6, <1>8, <1>9 DEF Line
<1> QED
  BY <1>10 DEF w, x

\* The first operation of a key's queue is given to a worker or answered.
LEMMA QueueOut ==
    ASSUME NEW ev \in Seq(Requests), NEW pd, NEW q \in [Keys -> Seq(Ops)], NEW st \in [Requests -> Stages], NEW t \in [Requests -> Nat],
           Line(ev, pd, q, st, t), NEW k \in Keys, q[k] # <<>>, NEW s \in {"done", "job"}
    PROVE  Line(ev, pd, [q EXCEPT ![k] = Tail(@)], [st EXCEPT ![Head(q[k])] = s], t)
<1> DEFINE x == Head(q[k])
           w == [st EXCEPT ![x] = s]
           e == [q EXCEPT ![k] = Tail(@)]
<1>1. x \in Requests /\ x \in Ops /\ Places(ev, pd, e, st, x) /\ st[x] = "queued" /\ KeyOf[x] = k
  <2>1. Places(ev, pd, q, st, None)
    BY DEF Line
  <2>2. x \in Ops /\ st[x] = "queued" /\ KeyOf[x] = k /\ Places(ev, pd, e, st, x)
    BY <2>1, TakeQueued
  <2> QED
    BY <2>2, OpsAreRequests
<1>2. \A p \in Ops : p # x /\ st[p] = "queued" /\ KeyOf[p] = k => t[x] < t[p]
  BY QueueFront
<1>3. q[k] \in Seq(Requests) /\ Rising(q[k], t)
  BY OpsAreRequests DEF Line
<1>4. Rising(Tail(q[k]), t)
  BY <1>3, TailRising
<1>5. \A j \in Keys : Rising(e[j], t)
  BY <1>4 DEF Line
<1>6. s \in Stages \ Waiting /\ s # "channel" /\ s \notin {"pending", "queued", "running", "completed", "lost", "delivering"}
  BY DEF Stages, Waiting, InChannel
<1>7. \A y \in Requests : w[y] = "channel" => st[y] = "channel"
  BY <1>6
<1> HIDE DEF x, e
<1>8. Places(ev, pd, e, w, None)
  BY <1>1, <1>6, PutFree
<1>9. StageOrder(st, t)
  BY DEF Line
<1>10. StageOrder(w, t)
  BY <1>1, <1>2, <1>6, <1>9, StageMove
<1> HIDE DEF w
<1>11. ChannelOrder(ev, w, t)
  BY <1>1, <1>7, ChannelMove DEF Line
<1>12. Line(ev, pd, e, w, t)
  BY <1>5, <1>8, <1>10, <1>11 DEF Line
<1> QED
  BY <1>12 DEF w, x, e

\* A request that is in no sequence moves on, or its completion joins the channel.
LEMMA FreeMove ==
    ASSUME NEW ev \in Seq(Requests), NEW pd, NEW q, NEW st \in [Requests -> Stages], NEW t \in [Requests -> Nat],
           Line(ev, pd, q, st, t), NEW x \in Requests, st[x] \notin Waiting,
           NEW s \in {"done", "joined", "running"}, s = "running" => st[x] = "job"
    PROVE  Line(ev, pd, q, [st EXCEPT ![x] = s], t)
<1> DEFINE w == [st EXCEPT ![x] = s]
<1>1. Places(ev, pd, q, st, x) /\ st[x] # "channel"
  BY TakeFree DEF Line, Waiting, InChannel
<1>2. s \in Stages \ Waiting /\ s # "channel" /\ s \notin {"pending", "queued", "job", "completed", "lost", "delivering"}
  BY DEF Stages, Waiting, InChannel
<1>3. \A y \in Requests : w[y] = "channel" => st[y] = "channel"
  BY <1>2
<1>4. Places(ev, pd, q, w, None)
  BY <1>1, <1>2, PutFree
<1>5. StageOrder(st, t)
  BY DEF Line
<1>6. StageOrder(w, t)
  BY <1>1, <1>2, <1>5, StageMove
<1> HIDE DEF w
<1>7. ChannelOrder(ev, w, t)
  BY <1>3, ChannelMove DEF Line
<1>8. Line(ev, pd, q, w, t)
  BY <1>4, <1>6, <1>7 DEF Line
<1> QED
  BY <1>8 DEF w

LEMMA FreeEvent ==
    ASSUME NEW ev \in Seq(Requests), NEW pd, NEW q, NEW st \in [Requests -> Stages], NEW t \in [Requests -> Nat],
           Line(ev, pd, q, st, t), NEW x \in Requests, st[x] = "running", NEW s \in {"completed", "lost"}
    PROVE  Line(Append(ev, x), pd, q, [st EXCEPT ![x] = s], t)
<1> DEFINE w == [st EXCEPT ![x] = s]
<1>1. Places(ev, pd, q, st, x)
  BY TakeFree DEF Line, Waiting, InChannel
<1>2. s \in InChannel /\ s \in Stages /\ s # "channel" /\ s \notin {"pending", "queued", "job", "running", "delivering"}
  BY DEF Stages, InChannel
<1>3. w[x] # "channel" /\ \A y \in Requests : w[y] = "channel" => st[y] = "channel"
  BY <1>2
<1>4. Places(Append(ev, x), pd, q, w, None)
  BY <1>1, <1>2, PutEvent
<1>5. StageOrder(st, t)
  BY DEF Line
<1>6. StageOrder(w, t)
  BY <1>2, <1>5, StageMove
<1> HIDE DEF w
<1>7. ChannelOrder(Append(ev, x), w, t)
  BY <1>3, ChannelMove DEF Line
<1>8. Line(Append(ev, x), pd, q, w, t)
  BY <1>4, <1>6, <1>7 DEF Line
<1> QED
  BY <1>8 DEF w

\* A call is admitted with the highest ticket so far.
LEMMA NewEvent ==
    ASSUME NEW ev \in Seq(Requests), NEW pd \in Seq(Requests), NEW q \in [Keys -> Seq(Ops)],
           NEW st \in [Requests -> Stages], NEW t \in [Requests -> Nat],
           Line(ev, pd, q, st, t), NEW x \in Requests, st[x] = "new",
           NEW n \in Nat, \A y \in Requests : t[y] < n
    PROVE  Line(Append(ev, x), pd, q, [st EXCEPT ![x] = "channel"], [t EXCEPT ![x] = n])
<1> DEFINE w == [st EXCEPT ![x] = "channel"]
           u == [t EXCEPT ![x] = n]
<1>1. Places(ev, pd, q, st, x)
  BY TakeFree DEF Line, Waiting, InChannel
<1>2. "channel" \in InChannel
  BY DEF InChannel
<1>3. w[x] = "channel" /\ u[x] = n /\ \A y \in Requests : y # x => w[y] = st[y] /\ u[y] = t[y]
  OBVIOUS
<1>4. Places(Append(ev, x), pd, q, w, None)
  BY <1>1, <1>2, PutEvent
<1>5. ~Has(ev, x) /\ ~Has(pd, x) /\ (x \in Ops => \A k \in Keys : ~Has(q[k], x))
  BY <1>1 DEF Places
<1> HIDE DEF w, u
<1>6. \A y \in Requests : t[y] \in Nat /\ u[y] \in Nat /\ u[y] <= n /\ (y # x => u[y] < n)
  BY <1>3
<1>7. StageOrder(st, t)
  BY DEF Line
<1>8. StageOrder(w, u)
  <2>1. \A r, s \in Requests : w[r] # "channel" /\ w[s] = "channel" => u[r] < u[s]
    BY <1>3, <1>6, <1>7 DEF StageOrder
  <2>2. \A r, s \in Requests : Entered(w, r) /\ w[s] = "pending" => u[r] < u[s]
    BY <1>3, <1>7 DEF StageOrder, Entered, Begun
  <2>3. \A o, p \in Ops : KeyOf[o] = KeyOf[p] /\ Begun(w, o) /\ w[p] = "queued" => u[o] < u[p]
    BY <1>3, <1>7, OpsAreRequests DEF StageOrder, Begun
  <2>4. \A o, p \in Ops : KeyOf[o] = KeyOf[p] /\ w[o] = "delivering" /\ Holding(w, p) => u[o] < u[p]
    BY <1>3, <1>7, OpsAreRequests DEF StageOrder, Holding
  <2> QED
    BY <2>1, <2>2, <2>3, <2>4 DEF StageOrder
<1>9. ChannelOrder(Append(ev, x), w, u)
  <2>1. /\ Len(ev) \in Nat /\ Len(Append(ev, x)) = Len(ev) + 1 /\ Append(ev, x)[Len(ev) + 1] = x
        /\ \A i \in 1..Len(ev) : ev[i] \in Requests /\ Append(ev, x)[i] = ev[i]
    OBVIOUS
  <2>2. \A i \in 1..Len(ev) : ev[i] # x
    BY <1>5 DEF Has
  <2>3. ASSUME NEW i \in 1..Len(Append(ev, x)), NEW j \in 1..Len(Append(ev, x)), i < j,
               w[Append(ev, x)[i]] = "channel", w[Append(ev, x)[j]] = "channel"
        PROVE  u[Append(ev, x)[i]] < u[Append(ev, x)[j]]
    <3>1. i \in 1..Len(ev)
      BY <2>1, <2>3
    <3>2. CASE j \in 1..Len(ev)
      BY <1>3, <2>1, <2>2, <2>3, <3>1, <3>2 DEF Line, ChannelOrder
    <3>3. CASE j = Len(ev) + 1
      BY <1>3, <1>6, <2>1, <2>2, <3>1, <3>3
    <3> QED
      BY <2>1, <3>2, <3>3
  <2> QED
    BY <2>3 DEF ChannelOrder
<1>10. Rising(pd, u)
  BY <1>3, <1>5 DEF Line, Rising, Has
<1>11. ASSUME NEW k \in Keys PROVE Rising(q[k], u)
  <2>1. q[k] \in Seq(Ops) /\ Rising(q[k], t)
    BY DEF Line
  <2>2. \A i \in 1..Len(q[k]) : q[k][i] \in Requests /\ q[k][i] # x
    BY <1>5, <2>1, OpsAreRequests DEF Has
  <2> QED
    BY <1>3, <2>1, <2>2 DEF Rising
<1>12. Line(Append(ev, x), pd, q, w, u)
  BY <1>4, <1>8, <1>9, <1>10, <1>11 DEF Line
<1> QED
  BY <1>12 DEF w, u

\* DispatchIfIdle pops at most the front of one queue.
LEMMA DispatchLine ==
    ASSUME NEW ev \in Seq(Requests), NEW pd, NEW q \in [Keys -> Seq(Ops)], NEW st \in [Requests -> Stages], NEW t \in [Requests -> Nat],
           NEW k \in Keys, NEW act, NEW reg, Line(ev, pd, q, st, t), DispatchIfIdle(k, act, q, reg, st)
    PROVE  Line(ev, pd, queues', stage', t)
<1>1. \/ queues' = q /\ stage' = st
      \/ /\ q[k] # <<>> /\ queues' = [q EXCEPT ![k] = Tail(@)]
         /\ \E s \in {"done", "job"} : stage' = [st EXCEPT ![Head(q[k])] = s]
  BY DEF DispatchIfIdle
<1>2. CASE queues' = q /\ stage' = st
  BY <1>2
<1>3. CASE /\ q[k] # <<>> /\ queues' = [q EXCEPT ![k] = Tail(@)]
           /\ \E s \in {"done", "job"} : stage' = [st EXCEPT ![Head(q[k])] = s]
  <2>1. PICK s \in {"done", "job"} : stage' = [st EXCEPT ![Head(q[k])] = s]
    BY <1>3
  <2>2. Line(ev, pd, [q EXCEPT ![k] = Tail(@)], [st EXCEPT ![Head(q[k])] = s], t)
    BY <1>3, QueueOut
  <2> QED
    BY <1>3, <2>1, <2>2
<1> QED
  BY <1>1, <1>2, <1>3

\* A panic ends what the coordinator holds: the event in hand, which is the front of
\* the channel, and everything pending, queued or being delivered.
LEMMA PanicLine == TypeOK /\ LineInv /\ CoordinatorPanic => LineInv'
<1> SUFFICES ASSUME TypeOK, LineInv, CoordinatorPanic PROVE LineInv'
  OBVIOUS
<1> USE DEF LineInv
<1>1. /\ events \in Seq(Requests) /\ ticket' = ticket /\ pending' = <<>> /\ \A k \in Keys : queues'[k] = <<>>
      /\ \A r \in Requests : \/ stage'[r] = stage[r] /\ stage[r] \notin {"pending", "queued", "delivering"}
                             \/ stage'[r] \in {"done", "dropped"} /\ stage[r] \in {"pending", "queued", "delivering"}
                             \/ stage'[r] \in {"done", "dropped"} /\ pc = "recv" /\ r = Head(events)
  BY DEF CoordinatorPanic, Unwinding, InHand, TypeOK, history
<1>2. \/ events' = events /\ pc # "recv"
      \/ pc = "recv" /\ events # <<>> /\ events' = Tail(events) /\ Head(events) \in Requests
         /\ stage'[Head(events)] \in {"done", "dropped"} /\ stage[Head(events)] \in InChannel
  <2>1. CASE pc # "recv"
    BY <2>1 DEF CoordinatorPanic
  <2>2. CASE pc = "recv"
    <3>1. events # <<>> /\ events' = Tail(events)
      BY <2>2 DEF CoordinatorPanic
    <3>2. Head(events) \in Requests /\ stage[Head(events)] \in InChannel
      BY <1>1, <3>1, TakeEvent DEF Line
    <3> QED
      BY <2>2, <3>1, <3>2 DEF CoordinatorPanic, Unwinding, InHand
  <2> QED
    BY <2>1, <2>2
<1>3. \A r, s \in Requests : stage'[r] # "channel" /\ stage'[s] = "channel" => ticket[r] < ticket[s]
  <2> SUFFICES ASSUME NEW r \in Requests, NEW s \in Requests, stage'[r] # "channel", stage'[s] = "channel"
               PROVE  ticket[r] < ticket[s]
    OBVIOUS
  <2>1. stage[s] = "channel"
    BY <1>1
  <2>2. CASE stage[r] # "channel"
    BY <2>1, <2>2 DEF Line, StageOrder
  <2>3. CASE stage[r] = "channel"
    <3>1. r = Head(events) /\ events # <<>> /\ s # r
      BY <1>1, <1>2, <2>3
    <3> QED
      BY <1>1, <2>1, <2>3, <3>1, ChannelFront
  <2> QED
    BY <2>2, <2>3
<1>4. StageOrder(stage', ticket)
  <2>1. \A o \in Ops : o \in Requests
    BY OpsAreRequests
  <2>2. \A r \in Requests : stage'[r] \notin {"pending", "queued", "delivering"}
    BY <1>1
  <2> QED
    BY <1>3, <2>1, <2>2 DEF StageOrder
<1>5. ChannelOrder(events', stage', ticket)
  <2>1. \A y \in Requests : stage'[y] = "channel" => stage[y] = "channel"
    BY <1>1
  <2>2. CASE events' = events
    BY <1>1, <2>1, <2>2 DEF Line, ChannelOrder
  <2>3. CASE events # <<>> /\ events' = Tail(events) /\ Head(events) \in Requests
    BY <1>1, <2>1, <2>3, ChannelMove DEF Line
  <2> QED
    BY <1>2, <2>2, <2>3
<1>6. Unique(events') /\ \A r \in Requests : Has(events', r) <=> stage'[r] \in InChannel
  <2>1. \A r \in Requests : r # None /\ (Has(events, r) <=> stage[r] \in InChannel)
    BY KindsAssumption DEF Line, Places
  <2>2. \A r \in Requests : stage[r] \in {"pending", "queued", "delivering"} => stage[r] \notin InChannel
    BY DEF InChannel
  <2>3. "done" \notin InChannel /\ "dropped" \notin InChannel
    BY DEF InChannel
  <2>4. Unique(events)
    BY DEF Line, Places
  <2>5. CASE events' = events /\ pc # "recv"
    BY <1>1, <2>1, <2>2, <2>3, <2>4, <2>5
  <2>6. CASE pc = "recv" /\ events # <<>> /\ events' = Tail(events) /\ Head(events) \in Requests
             /\ stage'[Head(events)] \in {"done", "dropped"}
    <3>1. /\ \A y : Has(events, y) <=> Has(Tail(events), y) \/ y = Head(events)
          /\ Unique(Tail(events)) /\ ~Has(Tail(events), Head(events))
      BY <1>1, <2>4, <2>6, TailHas
    <3> QED
      BY <1>1, <2>1, <2>2, <2>3, <2>6, <3>1
  <2> QED
    BY <1>2, <2>5, <2>6
<1>7. \A r \in Requests : r # None /\ stage'[r] # "pending" /\ stage'[r] # "queued"
  BY <1>1, KindsAssumption
<1>8. Unique(pending') /\ (\A x : ~Has(pending', x)) /\ Rising(pending', ticket)
  BY <1>1, EmptyHas DEF Unique, Rising
<1>9. \A k \in Keys : Unique(queues'[k]) /\ (\A x : ~Has(queues'[k], x)) /\ Rising(queues'[k], ticket)
  BY <1>1, EmptyHas DEF Unique, Rising
<1>10. Places(events', pending', queues', stage', None)
  BY <1>6, <1>7, <1>8, <1>9, OpsAreRequests DEF Places
<1> QED
  BY <1>1, <1>4, <1>5, <1>8, <1>9, <1>10 DEF Line

----------------------------------------------------------------------------
(* Every step keeps requests in their places and in order.                 *)

\* Calls, returns and the steps of jobs.
LEMMA LineClients ==
    ASSUME TypeOK, TicketInv, LineInv, Callers \/ Workers
    PROVE  LineInv'
<1> USE DEF LineInv
<1> DEFINE Free == \E r \in Requests, s \in {"done", "joined", "running"} :
                /\ stage[r] \notin Waiting /\ (s = "running" => stage[r] = "job")
                /\ stage' = [stage EXCEPT ![r] = s]
                /\ UNCHANGED <<events, pending, queues, ticket>>
           Sent == \E r \in Requests, s \in {"completed", "lost"} :
                /\ stage[r] = "running" /\ stage' = [stage EXCEPT ![r] = s] /\ events' = Append(events, r)
                /\ UNCHANGED <<pending, queues, ticket>>
           New == \E r \in Requests :
                /\ stage[r] = "new" /\ stage' = [stage EXCEPT ![r] = "channel"] /\ events' = Append(events, r)
                /\ ticket' = [ticket EXCEPT ![r] = sent + 1] /\ UNCHANGED <<pending, queues>>
<1>1. /\ events \in Seq(Requests) /\ pending \in Seq(Requests) /\ queues \in [Keys -> Seq(Ops)]
      /\ stage \in [Requests -> Stages] /\ ticket \in [Requests -> Nat] /\ sent \in Nat
  BY DEF TypeOK
<1>2. {"new", "job", "running", "done", "dropped"} \cap Waiting = {}
  BY DEF Waiting, InChannel
<1>3. ASSUME NEW r \in Ops \cup Maintenances \cup Flushes, Submit(r) PROVE Free \/ New
  <2>1. r \in Requests
    BY DEF Requests
  <2>2. CASE Admit(r)
    BY <1>3, <2>1, <2>2 DEF Submit, Admit, local
  <2>3. CASE UNCHANGED <<events, history>> /\ \E a : Answer(r, a)
    BY <1>2, <1>3, <2>1, <2>3 DEF Submit, Answer, local, history
  <2> QED
    BY <1>3, <2>2, <2>3 DEF Submit
<1>4. ASSUME NEW c \in Closes, Close(c) PROVE Free \/ New
  <2>1. c \in Requests
    BY DEF Requests
  <2>2. CASE lifecycle \in {"Open", "Closing"}
    BY <1>4, <2>1, <2>2 DEF Close, Admit, local
  <2>3. CASE lifecycle \notin {"Open", "Closing"}
    BY <1>2, <1>4, <2>1, <2>3 DEF Close, Answer, local, history
  <2> QED
    BY <2>2, <2>3
<1>5. ASSUME NEW c \in Closes, CloseWake(c) \/ CloseReturn(c) PROVE Free
  BY <1>2, <1>5 DEF CloseWake, CloseReturn, Answer, local, history, Requests
<1>6. ASSUME NEW r \in Ops \cup Maintenances, StartJob(r) PROVE Free
  BY <1>2, <1>6 DEF StartJob, local, history, Requests
<1>7. ASSUME NEW r \in Ops \cup Maintenances, FinishJob(r) \/ PanicJob(r) PROVE Sent
  BY <1>7 DEF FinishJob, PanicJob, local, history, Requests
<1>8. ASSUME Free PROVE LineInv'
  <2>1. PICK r \in Requests, s \in {"done", "joined", "running"} :
                /\ stage[r] \notin Waiting /\ (s = "running" => stage[r] = "job")
                /\ stage' = [stage EXCEPT ![r] = s]
                /\ UNCHANGED <<events, pending, queues, ticket>>
    BY <1>8
  <2>2. Line(events, pending, queues, [stage EXCEPT ![r] = s], ticket)
    BY <1>1, <2>1, FreeMove
  <2> QED
    BY <2>1, <2>2
<1>9. ASSUME Sent PROVE LineInv'
  <2>1. PICK r \in Requests, s \in {"completed", "lost"} :
                /\ stage[r] = "running" /\ stage' = [stage EXCEPT ![r] = s] /\ events' = Append(events, r)
                /\ UNCHANGED <<pending, queues, ticket>>
    BY <1>9
  <2>2. Line(Append(events, r), pending, queues, [stage EXCEPT ![r] = s], ticket)
    BY <1>1, <2>1, FreeEvent
  <2> QED
    BY <2>1, <2>2
<1>10. ASSUME New PROVE LineInv'
  <2>1. PICK r \in Requests :
                /\ stage[r] = "new" /\ stage' = [stage EXCEPT ![r] = "channel"] /\ events' = Append(events, r)
                /\ ticket' = [ticket EXCEPT ![r] = sent + 1] /\ UNCHANGED <<pending, queues>>
    BY <1>10
  <2>2. sent + 1 \in Nat /\ \A y \in Requests : ticket[y] < sent + 1
    BY <1>1 DEF TicketInv
  <2>3. Line(Append(events, r), pending, queues, [stage EXCEPT ![r] = "channel"], [ticket EXCEPT ![r] = sent + 1])
    BY <1>1, <2>1, <2>2, NewEvent
  <2> QED
    BY <2>1, <2>3
<1>11. CASE DropHandles
  BY <1>11 DEF DropHandles, local, history
<1> HIDE DEF Free, Sent, New
<1> QED
  BY <1>3, <1>4, <1>5, <1>6, <1>7, <1>8, <1>9, <1>10, <1>11 DEF Callers, Workers

\* Steps that take the first event of the channel and dispatch nothing.
LEMMA LineReceived ==
    ASSUME TypeOK, ExclusionInv, LineInv,
           \/ \E o \in Ops : PostponeSubmission(o)
           \/ \E b \in Maintenances \cup Flushes : RecvBarrier(b)
           \/ \E m \in Maintenances : RecvMaintenanceCompletion(m)
           \/ \E r \in Ops \cup Maintenances \cup Flushes : RejectLate(r)
           \/ \E c \in Closes : RecvClose(c)
           \/ \E r \in Requests : DrainEvent(r) \/ FailQueued(r)
    PROVE  LineInv'
<1> USE DEF LineInv
<1> DEFINE Out == /\ events # <<>> /\ events' = Tail(events)
                  /\ stage' = [stage EXCEPT ![Head(events)] = "done"]
                  /\ UNCHANGED <<pending, queues, ticket>>
           Postponed == /\ events # <<>> /\ events' = Tail(events) /\ stage[Head(events)] = "channel"
                        /\ stage' = [stage EXCEPT ![Head(events)] = "pending"]
                        /\ pending' = Append(pending, Head(events))
                        /\ UNCHANGED <<queues, ticket>>
<1>1. /\ events \in Seq(Requests) /\ pending \in Seq(Requests) /\ queues \in [Keys -> Seq(Ops)]
      /\ stage \in [Requests -> Stages] /\ ticket \in [Requests -> Nat]
  BY DEF TypeOK
<1>2. ASSUME NEW o \in Ops, PostponeSubmission(o) PROVE Postponed
  BY <1>2 DEF PostponeSubmission, Receive, history
<1>3. ASSUME NEW b \in Maintenances \cup Flushes, RecvBarrier(b) PROVE Postponed
  BY <1>3 DEF RecvBarrier, Receive, history
<1>4. ASSUME NEW m \in Maintenances, RecvMaintenanceCompletion(m) PROVE Out
  BY <1>4 DEF RecvMaintenanceCompletion, Receive, Answer, history
<1>5. ASSUME NEW r, RejectLate(r) PROVE Out
  BY <1>5 DEF RejectLate, Receive, Answer, local, history
<1>6. ASSUME NEW c \in Closes, RecvClose(c) PROVE Out \/ Postponed
  <2>1. events # <<>> /\ c = Head(events) /\ events' = Tail(events)
    BY <1>6 DEF RecvClose, Receive
  <2>2. stage[c] \in InChannel /\ ~Holding(stage, c)
    BY <1>1, <1>6, <2>1, TakeEvent DEF Line, ExclusionInv
  <2>3. stage[c] = "channel"
    BY <2>2 DEF InChannel, Holding
  <2>4. CASE lifecycle \in {"Open", "Closing"}
    BY <1>6, <2>1, <2>3, <2>4 DEF RecvClose, history
  <2>5. CASE lifecycle \notin {"Open", "Closing"}
    BY <1>6, <2>1, <2>5 DEF RecvClose, Answer, history
  <2> QED
    BY <2>4, <2>5
<1>7. ASSUME NEW r \in Requests, DrainEvent(r) \/ FailQueued(r) PROVE Out
  BY <1>7 DEF DrainEvent, FailQueued, Answer, local, history
<1>8. ASSUME Out PROVE LineInv'
  <2>1. Line(Tail(events), pending, queues, [stage EXCEPT ![Head(events)] = "done"], ticket)
    BY <1>1, <1>8, EventOut
  <2> QED
    BY <1>8, <2>1
<1>9. ASSUME Postponed PROVE LineInv'
  <2>1. Line(Tail(events), Append(pending, Head(events)), queues, [stage EXCEPT ![Head(events)] = "pending"], ticket)
    BY <1>1, <1>9, EventPending
  <2> QED
    BY <1>9, <2>1
<1> HIDE DEF Out, Postponed
<1> QED
  BY <1>2, <1>3, <1>4, <1>5, <1>6, <1>7, <1>8, <1>9

\* Steps that take the first pending request and dispatch nothing.
LEMMA LineAdvanced ==
    ASSUME TypeOK, LineInv,
           \/ \E m \in Maintenances : StartMaintenance(m)
           \/ \E f \in Flushes : CompleteFlush(f)
           \/ \E c \in Closes : AnswerPendingClose(c)
    PROVE  LineInv'
<1> USE DEF LineInv
<1>1. /\ events \in Seq(Requests) /\ pending \in Seq(Requests) /\ queues \in [Keys -> Seq(Ops)]
      /\ stage \in [Requests -> Stages] /\ ticket \in [Requests -> Nat]
  BY DEF TypeOK
<1>2. ASSUME NEW m \in Maintenances, StartMaintenance(m) PROVE LineInv'
  <2>1. /\ pending # <<>> /\ m = Head(pending) /\ pending' = Tail(pending) /\ queues' = queues /\ ticket' = ticket
        /\ \/ stage' = [stage EXCEPT ![m] = "job"] /\ events' = events
           \/ stage' = [stage EXCEPT ![m] = "lost"] /\ events' = Append(events, m)
    BY <1>2 DEF StartMaintenance, Advancing, SelfCompletion, history
  <2>2. m \notin Ops
    BY KindsAssumption
  <2>3. Line(events, Tail(pending), queues, [stage EXCEPT ![m] = "job"], ticket)
    BY <1>1, <2>1, <2>2, PendingOut
  <2>4. Line(Append(events, m), Tail(pending), queues, [stage EXCEPT ![m] = "lost"], ticket)
    BY <1>1, <2>1, <2>2, PendingLost
  <2> QED
    BY <2>1, <2>3, <2>4
<1>3. ASSUME NEW r, CompleteFlush(r) \/ AnswerPendingClose(r) PROVE LineInv'
  <2>1. /\ pending # <<>> /\ r = Head(pending) /\ pending' = Tail(pending)
        /\ stage' = [stage EXCEPT ![r] = "done"] /\ UNCHANGED <<events, queues, ticket>>
    BY <1>3 DEF CompleteFlush, AnswerPendingClose, Advancing, Answer, history
  <2>2. Line(events, Tail(pending), queues, [stage EXCEPT ![r] = "done"], ticket)
    BY <1>1, <2>1, PendingOut
  <2> QED
    BY <2>1, <2>2
<1> QED
  BY <1>2, <1>3

\* Steps that dispatch.
LEMMA LineDispatched ==
    ASSUME TypeOK, ExclusionInv, LineInv,
           \/ \E k \in Keys : DispatchAvailable(k)
           \/ \E o \in Ops : QueueSubmission(o) \/ RecvCompletion(o) \/ PromoteSubmission(o)
    PROVE  LineInv'
<1> USE DEF LineInv
<1>1. /\ events \in Seq(Requests) /\ pending \in Seq(Requests) /\ queues \in [Keys -> Seq(Ops)]
      /\ stage \in [Requests -> Stages] /\ ticket \in [Requests -> Nat]
  BY DEF TypeOK
<1>2. ASSUME NEW k \in Keys, DispatchAvailable(k) PROVE LineInv'
  <2>1. DispatchIfIdle(k, active, queues, registry, stage) /\ UNCHANGED <<events, pending, ticket>>
    BY <1>2 DEF DispatchAvailable, history
  <2>2. Line(events, pending, queues', stage', ticket)
    BY <1>1, <2>1, DispatchLine
  <2> QED
    BY <2>1, <2>2
<1>3. ASSUME NEW o \in Ops, QueueSubmission(o) PROVE LineInv'
  <2>1. /\ DispatchIfIdle(KeyOf[o], active, Enqueue(o), registry \cup {KeyOf[o]}, [stage EXCEPT ![o] = "queued"])
        /\ events # <<>> /\ o = Head(events) /\ events' = Tail(events) /\ stage[o] = "channel"
        /\ pending = <<>> /\ UNCHANGED <<pending, ticket>>
    BY <1>3 DEF QueueSubmission, Receive, MustPostpone, history
  <2>2. Line(Tail(events), pending, Enqueue(o), [stage EXCEPT ![o] = "queued"], ticket)
    BY <1>1, <2>1, EventQueued DEF Enqueue
  <2>3. /\ Enqueue(o) \in [Keys -> Seq(Ops)] /\ [stage EXCEPT ![o] = "queued"] \in [Requests -> Stages]
        /\ KeyOf[o] \in Keys /\ Tail(events) \in Seq(Requests)
    BY <1>1, <2>1, EnqueueTyped, KeysAssumption DEF Stages
  <2>4. Line(Tail(events), pending, queues', stage', ticket)
    BY <1>1, <2>1, <2>2, <2>3, DispatchLine
  <2> QED
    BY <2>1, <2>4
<1>4. ASSUME NEW o \in Ops, PromoteSubmission(o) PROVE LineInv'
  <2>1. /\ DispatchIfIdle(KeyOf[o], active, Enqueue(o), registry \cup {KeyOf[o]}, [stage EXCEPT ![o] = "queued"])
        /\ pending # <<>> /\ o = Head(pending) /\ pending' = Tail(pending) /\ UNCHANGED <<events, ticket>>
    BY <1>4 DEF PromoteSubmission, Advancing, history
  <2>2. Line(events, Tail(pending), Enqueue(o), [stage EXCEPT ![o] = "queued"], ticket)
    BY <1>1, <2>1, PendingQueued DEF Enqueue
  <2>3. /\ Enqueue(o) \in [Keys -> Seq(Ops)] /\ [stage EXCEPT ![o] = "queued"] \in [Requests -> Stages]
        /\ KeyOf[o] \in Keys
    BY <1>1, EnqueueTyped, KeysAssumption DEF Stages
  <2>4. Line(events, Tail(pending), queues', stage', ticket)
    BY <1>1, <2>1, <2>2, <2>3, DispatchLine
  <2> QED
    BY <2>1, <2>4
<1>5. ASSUME NEW o \in Ops, RecvCompletion(o) PROVE LineInv'
  <2> DEFINE s == CompletionStage(stage[o])
  <2>1. /\ DispatchIfIdle(KeyOf[o], active \ {KeyOf[o]}, queues, registry, [stage EXCEPT ![o] = CompletionStage(@)])
        /\ events # <<>> /\ o = Head(events) /\ events' = Tail(events) /\ UNCHANGED <<pending, ticket>>
    BY <1>5 DEF RecvCompletion, Receive, history
  <2>2. s \in {"done", "delivering"} /\ (s = "delivering" => stage[o] = "completed" /\ Single(stage))
    BY DEF CompletionStage, ExclusionInv
  <2>3. /\ [stage EXCEPT ![o] = CompletionStage(@)] = [stage EXCEPT ![o] = s]
        /\ [stage EXCEPT ![o] = s] \in [Requests -> Stages] /\ KeyOf[o] \in Keys /\ Tail(events) \in Seq(Requests)
    BY <1>1, <2>1, <2>2, KeysAssumption DEF Stages
  <2> HIDE DEF s
  <2>4. Line(Tail(events), pending, queues, [stage EXCEPT ![o] = s], ticket)
    BY <1>1, <2>1, <2>2, EventOut
  <2>5. DispatchIfIdle(KeyOf[o], active \ {KeyOf[o]}, queues, registry, [stage EXCEPT ![o] = s])
    BY <2>1, <2>3
  <2>6. Line(Tail(events), pending, queues', stage', ticket)
    BY <1>1, <2>3, <2>4, <2>5, DispatchLine
  <2> QED
    BY <2>1, <2>6
<1> QED
  BY <1>2, <1>3, <1>4, <1>5

\* Steps that move no request, and the delivery of a result.
LEMMA LineOther ==
    ASSUME TypeOK, LineInv,
           \/ FinishSubmission \/ FinishCompletion \/ AdvanceReturn \/ ShutdownWorkers
           \/ StopCoordinator \/ HandlesGone \/ Unwound \/ FailExit \/ Terminated \/ UNCHANGED vars
    PROVE  LineInv'
<1>1. CASE ~FinishCompletion
  BY <1>1 DEF LineInv, FinishSubmission, AdvanceReturn, ShutdownWorkers, StopCoordinator, HandlesGone,
              Unwound, FailExit, Terminated, vars, local, history
<1>2. CASE FinishCompletion
  <2>1. UNCHANGED <<events, pending, queues, ticket>>
    BY <1>2 DEF FinishCompletion, history
  <2>2. CASE stage[completing] = "delivering"
    <3>1. completing \in Requests /\ stage' = [stage EXCEPT ![completing] = "done"]
      BY <1>2, <2>2, OpsAreRequests DEF FinishCompletion, Answer, TypeOK
    <3>2. stage[completing] \notin Waiting
      BY <2>2 DEF Waiting, InChannel
    <3>3. Line(events, pending, queues, [stage EXCEPT ![completing] = "done"], ticket)
      BY <3>1, <3>2, FreeMove DEF LineInv, TypeOK
    <3> QED
      BY <2>1, <3>1, <3>3 DEF LineInv
  <2>3. CASE stage[completing] # "delivering"
    BY <1>2, <2>1, <2>3 DEF FinishCompletion, LineInv
  <2> QED
    BY <2>2, <2>3
<1> QED
  BY <1>1, <1>2

LEMMA LineNext == TypeOK /\ ExclusionInv /\ TicketInv /\ LineInv /\ [Next]_vars => LineInv'
BY LineClients, LineReceived, LineAdvanced, LineDispatched, LineOther, PanicLine DEF Next, Scheduler

LEMMA LineInit == Init => LineInv
<1> SUFFICES ASSUME Init PROVE LineInv
  OBVIOUS
<1>1. /\ events = <<>> /\ pending = <<>> /\ (\A k \in Keys : queues[k] = <<>>)
      /\ \A r \in Requests : stage[r] = "new"
  BY DEF Init
<1>2. \A t : Unique(<<>>) /\ Rising(<<>>, t) /\ ChannelOrder(<<>>, stage, t)
  BY DEF Unique, Rising, ChannelOrder
<1>3. "new" \notin InChannel
  BY DEF InChannel
<1>4. StageOrder(stage, ticket)
  BY <1>1, OpsAreRequests DEF StageOrder, Entered, Begun
<1>5. Places(events, pending, queues, stage, None)
  BY <1>1, <1>2, <1>3, EmptyHas, OpsAreRequests DEF Places
<1> QED
  BY <1>1, <1>2, <1>4, <1>5 DEF LineInv, Line

----------------------------------------------------------------------------
(* What changes in a step.                                                 *)

\* A dispatch starts or refuses the front of one queue and touches nothing else.
DispatchMoves(st) ==
    \/ stage' = st /\ reply' = reply
    \/ \E h \in Ops : /\ st[h] = "queued"
                      /\ \/ stage' = [st EXCEPT ![h] = "job"] /\ reply' = reply
                         \/ stage' = [st EXCEPT ![h] = "done"] /\ reply' = [reply EXCEPT ![h] = "WorkerUnavailable"]

LEMMA DispatchDoes ==
    ASSUME NEW ev \in Seq(Requests), NEW pd, NEW q \in [Keys -> Seq(Ops)], NEW st \in [Requests -> Stages], NEW t,
           NEW k \in Keys, NEW act, NEW reg, Line(ev, pd, q, st, t), DispatchIfIdle(k, act, q, reg, st)
    PROVE  DispatchMoves(st)
<1>1. CASE KeyBusy(k, act) \/ AtCapacity(act) \/ q[k] = <<>>
  BY <1>1 DEF DispatchIfIdle, DispatchMoves
<1>2. CASE ~(KeyBusy(k, act) \/ AtCapacity(act) \/ q[k] = <<>>)
  <2>1. Places(ev, pd, q, st, None) /\ q[k] # <<>>
    BY <1>2 DEF Line
  <2>2. Head(q[k]) \in Ops /\ Has(q[k], Head(q[k]))
    BY <2>1, TailHas
  <2>3. st[Head(q[k])] = "queued"
    BY <2>1, <2>2 DEF Places
  <2> QED
    BY <1>2, <2>2, <2>3 DEF DispatchIfIdle, DispatchMoves
<1> QED
  BY <1>1, <1>2

\* How a request leaves each stage, and with what reply.
Kept(r) == reply'[r] = reply[r]

FromNew(r) ==
    \/ /\ stage'[r] = "channel" /\ Kept(r) /\ ticket'[r] = sent + 1
       /\ pc # "exited" /\ lifecycle \in {"Open", "Closing"}
    \/ /\ stage'[r] = "done" /\ ticket'[r] = ticket[r]
       /\ r \in Closes => lifecycle \notin {"Open", "Closing"} /\ reply'[r] = CloseOutcome(lifecycle)
       /\ r \notin Closes =>
             \/ reply'[r] \in {"StoreClosed", "EngineFailed", "MaintenanceCoordinationFailure"}
             \/ r \in Maintenances /\ reply'[r] = "InvalidCleanupAge"

FromChannel(r) ==
    /\ events # <<>> /\ r = Head(events)
    /\ \/ /\ stage'[r] = "pending" /\ Kept(r) /\ pc = "recv"
          /\ IF r \in Closes THEN lifecycle' # "Open" ELSE lifecycle = "Open"
       \/ /\ r \in Ops /\ pc = "recv" /\ lifecycle = "Open"
          /\ (stage'[r] \in {"queued", "job"} /\ Kept(r)) \/ (stage'[r] = "done" /\ reply'[r] = "WorkerUnavailable")
       \/ /\ r \notin Closes /\ stage'[r] = "done"
          /\ \/ reply'[r] = "EngineFailed"
             \/ reply'[r] = "StoreClosed" /\ ((pc = "recv" /\ lifecycle # "Open") \/ pc = "answer")
       \/ /\ r \in Closes /\ stage'[r] = "done"
          /\ \/ reply'[r] = CloseOutcome(lifecycle) /\ ((pc = "recv" /\ lifecycle \notin {"Open", "Closing"}) \/ pc = "answer")
             \/ reply'[r] = "ShutdownFailure" /\ pc = "faildrain"
       \/ r \in Closes /\ stage'[r] = "dropped" /\ Kept(r) /\ pc' = "unwind"

FromPending(r) ==
    \/ /\ pc = "advance" /\ ~maintenanceActive /\ pending # <<>> /\ r = Head(pending)
       /\ \/ r \in Ops /\ ((stage'[r] \in {"queued", "job"} /\ Kept(r)) \/ (stage'[r] = "done" /\ reply'[r] = "WorkerUnavailable"))
          \/ r \in Maintenances /\ Idle /\ ((stage'[r] = "job" /\ Kept(r)) \/ (stage'[r] = "lost" /\ reply'[r] = "WorkerUnavailable"))
          \/ r \in Flushes /\ Idle /\ stage'[r] = "done" /\ reply'[r] = "Ok"
    \/ pc = "answer" /\ r \in Closes /\ stage'[r] = "done" /\ reply'[r] = CloseOutcome(lifecycle)
    \/ pc' = "unwind" /\ r \in Closes /\ stage'[r] = "dropped" /\ Kept(r)
    \/ pc' = "unwind" /\ r \notin Closes /\ stage'[r] = "done" /\ reply'[r] = "EngineFailed"

FromQueued(r) ==
    \/ stage'[r] = "job" /\ Kept(r) /\ pc \in {"recv", "dispatch", "advance"}
    \/ stage'[r] = "done" /\ reply'[r] \in {"WorkerUnavailable", "EngineFailed"}

FromReceived(r) ==
    /\ events # <<>> /\ r = Head(events)
    /\ \/ stage'[r] = "done" /\ ((Kept(r) /\ stage[r] = "lost") \/ (reply[r] = "none" /\ reply'[r] \in {"Ok", "EngineFailed"}))
       \/ /\ r \in Ops /\ stage[r] = "completed" /\ stage'[r] = "delivering" /\ Kept(r)
          /\ completing' = r /\ pc' = "dispatch"

Moved(r) ==
    \/ stage[r] = "new" /\ FromNew(r)
    \/ stage[r] = "channel" /\ FromChannel(r)
    \/ stage[r] = "pending" /\ FromPending(r)
    \/ stage[r] = "queued" /\ FromQueued(r)
    \/ stage[r] = "job" /\ stage'[r] = "running" /\ Kept(r)
    \/ stage[r] = "running" /\ stage'[r] = "completed" /\ Kept(r)
    \/ stage[r] = "running" /\ stage'[r] = "lost" /\ reply'[r] = "EngineFailed"
    \/ stage[r] \in {"completed", "lost"} /\ FromReceived(r)
    \/ stage[r] = "delivering" /\ stage'[r] = "done" /\ reply'[r] \in {"Ok", "EngineFailed"}
    \/ /\ r \in Closes /\ stage[r] = "dropped" /\ stage'[r] = "done"
       /\ reply'[r] = IF lifecycle \in {"Open", "Closing"} THEN "EngineFailed" ELSE CloseOutcome(lifecycle)
    \/ r \in Closes /\ stage[r] = "done" /\ stage'[r] = "joined" /\ Kept(r) /\ pc = "exited"

Moves == \A r \in Requests : (stage'[r] = stage[r] /\ Kept(r)) \/ Moved(r)

\* A step in which at most request x changes moves every request if it moves x.
LEMMA OneMoves ==
    ASSUME NEW x \in Requests, TypeOK, Moved(x),
           NEW s, stage' = [stage EXCEPT ![x] = s],
           reply' = reply \/ \E v : reply' = [reply EXCEPT ![x] = v]
    PROVE  Moves
BY DEF Moves, TypeOK, Kept

LEMMA MovesClients == TypeOK /\ (Callers \/ Workers) => Moves
<1> SUFFICES ASSUME TypeOK, Callers \/ Workers PROVE Moves
  OBVIOUS
<1> USE DEF TypeOK
<1>1. ASSUME NEW r \in Ops \cup Maintenances \cup Flushes, Submit(r) PROVE Moves
  <2>1. r \in Requests /\ r \notin Closes
    BY KindsAssumption DEF Requests
  <2>2. CASE Admitting /\ Admit(r)
    <3>1. stage' = [stage EXCEPT ![r] = "channel"] /\ reply' = reply /\ stage[r] = "new" /\ ticket'[r] = sent + 1
      BY <1>1, <2>1, <2>2 DEF Submit, Admit
    <3>2. Moved(r)
      BY <2>1, <2>2, <3>1 DEF Admitting, Moved, FromNew, Kept
    <3> QED
      BY <2>1, <3>1, <3>2, OneMoves
  <2>3. ASSUME NEW a, Answer(r, a), UNCHANGED history,
               \/ a \in {"StoreClosed", "EngineFailed", "MaintenanceCoordinationFailure"}
               \/ r \in Maintenances /\ a = "InvalidCleanupAge"
        PROVE  Moves
    <3>1. /\ stage' = [stage EXCEPT ![r] = "done"] /\ reply' = [reply EXCEPT ![r] = a] /\ stage[r] = "new"
          /\ ticket' = ticket
      BY <1>1, <2>3 DEF Submit, Answer, history
    <3>2. Moved(r)
      BY <2>1, <2>3, <3>1 DEF Moved, FromNew
    <3> QED
      BY <2>1, <3>1, <3>2, OneMoves
  <2>4. Refusal(r) \in {"StoreClosed", "EngineFailed", "MaintenanceCoordinationFailure"}
    BY DEF Refusal
  <2> QED
    BY <1>1, <2>2, <2>3, <2>4 DEF Submit, MayBeInvalid
<1>2. ASSUME NEW c \in Closes, Close(c) PROVE Moves
  <2>1. c \in Requests
    BY DEF Requests
  <2>2. CASE lifecycle \in {"Open", "Closing"}
    <3>1. /\ stage' = [stage EXCEPT ![c] = "channel"] /\ reply' = reply /\ stage[c] = "new" /\ pc # "exited"
          /\ ticket'[c] = sent + 1
      BY <1>2, <2>1, <2>2 DEF Close, Admit
    <3>2. Moved(c)
      BY <2>1, <2>2, <3>1 DEF Moved, FromNew, Kept
    <3> QED
      BY <2>1, <3>1, <3>2, OneMoves
  <2>3. CASE lifecycle \notin {"Open", "Closing"}
    <3>1. /\ stage' = [stage EXCEPT ![c] = "done"] /\ reply' = [reply EXCEPT ![c] = CloseOutcome(lifecycle)] /\ stage[c] = "new"
          /\ ticket' = ticket
      BY <1>2, <2>3 DEF Close, Answer, history
    <3>2. Moved(c)
      BY <2>1, <2>3, <3>1 DEF Moved, FromNew
    <3> QED
      BY <2>1, <3>1, <3>2, OneMoves
  <2> QED
    BY <2>2, <2>3
<1>3. ASSUME NEW c \in Closes, CloseWake(c) PROVE Moves
  <2> DEFINE v == IF lifecycle \in {"Open", "Closing"} THEN "EngineFailed" ELSE CloseOutcome(lifecycle)
  <2>1. c \in Requests
    BY DEF Requests
  <2>2. stage' = [stage EXCEPT ![c] = "done"] /\ reply' = [reply EXCEPT ![c] = v] /\ stage[c] = "dropped"
    BY <1>3 DEF CloseWake, Answer
  <2>3. reply'[c] = v /\ stage'[c] = "done"
    BY <2>1, <2>2
  <2>4. Moved(c)
    BY <2>2, <2>3 DEF Moved
  <2> QED
    BY <2>1, <2>2, <2>4, OneMoves
<1>4. ASSUME NEW c \in Closes, CloseReturn(c) PROVE Moves
  <2>1. c \in Requests
    BY DEF Requests
  <2>2. stage' = [stage EXCEPT ![c] = "joined"] /\ reply' = reply /\ stage[c] = "done" /\ pc = "exited"
    BY <1>4 DEF CloseReturn, CanJoin
  <2>3. Moved(c)
    BY <2>1, <2>2 DEF Moved, Kept
  <2> QED
    BY <2>1, <2>2, <2>3, OneMoves
<1>5. CASE DropHandles
  BY <1>5 DEF DropHandles, Moves, Kept
<1>6. ASSUME NEW r \in Ops \cup Maintenances, StartJob(r) \/ FinishJob(r) \/ PanicJob(r) PROVE Moves
  <2>1. r \in Requests
    BY DEF Requests
  <2>2. \/ stage' = [stage EXCEPT ![r] = "running"] /\ reply' = reply /\ stage[r] = "job"
        \/ stage' = [stage EXCEPT ![r] = "completed"] /\ reply' = reply /\ stage[r] = "running"
        \/ stage' = [stage EXCEPT ![r] = "lost"] /\ reply' = [reply EXCEPT ![r] = "EngineFailed"] /\ stage[r] = "running"
    BY <1>6 DEF StartJob, FinishJob, PanicJob
  <2>3. Moved(r)
    BY <2>1, <2>2 DEF Moved, Kept
  <2> QED
    BY <2>1, <2>2, <2>3, OneMoves
<1> QED
  BY <1>1, <1>2, <1>3, <1>4, <1>5, <1>6 DEF Callers, Workers

LEMMA MovesReceived ==
    ASSUME TypeOK, ExclusionInv, ReplyInv, LineInv,
           \/ \E o \in Ops : PostponeSubmission(o)
           \/ \E b \in Maintenances \cup Flushes : RecvBarrier(b)
           \/ \E m \in Maintenances : RecvMaintenanceCompletion(m)
           \/ \E r \in Ops \cup Maintenances \cup Flushes : RejectLate(r)
           \/ \E c \in Closes : RecvClose(c)
           \/ \E r \in Requests : DrainEvent(r) \/ FailQueued(r)
    PROVE  Moves
<1>1. stage \in [Requests -> Stages] /\ reply \in [Requests -> Replies] /\ events \in Seq(Requests)
  BY DEF TypeOK
<1>2. ASSUME NEW r \in Requests, events # <<>>, r = Head(events)
      PROVE  /\ stage[r] \in InChannel
             /\ r \in Closes => stage[r] = "channel"
             /\ stage[r] \in {"channel", "completed"} => reply[r] = "none"
  <2>1. stage[r] \in InChannel
    BY <1>1, <1>2, TakeEvent DEF LineInv, Line
  <2>2. r \in Closes => ~Holding(stage, r)
    BY DEF ExclusionInv
  <2> QED
    BY <2>1, <2>2 DEF InChannel, Holding, ReplyInv
<1>3. ASSUME NEW r \in Requests \ Closes, PostponeSubmission(r) \/ RecvBarrier(r) PROVE Moves
  <2>1. /\ events # <<>> /\ r = Head(events) /\ stage[r] = "channel" /\ pc = "recv" /\ lifecycle = "Open"
        /\ stage' = [stage EXCEPT ![r] = "pending"] /\ reply' = reply
    BY <1>3 DEF PostponeSubmission, RecvBarrier, Receive, Accepts
  <2>2. Moved(r)
    BY <1>1, <2>1 DEF Moved, FromChannel, Kept
  <2> QED
    BY <2>1, <2>2, OneMoves
<1>4. ASSUME NEW m \in Maintenances, RecvMaintenanceCompletion(m) PROVE Moves
  <2>1. /\ m \in Requests /\ events # <<>> /\ m = Head(events) /\ stage[m] \in {"completed", "lost"}
        /\ stage' = [stage EXCEPT ![m] = "done"]
        /\ (reply' = reply /\ stage[m] = "lost") \/ (reply' = [reply EXCEPT ![m] = "Ok"] /\ stage[m] = "completed")
    <3>1. CASE stage[m] = "completed"
      BY <1>4, <3>1 DEF RecvMaintenanceCompletion, Receive, Answer, Requests
    <3>2. CASE stage[m] # "completed"
      BY <1>4, <3>2 DEF RecvMaintenanceCompletion, Receive, Requests
    <3> QED
      BY <3>1, <3>2
  <2>2. Moved(m)
    BY <1>1, <1>2, <2>1 DEF Moved, FromReceived, Kept
  <2> QED
    BY <2>1, <2>2, OneMoves
<1>5. ASSUME NEW r \in Requests, RejectLate(r) PROVE Moves
  <2>1. /\ events # <<>> /\ r = Head(events) /\ stage[r] = "channel" /\ pc = "recv" /\ lifecycle # "Open" /\ r \notin Closes
        /\ stage' = [stage EXCEPT ![r] = "done"] /\ reply' = [reply EXCEPT ![r] = "StoreClosed"]
    BY <1>5 DEF RejectLate, Receive, Accepts, Answer
  <2>2. Moved(r)
    BY <1>1, <2>1 DEF Moved, FromChannel
  <2> QED
    BY <2>1, <2>2, OneMoves
<1>6. ASSUME NEW c \in Closes, RecvClose(c) PROVE Moves
  <2>1. /\ c \in Requests /\ events # <<>> /\ c = Head(events) /\ pc = "recv"
        /\ \/ /\ lifecycle \in {"Open", "Closing"} /\ lifecycle' # "Open"
              /\ stage' = [stage EXCEPT ![c] = "pending"] /\ reply' = reply
           \/ /\ lifecycle \notin {"Open", "Closing"}
              /\ stage' = [stage EXCEPT ![c] = "done"] /\ reply' = [reply EXCEPT ![c] = CloseOutcome(lifecycle)]
    BY <1>6 DEF RecvClose, Receive, Answer, Requests
  <2>2. stage[c] = "channel"
    BY <1>2, <2>1
  <2>3. Moved(c)
    BY <1>1, <2>1, <2>2 DEF Moved, FromChannel, Kept
  <2> QED
    BY <2>1, <2>3, OneMoves
<1>7. ASSUME NEW r \in Requests, DrainEvent(r) \/ FailQueued(r) PROVE Moves
  <2>1. PICK v : /\ events # <<>> /\ r = Head(events)
                 /\ stage' = [stage EXCEPT ![r] = "done"] /\ reply' = [reply EXCEPT ![r] = v]
                 /\ reply[r] # "none" => v = reply[r]
                 /\ reply[r] = "none" =>
                      \/ r \in Closes /\ pc = "answer" /\ v = CloseOutcome(lifecycle)
                      \/ r \in Closes /\ pc = "faildrain" /\ v = "ShutdownFailure"
                      \/ r \notin Closes /\ pc = "answer" /\ v = IF stage[r] = "channel" THEN "StoreClosed" ELSE "EngineFailed"
                      \/ r \notin Closes /\ pc = "faildrain" /\ v = "EngineFailed"
    BY <1>7 DEF DrainEvent, FailQueued, Answer, DrainReply
  <2>2. /\ stage[r] \in InChannel /\ (r \in Closes => stage[r] = "channel")
        /\ stage[r] \in {"channel", "completed"} => reply[r] = "none"
    BY <1>2, <2>1
  <2>3. stage'[r] = "done" /\ reply'[r] = v
    BY <1>1, <2>1
  <2>4. Moved(r)
    <3>1. CASE stage[r] = "channel"
      BY <2>1, <2>2, <2>3, <3>1 DEF Moved, FromChannel
    <3>2. CASE stage[r] # "channel"
      <4>1. stage[r] \in {"completed", "lost"}
        BY <2>2, <3>2 DEF InChannel
      <4>2. FromReceived(r)
        BY <2>1, <2>2, <2>3, <3>2, <4>1 DEF FromReceived, Kept
      <4> QED
        BY <4>1, <4>2 DEF Moved
    <3> QED
      BY <3>1, <3>2
  <2> QED
    BY <2>1, <2>4, OneMoves
<1> QED
  BY <1>3, <1>4, <1>5, <1>6, <1>7, KindsAssumption DEF Requests

LEMMA MovesAdvanced ==
    ASSUME TypeOK, LineInv,
           \/ \E m \in Maintenances : StartMaintenance(m)
           \/ \E f \in Flushes : CompleteFlush(f)
           \/ \E c \in Closes : AnswerPendingClose(c)
    PROVE  Moves
<1>1. stage \in [Requests -> Stages] /\ reply \in [Requests -> Replies] /\ pending \in Seq(Requests)
  BY DEF TypeOK
<1>2. pending # <<>> => stage[Head(pending)] = "pending"
  BY <1>1, TakePending DEF LineInv, Line
<1>3. ASSUME NEW m \in Maintenances, StartMaintenance(m) PROVE Moves
  <2>1. /\ m \in Requests /\ pending # <<>> /\ m = Head(pending) /\ pc = "advance" /\ ~maintenanceActive /\ Idle
        /\ \/ stage' = [stage EXCEPT ![m] = "job"] /\ reply' = reply
           \/ stage' = [stage EXCEPT ![m] = "lost"] /\ reply' = [reply EXCEPT ![m] = "WorkerUnavailable"]
    BY <1>3 DEF StartMaintenance, Advancing, Requests
  <2>2. (stage'[m] = "job" /\ Kept(m)) \/ (stage'[m] = "lost" /\ reply'[m] = "WorkerUnavailable")
    BY <1>1, <2>1 DEF Kept
  <2>3. FromPending(m)
    BY <2>1, <2>2 DEF FromPending
  <2>4. Moved(m)
    BY <1>2, <2>1, <2>3 DEF Moved
  <2> QED
    BY <2>1, <2>4, OneMoves
<1>4. ASSUME NEW f \in Flushes, CompleteFlush(f) PROVE Moves
  <2>1. /\ f \in Requests /\ pending # <<>> /\ f = Head(pending) /\ pc = "advance" /\ ~maintenanceActive /\ Idle
        /\ stage' = [stage EXCEPT ![f] = "done"] /\ reply' = [reply EXCEPT ![f] = "Ok"]
    BY <1>4 DEF CompleteFlush, Advancing, Answer, Requests
  <2>2. Moved(f)
    BY <1>1, <1>2, <2>1 DEF Moved, FromPending
  <2> QED
    BY <2>1, <2>2, OneMoves
<1>5. ASSUME NEW c \in Closes, AnswerPendingClose(c) PROVE Moves
  <2>1. /\ c \in Requests /\ pending # <<>> /\ c = Head(pending) /\ pc = "answer"
        /\ stage' = [stage EXCEPT ![c] = "done"] /\ reply' = [reply EXCEPT ![c] = CloseOutcome(lifecycle)]
    BY <1>5 DEF AnswerPendingClose, Answer, Requests
  <2>2. Moved(c)
    BY <1>1, <1>2, <2>1 DEF Moved, FromPending
  <2> QED
    BY <2>1, <2>2, OneMoves
<1> QED
  BY <1>3, <1>4, <1>5

LEMMA MovesDispatched ==
    ASSUME TypeOK, ExclusionInv, LineInv,
           \/ \E k \in Keys : DispatchAvailable(k)
           \/ \E o \in Ops : QueueSubmission(o) \/ RecvCompletion(o) \/ PromoteSubmission(o)
    PROVE  Moves
<1> USE DEF LineInv
<1>1. /\ events \in Seq(Requests) /\ pending \in Seq(Requests) /\ queues \in [Keys -> Seq(Ops)]
      /\ stage \in [Requests -> Stages] /\ ticket \in [Requests -> Nat] /\ reply \in [Requests -> Replies]
  BY DEF TypeOK
<1>2. \A o \in Ops : o \in Requests /\ KeyOf[o] \in Keys
  BY OpsAreRequests, KeysAssumption
<1>3. ASSUME NEW st \in [Requests -> Stages], DispatchMoves(st), pc \in {"recv", "dispatch", "advance"}, NEW r \in Requests
      PROVE  \/ stage'[r] = st[r] /\ Kept(r)
             \/ r \in Ops /\ st[r] = "queued" /\ stage'[r] = "job" /\ Kept(r)
             \/ r \in Ops /\ st[r] = "queued" /\ stage'[r] = "done" /\ reply'[r] = "WorkerUnavailable"
  BY <1>1, <1>2, <1>3 DEF DispatchMoves, Kept
<1>4. ASSUME NEW k \in Keys, DispatchAvailable(k) PROVE Moves
  <2>1. DispatchIfIdle(k, active, queues, registry, stage) /\ pc = "dispatch"
    BY <1>4 DEF DispatchAvailable
  <2>2. DispatchMoves(stage)
    BY <1>1, <2>1, DispatchDoes
  <2> QED
    BY <1>1, <1>3, <2>1, <2>2 DEF Moves, Moved, FromQueued
<1>5. ASSUME NEW o \in Ops, QueueSubmission(o) PROVE Moves
  <2> DEFINE st == [stage EXCEPT ![o] = "queued"]
  <2>1. /\ DispatchIfIdle(KeyOf[o], active, Enqueue(o), registry \cup {KeyOf[o]}, st)
        /\ events # <<>> /\ o = Head(events) /\ stage[o] = "channel" /\ pending = <<>>
        /\ pc = "recv" /\ lifecycle = "Open"
    BY <1>5 DEF QueueSubmission, Receive, MustPostpone, Accepts
  <2>2. Line(Tail(events), pending, Enqueue(o), st, ticket)
    BY <1>1, <2>1, EventQueued DEF Enqueue
  <2>3. /\ Enqueue(o) \in [Keys -> Seq(Ops)] /\ st \in [Requests -> Stages] /\ Tail(events) \in Seq(Requests)
        /\ st[o] = "queued" /\ \A r \in Requests : r # o => st[r] = stage[r]
    BY <1>1, <1>2, <2>1, EnqueueTyped DEF Stages
  <2> HIDE DEF st
  <2>4. DispatchMoves(st)
    BY <1>1, <1>2, <2>1, <2>2, <2>3, DispatchDoes
  <2>5. ASSUME NEW r \in Requests PROVE (stage'[r] = stage[r] /\ Kept(r)) \/ Moved(r)
    <3>1. \/ stage'[r] = st[r] /\ Kept(r)
          \/ r \in Ops /\ st[r] = "queued" /\ stage'[r] = "job" /\ Kept(r)
          \/ r \in Ops /\ st[r] = "queued" /\ stage'[r] = "done" /\ reply'[r] = "WorkerUnavailable"
      BY <1>3, <2>1, <2>3, <2>4
    <3>2. CASE r = o
      <4>1. FromChannel(r)
        BY <2>1, <2>3, <3>1, <3>2 DEF FromChannel
      <4> QED
        BY <2>1, <3>2, <4>1 DEF Moved
    <3>3. CASE r # o
      BY <2>1, <2>3, <3>1, <3>3 DEF Moved, FromQueued
    <3> QED
      BY <3>2, <3>3
  <2> QED
    BY <2>5 DEF Moves
<1>6. ASSUME NEW o \in Ops, PromoteSubmission(o) PROVE Moves
  <2> DEFINE st == [stage EXCEPT ![o] = "queued"]
  <2>1. /\ DispatchIfIdle(KeyOf[o], active, Enqueue(o), registry \cup {KeyOf[o]}, st)
        /\ pending # <<>> /\ o = Head(pending) /\ pc = "advance" /\ ~maintenanceActive
    BY <1>6 DEF PromoteSubmission, Advancing
  <2>2. Line(events, Tail(pending), Enqueue(o), st, ticket)
    BY <1>1, <2>1, PendingQueued DEF Enqueue
  <2>3. /\ Enqueue(o) \in [Keys -> Seq(Ops)] /\ st \in [Requests -> Stages]
        /\ st[o] = "queued" /\ \A r \in Requests : r # o => st[r] = stage[r]
    BY <1>1, <1>2, EnqueueTyped DEF Stages
  <2>4. stage[o] = "pending"
    BY <1>1, <2>1, TakePending DEF Line
  <2> HIDE DEF st
  <2>5. DispatchMoves(st)
    BY <1>1, <1>2, <2>1, <2>2, <2>3, DispatchDoes
  <2>6. ASSUME NEW r \in Requests PROVE (stage'[r] = stage[r] /\ Kept(r)) \/ Moved(r)
    <3>1. \/ stage'[r] = st[r] /\ Kept(r)
          \/ r \in Ops /\ st[r] = "queued" /\ stage'[r] = "job" /\ Kept(r)
          \/ r \in Ops /\ st[r] = "queued" /\ stage'[r] = "done" /\ reply'[r] = "WorkerUnavailable"
      BY <1>3, <2>1, <2>3, <2>5
    <3>2. CASE r = o
      <4>1. FromPending(r)
        BY <2>1, <2>3, <3>1, <3>2 DEF FromPending
      <4> QED
        BY <2>4, <3>2, <4>1 DEF Moved
    <3>3. CASE r # o
      BY <2>1, <2>3, <3>1, <3>3 DEF Moved, FromQueued
    <3> QED
      BY <3>2, <3>3
  <2> QED
    BY <2>6 DEF Moves
<1>7. ASSUME NEW o \in Ops, RecvCompletion(o) PROVE Moves
  <2> DEFINE s == CompletionStage(stage[o])
             st == [stage EXCEPT ![o] = s]
  <2>1. /\ DispatchIfIdle(KeyOf[o], active \ {KeyOf[o]}, queues, registry, st)
        /\ events # <<>> /\ o = Head(events) /\ stage[o] \in {"completed", "lost"}
        /\ pc = "recv" /\ completing' = o /\ pc' = "dispatch"
    BY <1>7 DEF RecvCompletion, Receive
  <2>2. /\ s \in {"done", "delivering"} /\ (s = "delivering" => stage[o] = "completed" /\ Single(stage))
        /\ s = "done" => stage[o] = "lost"
    BY <2>1 DEF CompletionStage, ExclusionInv
  <2> HIDE DEF s
  <2>3. /\ st \in [Requests -> Stages] /\ Tail(events) \in Seq(Requests)
        /\ st[o] = s /\ \A r \in Requests : r # o => st[r] = stage[r]
    BY <1>1, <1>2, <2>1, <2>2 DEF Stages
  <2>4. Line(Tail(events), pending, queues, st, ticket)
    BY <1>1, <2>1, <2>2, EventOut
  <2> HIDE DEF st
  <2>5. DispatchMoves(st)
    BY <1>1, <1>2, <2>1, <2>3, <2>4, DispatchDoes
  <2>6. ASSUME NEW r \in Requests PROVE (stage'[r] = stage[r] /\ Kept(r)) \/ Moved(r)
    <3>1. \/ stage'[r] = st[r] /\ Kept(r)
          \/ r \in Ops /\ st[r] = "queued" /\ stage'[r] = "job" /\ Kept(r)
          \/ r \in Ops /\ st[r] = "queued" /\ stage'[r] = "done" /\ reply'[r] = "WorkerUnavailable"
      BY <1>3, <2>1, <2>3, <2>5
    <3>2. CASE r = o
      <4>1. stage'[r] = s /\ Kept(r)
        BY <2>2, <2>3, <3>1, <3>2
      <4>2. FromReceived(r)
        BY <2>1, <2>2, <3>2, <4>1 DEF FromReceived
      <4> QED
        BY <2>1, <3>2, <4>2 DEF Moved
    <3>3. CASE r # o
      BY <2>1, <2>3, <3>1, <3>3 DEF Moved, FromQueued
    <3> QED
      BY <3>2, <3>3
  <2> QED
    BY <2>6 DEF Moves
<1> QED
  BY <1>4, <1>5, <1>6, <1>7

LEMMA MovesPanic == TypeOK /\ ExclusionInv /\ KindInv /\ ReplyInv /\ LineInv /\ CoordinatorPanic => Moves
<1> SUFFICES ASSUME TypeOK, ExclusionInv, KindInv, ReplyInv, LineInv, CoordinatorPanic, NEW r \in Requests
             PROVE  (stage'[r] = stage[r] /\ Kept(r)) \/ Moved(r)
  BY DEF Moves
<1>1. /\ pc' = "unwind"
      /\ pc = "recv" => events # <<>>
      /\ r \notin Unwinding => stage'[r] = stage[r]
      /\ r \in Unwinding => stage'[r] = IF r \in Closes THEN "dropped" ELSE "done"
      /\ reply'[r] = IF r \in Unwinding \ Closes /\ reply[r] = "none" THEN "EngineFailed" ELSE reply[r]
  BY DEF CoordinatorPanic
<1>2. CASE r \notin Unwinding
  BY <1>1, <1>2 DEF Kept
<1>3. CASE r \in Unwinding /\ stage[r] \in {"pending", "queued", "delivering"}
  <2>1. reply[r] = "none"
    BY <1>3 DEF ReplyInv
  <2>2. r \in Closes => stage[r] = "pending"
    BY <1>3, KindsAssumption DEF KindInv
  <2>3. CASE r \in Closes
    BY <1>1, <1>3, <2>2, <2>3 DEF Moved, FromPending, Kept
  <2>4. CASE r \notin Closes
    BY <1>1, <1>3, <2>1, <2>4 DEF Moved, FromPending, FromQueued
  <2> QED
    BY <2>3, <2>4
<1>4. CASE r \in Unwinding /\ stage[r] \notin {"pending", "queued", "delivering"}
  <2>1. events # <<>> /\ r = Head(events)
    BY <1>1, <1>4 DEF Unwinding, InHand
  <2>2. stage[r] \in InChannel
    BY <2>1, TakeEvent DEF LineInv, Line, TypeOK
  <2>3. r \in Closes => ~Holding(stage, r)
    BY DEF ExclusionInv
  <2>4. CASE stage[r] = "channel"
    <3>1. reply[r] = "none"
      BY <2>4 DEF ReplyInv
    <3>2. FromChannel(r)
      BY <1>1, <1>4, <2>1, <3>1 DEF FromChannel, Kept
    <3> QED
      BY <2>4, <3>2 DEF Moved
  <2>5. CASE stage[r] # "channel"
    <3>1. stage[r] \in {"completed", "lost"} /\ r \notin Closes
      BY <2>2, <2>3, <2>5 DEF InChannel, Holding
    <3>2. stage[r] = "completed" => reply[r] = "none"
      BY DEF ReplyInv
    <3>3. FromReceived(r)
      BY <1>1, <1>4, <2>1, <3>1, <3>2 DEF FromReceived, Kept
    <3> QED
      BY <3>1, <3>3 DEF Moved
  <2> QED
    BY <2>4, <2>5
<1> QED
  BY <1>2, <1>3, <1>4

LEMMA MovesOther ==
    ASSUME TypeOK,
           \/ FinishSubmission \/ FinishCompletion \/ AdvanceReturn \/ ShutdownWorkers
           \/ StopCoordinator \/ HandlesGone \/ Unwound \/ FailExit \/ Terminated \/ UNCHANGED vars
    PROVE  Moves
<1>1. CASE ~FinishCompletion
  BY <1>1 DEF Moves, Kept, FinishSubmission, AdvanceReturn, ShutdownWorkers, StopCoordinator, HandlesGone,
              Unwound, FailExit, Terminated, vars
<1>2. CASE FinishCompletion
  <2>1. CASE stage[completing] = "delivering"
    <3>1. completing \in Requests /\ stage' = [stage EXCEPT ![completing] = "done"] /\ reply' = [reply EXCEPT ![completing] = "Ok"]
      BY <1>2, <2>1, OpsAreRequests DEF FinishCompletion, Answer, TypeOK
    <3>2. Moved(completing)
      BY <2>1, <3>1 DEF Moved, TypeOK
    <3> QED
      BY <3>1, <3>2, OneMoves
  <2>2. CASE stage[completing] # "delivering"
    BY <1>2, <2>2 DEF FinishCompletion, Moves, Kept
  <2> QED
    BY <2>1, <2>2
<1> QED
  BY <1>1, <1>2

\* Every step moves requests as Moves says.
LEMMA MovesNext == TypeOK /\ ExclusionInv /\ KindInv /\ ReplyInv /\ LineInv /\ [Next]_vars => Moves
BY MovesClients, MovesReceived, MovesAdvanced, MovesDispatched, MovesPanic, MovesOther DEF Next, Scheduler

----------------------------------------------------------------------------
(* Replies and tickets.                                                    *)

LEMMA ReplyNext == TypeOK /\ KindInv /\ ReplyInv /\ Moves => ReplyInv'
<1> SUFFICES ASSUME TypeOK, KindInv, ReplyInv, Moves, NEW r \in Requests, stage'[r] \notin {"lost", "done", "joined"}
             PROVE  reply'[r] = "none"
  BY DEF ReplyInv
<1>1. CASE stage'[r] = stage[r] /\ Kept(r)
  BY <1>1 DEF ReplyInv, Kept
<1>2. CASE Moved(r)
  <2>1. Kept(r) /\ stage[r] \notin {"lost", "done", "joined"}
    BY <1>2 DEF Moved, FromNew, FromChannel, FromPending, FromQueued, FromReceived
  <2> QED
    BY <2>1 DEF ReplyInv, Kept
<1> QED
  BY <1>1, <1>2 DEF Moves

\* Only an admission gives out a ticket.
LEMMA TicketStep ==
    ASSUME [Next]_vars
    PROVE  UNCHANGED history \/ \E r \in Requests : stage[r] = "new" /\ Admit(r)
<1>1. ASSUME NEW r \in Ops \cup Maintenances \cup Flushes, Submit(r)
      PROVE  UNCHANGED history \/ (stage[r] = "new" /\ Admit(r))
  BY <1>1 DEF Submit
<1>2. ASSUME NEW c \in Closes, Close(c)
      PROVE  UNCHANGED history \/ (stage[c] = "new" /\ Admit(c))
  BY <1>2 DEF Close
<1>3. CASE Callers
  BY <1>1, <1>2, <1>3 DEF Callers, CloseWake, CloseReturn, DropHandles, Requests
<1>4. CASE Workers \/ CoordinatorPanic \/ Terminated \/ UNCHANGED vars
  BY <1>4 DEF Workers, CoordinatorPanic, Terminated, vars, StartJob, FinishJob, PanicJob
<1>5. CASE Scheduler
  BY <1>5 DEF Scheduler, DispatchAvailable, PostponeSubmission, QueueSubmission, RecvCompletion,
              PromoteSubmission, RecvMaintenanceCompletion, StartMaintenance, CompleteFlush,
              RecvBarrier, RejectLate, RecvClose, AnswerPendingClose, DrainEvent, FailQueued,
              FinishSubmission, FinishCompletion, AdvanceReturn, ShutdownWorkers, StopCoordinator,
              HandlesGone, Unwound, FailExit
<1> QED
  BY <1>3, <1>4, <1>5 DEF Next

LEMMA TicketNext == TypeOK /\ TicketInv /\ Moves /\ [Next]_vars => TicketInv'
<1> SUFFICES ASSUME TypeOK, TicketInv, Moves, [Next]_vars PROVE TicketInv'
  OBVIOUS
<1>1. sent \in Nat /\ ticket \in [Requests -> Nat]
  BY DEF TypeOK
<1>2. ASSUME NEW r \in Requests
      PROVE  /\ stage'[r] = "new" => stage[r] = "new"
             /\ stage'[r] \notin {"new", "done", "joined"} =>
                    stage[r] \notin {"new", "done", "joined"} \/ ticket'[r] = sent + 1
  BY DEF Moves, Moved, FromNew, FromChannel, FromPending, FromQueued, FromReceived
<1>3. CASE UNCHANGED history
  BY <1>1, <1>2, <1>3 DEF history, TicketInv
<1>4. ASSUME NEW x \in Requests, stage[x] = "new", Admit(x) PROVE TicketInv'
  <2>1. /\ sent' = sent + 1 /\ ticket'[x] = sent + 1 /\ \A r \in Requests : r # x => ticket'[r] = ticket[r]
        /\ stage'[x] = "channel"
    BY <1>1, <1>4 DEF Admit, TypeOK
  <2>2. \A r \in Requests : ticket'[r] <= sent'
    BY <1>1, <2>1 DEF TicketInv
  <2>3. \A r, s \in Requests : ticket'[r] = ticket'[s] /\ ticket'[r] > 0 => r = s
    BY <1>1, <2>1 DEF TicketInv
  <2>4. \A r \in Requests : stage'[r] = "new" => ticket'[r] = 0
    BY <1>2, <2>1 DEF TicketInv
  <2>5. \A r \in Requests : stage'[r] \notin {"new", "done", "joined"} => ticket'[r] > 0
    BY <1>1, <1>2, <2>1 DEF TicketInv
  <2> QED
    BY <2>2, <2>3, <2>4, <2>5 DEF TicketInv
<1> QED
  BY <1>3, <1>4, TicketStep

----------------------------------------------------------------------------
(* The point in the scheduler's loop.                                      *)

\* Callers and workers change nothing that the coordinator owns.
LEMMA ClientsKeep == Callers \/ Workers => UNCHANGED <<local, pc, lifecycle, workers>>
BY DEF Callers, Workers, Submit, Close, CloseWake, CloseReturn, DropHandles, StartJob, FinishJob, PanicJob

\* How the coordinator comes to dispatch, and how it leaves off.
LEMMA DispatchPoint ==
    ASSUME [Next]_vars
    PROVE  /\ pc' = "dispatch" => \/ pc = "dispatch" /\ UNCHANGED <<maintenanceActive, completing, pending>>
                                  \/ \E o \in Ops : QueueSubmission(o) \/ RecvCompletion(o)
           /\ completing' # completing => \/ \E o \in Ops : RecvCompletion(o)
                                          \/ FinishCompletion \/ CoordinatorPanic
           /\ pc = "dispatch" => pc' = "dispatch" \/ FinishSubmission \/ FinishCompletion \/ CoordinatorPanic
<1> DEFINE P == /\ pc' = "dispatch" => \/ pc = "dispatch" /\ UNCHANGED <<maintenanceActive, completing, pending>>
                                       \/ \E o \in Ops : QueueSubmission(o) \/ RecvCompletion(o)
                /\ completing' # completing => \/ \E o \in Ops : RecvCompletion(o)
                                               \/ FinishCompletion \/ CoordinatorPanic
                /\ pc = "dispatch" => pc' = "dispatch" \/ FinishSubmission \/ FinishCompletion \/ CoordinatorPanic
<1>1. ASSUME Callers \/ Workers PROVE P
  BY <1>1, ClientsKeep DEF local
<1>2. ASSUME CoordinatorPanic PROVE P
  BY <1>2 DEF CoordinatorPanic
<1>3. ASSUME Terminated \/ UNCHANGED vars PROVE P
  BY <1>3 DEF Terminated, vars, local
<1>4. ASSUME NEW k \in Keys, DispatchAvailable(k) PROVE P
  BY <1>4 DEF DispatchAvailable
<1>5. ASSUME NEW o \in Ops, PostponeSubmission(o) PROVE P
  BY <1>5 DEF PostponeSubmission, Receive
<1>6. ASSUME NEW o \in Ops, QueueSubmission(o) PROVE P
  BY <1>6 DEF QueueSubmission, Receive
<1>7. ASSUME NEW o \in Ops, RecvCompletion(o) PROVE P
  BY <1>7 DEF RecvCompletion, Receive
<1>8. ASSUME NEW o \in Ops, PromoteSubmission(o) PROVE P
  BY <1>8 DEF PromoteSubmission, Advancing
<1>9. ASSUME NEW m, RecvMaintenanceCompletion(m) \/ StartMaintenance(m) PROVE P
  BY <1>9 DEF RecvMaintenanceCompletion, StartMaintenance, Receive, Advancing
<1>10. ASSUME NEW r, CompleteFlush(r) \/ RecvBarrier(r) \/ RejectLate(r) \/ RecvClose(r) PROVE P
  BY <1>10 DEF CompleteFlush, RecvBarrier, RejectLate, RecvClose, Receive, Advancing, local
<1>11. ASSUME NEW r, AnswerPendingClose(r) \/ DrainEvent(r) \/ FailQueued(r) PROVE P
  BY <1>11 DEF AnswerPendingClose, DrainEvent, FailQueued, local
<1>12. ASSUME FinishSubmission \/ FinishCompletion PROVE P
  BY <1>12 DEF FinishSubmission, FinishCompletion, NextPoint, local
<1>13. ASSUME AdvanceReturn \/ ShutdownWorkers \/ StopCoordinator \/ HandlesGone \/ Unwound \/ FailExit PROVE P
  BY <1>13 DEF AdvanceReturn, NextPoint, ShutdownWorkers, StopCoordinator, HandlesGone, Unwound, FailExit, local
<1> HIDE DEF P
<1>14. P
  BY <1>1, <1>2, <1>3, <1>4, <1>5, <1>6, <1>7, <1>8, <1>9, <1>10, <1>11, <1>12, <1>13 DEF Next, Scheduler
<1> QED
  BY <1>14 DEF P

\* A received completion leaves the channel for good.
LEMMA CompletionLeaves ==
    ASSUME TypeOK, LineInv, LineInv', Moves, NEW o \in Ops, RecvCompletion(o)
    PROVE  /\ stage[o] \in {"completed", "lost"} /\ stage'[o] \in {"done", "delivering"}
           /\ completing' = o /\ pc = "recv" /\ pc' = "dispatch"
<1>1. /\ stage[o] \in {"completed", "lost"} /\ completing' = o /\ pc = "recv" /\ pc' = "dispatch"
      /\ events # <<>> /\ o = Head(events) /\ events' = Tail(events)
  BY DEF RecvCompletion, Receive
<1>2. o \in Requests /\ events \in Seq(Requests)
  BY OpsAreRequests DEF TypeOK
<1>3. ~Has(events', o)
  BY <1>1, <1>2, TailHas DEF LineInv, Line, Places
<1>4. stage'[o] \notin InChannel
  <2>1. Has(events', o) <=> o # None /\ stage'[o] \in InChannel
    BY <1>2 DEF LineInv, Line, Places
  <2> QED
    BY <1>2, <1>3, <2>1, KindsAssumption
<1>5. Moved(o)
  BY <1>1, <1>2, <1>4 DEF Moves, InChannel
<1> QED
  BY <1>1, <1>5 DEF Moved, FromReceived

LEMMA KindNext ==
    ASSUME TypeOK, ExclusionInv, KindInv, LineInv, LineInv', Moves, [Next]_vars
    PROVE  KindInv'
<1>1. \A r \in Requests \ Ops : stage'[r] \notin {"queued", "delivering"}
  BY DEF KindInv, Moves, Moved, FromNew, FromChannel, FromPending, FromQueued, FromReceived
<1>2. \A r \in Requests \ Closes : stage'[r] \notin {"dropped", "joined"}
  BY DEF KindInv, Moves, Moved, FromNew, FromChannel, FromPending, FromQueued, FromReceived
<1>3. completing \in Ops \cup {None} /\ None \notin Requests /\ \A o \in Ops : o \in Requests /\ o \notin Closes
  BY OpsAreRequests, KindsAssumption DEF TypeOK
<1>4. ASSUME completing # None, completing' = completing
      PROVE  pc' = "dispatch" /\ stage'[completing] \in {"delivering", "done"}
  <2>1. completing \in Requests \ Closes /\ pc = "dispatch" /\ stage[completing] \in {"delivering", "done"}
    BY <1>3, <1>4 DEF KindInv
  <2>2. stage'[completing] \in {"delivering", "done"}
    BY <2>1 DEF Moves, Moved
  <2>3. ~FinishSubmission /\ ~FinishCompletion /\ ~CoordinatorPanic
    BY <1>4 DEF FinishSubmission, FinishCompletion, CoordinatorPanic
  <2> QED
    BY <2>1, <2>2, <2>3, DispatchPoint
<1>5. completing' # None => pc' = "dispatch" /\ stage'[completing'] \in {"delivering", "done"}
  <2>1. CASE completing' = completing
    BY <1>4, <2>1
  <2>2. ASSUME NEW o \in Ops, RecvCompletion(o) PROVE pc' = "dispatch" /\ stage'[completing'] \in {"delivering", "done"}
    BY <2>2, CompletionLeaves
  <2>3. CASE FinishCompletion \/ CoordinatorPanic
    BY <2>3 DEF FinishCompletion, CoordinatorPanic
  <2> QED
    BY <2>1, <2>2, <2>3, DispatchPoint
<1>6. ASSUME NEW r \in Requests, stage'[r] = "delivering" PROVE r = completing'
  <2>1. stage[r] = "delivering" \/ completing' = r
    BY <1>6 DEF Moves, Moved, FromNew, FromChannel, FromPending, FromQueued, FromReceived
  <2>2. CASE stage[r] = "delivering" /\ completing' # completing
    <3>1. r = completing /\ completing # None /\ pc = "dispatch"
      BY <1>3, <2>2 DEF KindInv
    <3>2. \A o \in Ops : ~RecvCompletion(o)
      BY <3>1 DEF RecvCompletion, Receive
    <3>3. stage'[r] = "done"
      <4>1. CASE FinishCompletion
        BY <2>2, <3>1, <4>1 DEF FinishCompletion, Answer, TypeOK
      <4>2. CASE CoordinatorPanic
        BY <1>3, <2>2, <3>1, <4>2 DEF CoordinatorPanic, Unwinding
      <4> QED
        BY <2>2, <3>2, <4>1, <4>2, DispatchPoint
    <3> QED
      BY <1>6, <3>3
  <2>3. CASE stage[r] = "delivering" /\ completing' = completing
    BY <2>3 DEF KindInv
  <2> QED
    BY <2>1, <2>2, <2>3
<1>7. pc' = "dispatch" => ~maintenanceActive'
  <2>1. CASE pc = "dispatch" /\ UNCHANGED maintenanceActive
    BY <2>1 DEF KindInv
  <2>2. ASSUME NEW o \in Ops, QueueSubmission(o) PROVE ~maintenanceActive'
    BY <2>2 DEF QueueSubmission, MustPostpone
  <2>3. ASSUME NEW o \in Ops, RecvCompletion(o) PROVE ~maintenanceActive'
    <3>1. Serving /\ Holding(stage, o) /\ maintenanceActive' = maintenanceActive
      BY <2>3 DEF RecvCompletion, Receive, Serving, Holding
    <3> QED
      BY <3>1 DEF ExclusionInv, Covered, Idle
  <2> QED
    BY <2>1, <2>2, <2>3, DispatchPoint
<1> QED
  BY <1>1, <1>2, <1>5, <1>6, <1>7 DEF KindInv

----------------------------------------------------------------------------
(* Order per key, and one answer per request.                              *)

OrderInv == TypeOK /\ ExclusionInv /\ KindInv /\ ReplyInv /\ TicketInv /\ LineInv

LEMMA OrderInit == Init => OrderInv
<1> SUFFICES ASSUME Init PROVE OrderInv
  OBVIOUS
<1>1. TypeOK /\ ExclusionInv /\ LineInv
  BY TypeInit, ExclusionInit, LineInit
<1>2. /\ \A r \in Requests : stage[r] = "new" /\ reply[r] = "none" /\ ticket[r] = 0
      /\ completing = None /\ pc = "recv" /\ sent = 0
  BY DEF Init
<1>3. KindInv /\ ReplyInv /\ TicketInv
  BY <1>2 DEF KindInv, ReplyInv, TicketInv
<1> QED
  BY <1>1, <1>3 DEF OrderInv

LEMMA OrderNext == OrderInv /\ [Next]_vars => OrderInv' /\ Moves
<1> SUFFICES ASSUME OrderInv, [Next]_vars PROVE OrderInv' /\ Moves
  OBVIOUS
<1> USE DEF OrderInv
<1>1. TypeOK' /\ ExclusionInv'
  BY TypeNext, ExclusionNext
<1>2. LineInv' /\ Moves
  BY LineNext, MovesNext
<1>3. KindInv' /\ ReplyInv' /\ TicketInv'
  BY <1>2, KindNext, ReplyNext, TicketNext
<1> QED
  BY <1>1, <1>2, <1>3

LEMMA OrderInvariant == Spec => []OrderInv
BY OrderInit, OrderNext, PTL DEF Spec

\* Operations on one key execute in the order of their admission, for any number of
\* keys, requests and workers and whatever fails: an earlier one may wait in the
\* channel, behind a barrier or in its key's queue, and a later one is then behind
\* it in the same place or a place before it (dispatch_if_idle, enqueue_operation,
\* advance_pending_if_ready).
THEOREM KeysInOrder == Spec => []PerKeyFIFO
<1>1. OrderInv => PerKeyFIFO
  <2> SUFFICES ASSUME OrderInv, NEW o \in Ops, NEW p \in Ops, Before(o, p), KeyOf[o] = KeyOf[p], Started(p)
               PROVE  stage[o] \in {"completed", "lost", "delivering", "done"}
    BY DEF PerKeyFIFO
  <2> USE DEF OrderInv
  <2>1. o \in Requests \ Closes /\ p \in Requests /\ ticket[o] \in Nat /\ ticket[p] \in Nat /\ stage[o] \in Stages
    BY OpsAreRequests, KindsAssumption DEF TypeOK
  <2>2. ticket[o] > 0 /\ ticket[o] < ticket[p] /\ o # p /\ ~(ticket[p] < ticket[o])
    BY <2>1 DEF Before, Admitted
  <2>3. StageOrder(stage, ticket) /\ Begun(stage, p)
    BY DEF LineInv, Line, Begun, Started
  <2>4. stage[o] # "new" /\ stage[o] \notin {"dropped", "joined"}
    BY <2>1, <2>2 DEF TicketInv, KindInv
  <2>5. stage[o] # "channel"
    BY <2>1, <2>2, <2>3 DEF StageOrder, Begun
  <2>6. stage[o] # "pending"
    BY <2>1, <2>2, <2>3 DEF StageOrder, Entered
  <2>7. stage[o] # "queued"
    BY <2>1, <2>2, <2>3 DEF StageOrder
  <2>8. stage[o] \notin {"job", "running"}
    <3>1. CASE Holding(stage, p)
      BY <2>2, <3>1 DEF ExclusionInv, Single, Holding
    <3>2. CASE stage[p] = "delivering"
      BY <2>2, <2>3, <3>2 DEF StageOrder, Holding
    <3> QED
      BY <2>3, <3>1, <3>2 DEF Begun, Holding
  <2> QED
    BY <2>1, <2>4, <2>5, <2>6, <2>7, <2>8 DEF Stages
<1> QED
  BY <1>1, OrderInvariant, PTL

\* A request is answered at most once, also when a drain, a late completion or an
\* unwinding coordinator meets a request whose caller has its answer already.
THEOREM OneReply == Spec => ReplyOnce
<1>1. OrderInv /\ [Next]_vars => [\A r \in Requests : reply[r] # "none" => reply'[r] = reply[r]]_vars
  <2> SUFFICES ASSUME OrderInv, Moves, NEW r \in Requests, reply[r] # "none" PROVE reply'[r] = reply[r]
    BY OrderNext
  <2>1. stage[r] \in {"lost", "done", "joined"}
    BY DEF OrderInv, ReplyInv
  <2> QED
    BY <2>1 DEF Moves, Moved, FromReceived, Kept
<1> QED
  BY <1>1, OrderInvariant, PTL DEF Spec, ReplyOnce

----------------------------------------------------------------------------
(* Order around barriers.                                                  *)

\* A step changes who came before a request only by admitting it.
LEMMA BeforeKept ==
    ASSUME OrderInv, Moves, [Next]_vars, NEW r \in Requests, NEW s \in Requests,
           Before(r, s)', stage'[s] # "channel"
    PROVE  Before(r, s)
<1> USE DEF OrderInv, Before, Admitted
<1>1. sent \in Nat /\ ticket \in [Requests -> Nat] /\ stage \in [Requests -> Stages]
  BY DEF TypeOK
<1>2. ASSUME NEW x \in Requests, stage[x] = "new", Admit(x) PROVE Before(r, s)
  <2>1. /\ ticket'[x] = sent + 1 /\ stage'[x] = "channel"
        /\ \A y \in Requests : y # x => ticket'[y] = ticket[y]
    BY <1>1, <1>2 DEF Admit
  <2>2. x # s /\ ticket'[s] = ticket[s] /\ ticket[s] <= sent
    BY <2>1 DEF TicketInv
  <2>3. x # r
    BY <1>1, <2>1, <2>2
  <2> QED
    BY <2>1, <2>2, <2>3
<1>3. CASE UNCHANGED history
  BY <1>3 DEF history
<1> QED
  BY <1>2, <1>3, TicketStep

\* When the first pending request is let past an idle engine, everything before it
\* has been answered.
LEMMA AheadDone ==
    ASSUME OrderInv, pc = "advance", ~maintenanceActive, Idle, pending # <<>>,
           NEW r \in Ops \cup Maintenances, Before(r, Head(pending))
    PROVE  stage[r] = "done"
<1> DEFINE b == Head(pending)
<1> USE DEF OrderInv
<1>1. r \in Requests \ Closes /\ stage[r] \in Stages /\ ticket \in [Requests -> Nat] /\ pending \in Seq(Requests)
  BY KindsAssumption DEF TypeOK, Requests
<1>2. b \in Requests /\ stage[b] = "pending"
  BY <1>1, TakePending DEF LineInv, Line
<1>3. \A y \in Requests : y # b /\ stage[y] = "pending" => ticket[b] < ticket[y]
  BY <1>1, PendingFront DEF LineInv
<1>4. Before(r, b)
  OBVIOUS
<1> HIDE DEF b
<1>5. ticket[r] > 0 /\ ~(ticket[b] < ticket[r]) /\ r # b
  BY <1>1, <1>2, <1>4 DEF Before, Admitted
<1>6. stage[r] # "new" /\ stage[r] \notin {"dropped", "joined"}
  BY <1>1, <1>5 DEF TicketInv, KindInv
<1>7. stage[r] # "channel"
  BY <1>1, <1>2, <1>5 DEF LineInv, Line, StageOrder
<1>8. stage[r] # "pending"
  BY <1>1, <1>3, <1>5
<1>9. stage[r] # "queued"
  <2>1. r \notin Ops => stage[r] # "queued"
    BY <1>1 DEF KindInv
  <2>2. r \in Ops => KeyOf[r] \in Keys /\ r # None
    BY <1>1, KeysAssumption, KindsAssumption
  <2>3. r \in Ops /\ stage[r] = "queued" => Has(queues[KeyOf[r]], r)
    BY <2>2 DEF LineInv, Line, Places
  <2>4. r \in Ops => queues[KeyOf[r]] = <<>>
    BY <2>2 DEF Idle
  <2> QED
    BY <2>1, <2>3, <2>4, EmptyHas
<1>10. ~Holding(stage, r)
  BY DEF ExclusionInv, Serving, Covered, Flagged, Idle
<1>11. stage[r] # "delivering"
  BY <1>1, KindsAssumption DEF KindInv, TypeOK
<1> QED
  BY <1>1, <1>6, <1>7, <1>8, <1>9, <1>10, <1>11 DEF Stages, Holding

\* What waits or runs as a barrier keeps later operations from starting.
LEMMA BehindWaits ==
    ASSUME OrderInv, NEW b \in Flushes \cup Maintenances, NEW o \in Ops, Before(b, o), Started(o)
    PROVE  stage[b] \notin {"channel", "pending"} /\ ~InFlight(b)
<1> USE DEF OrderInv
<1>1. b \in Requests /\ o \in Requests /\ ticket \in [Requests -> Nat] /\ ~(ticket[o] < ticket[b]) /\ o # b
  BY KindsAssumption DEF TypeOK, Requests, Before
<1>2. Begun(stage, o) /\ StageOrder(stage, ticket)
  BY DEF Started, Begun, LineInv, Line
<1>3. stage[b] # "channel"
  BY <1>1, <1>2 DEF StageOrder, Begun
<1>4. stage[b] # "pending"
  BY <1>1, <1>2 DEF StageOrder, Entered
<1>5. ASSUME InFlight(b) PROVE FALSE
  <2>1. b \in Maintenances /\ Holding(stage, b)
    BY <1>5 DEF ExclusionInv, InFlight, Holding
  <2>2. ~Holding(stage, o)
    BY <1>1, <2>1 DEF ExclusionInv, Alone
  <2>3. stage[o] = "delivering"
    BY <1>2, <2>2 DEF Begun, Holding
  <2>4. pc = "dispatch" /\ ~maintenanceActive
    BY <1>1, <2>3, KindsAssumption DEF KindInv
  <2> QED
    BY <2>1, <2>4 DEF ExclusionInv, Serving, Flagged
<1> QED
  BY <1>3, <1>4, <1>5

\* The parts of BarrierOrder: what was before a barrier, and what is behind one.
AheadAnswered ==
    /\ \A f \in Flushes, r \in Ops \cup Maintenances : reply[f] = "Ok" /\ Before(r, f) => stage[r] = "done"
    /\ \A m \in Maintenances, r \in Ops : Started(m) /\ Before(r, m) => stage[r] = "done"
BehindHeld ==
    \A b \in Flushes \cup Maintenances, o \in Ops :
        Before(b, o) /\ (stage[b] \in {"channel", "pending"} \/ InFlight(b)) => ~Started(o)

LEMMA AheadNext == OrderInv /\ AheadAnswered /\ [Next]_vars => AheadAnswered'
<1> SUFFICES ASSUME OrderInv, AheadAnswered, [Next]_vars PROVE AheadAnswered'
  OBVIOUS
<1>1. OrderInv' /\ Moves
  BY OrderNext
<1>2. \A r \in Requests \ Closes : stage[r] = "done" => stage'[r] = "done"
  BY <1>1 DEF Moves, Moved
<1>3. ASSUME NEW f \in Flushes, NEW r \in Ops \cup Maintenances, reply'[f] = "Ok", Before(r, f)'
      PROVE  stage'[r] = "done"
  <2>1. f \in Requests /\ f \notin Closes \cup Ops \cup Maintenances /\ r \in Requests \ Closes
    BY KindsAssumption DEF Requests
  <2>2. stage'[f] # "channel"
    BY <1>1, <1>3, <2>1 DEF OrderInv, ReplyInv
  <2>3. Before(r, f)
    BY <1>1, <1>3, <2>1, <2>2, BeforeKept
  <2>4. CASE reply[f] = "Ok"
    BY <1>2, <2>1, <2>3, <2>4 DEF AheadAnswered
  <2>5. CASE reply[f] # "Ok"
    <3>1. Moved(f)
      BY <1>1, <1>3, <2>1, <2>5 DEF Moves, Kept
    <3>2. stage[f] # "new"
      BY <2>1, <2>3 DEF OrderInv, TicketInv, Before, Admitted, TypeOK
    <3>3. ~Holding(stage, f) /\ stage[f] # "delivering" /\ stage[f] # "queued"
      BY <2>1 DEF OrderInv, ExclusionInv, KindInv
    <3>4. stage[f] = "channel" \/ stage[f] = "pending"
      BY <2>1, <3>1, <3>2, <3>3 DEF Moved, Holding
    <3>5. stage[f] = "pending"
      <4>1. CASE stage[f] = "channel"
        <5>1. FromChannel(f)
          BY <3>1, <4>1 DEF Moved
        <5>2. reply[f] = "none"
          BY <2>1, <4>1 DEF OrderInv, ReplyInv
        <5> QED
          BY <1>3, <2>1, <5>1, <5>2 DEF FromChannel, Kept
      <4> QED
        BY <3>4, <4>1
    <3>6. FromPending(f)
      BY <3>1, <3>5 DEF Moved
    <3>7. pc = "advance" /\ ~maintenanceActive /\ Idle /\ pending # <<>> /\ f = Head(pending)
      BY <1>3, <2>1, <3>6 DEF FromPending
    <3>8. stage[r] = "done"
      BY <2>3, <3>7, AheadDone
    <3> QED
      BY <1>2, <2>1, <3>8
  <2> QED
    BY <2>4, <2>5
<1>4. ASSUME NEW m \in Maintenances, NEW r \in Ops, Started(m)', Before(r, m)'
      PROVE  stage'[r] = "done"
  <2>1. m \in Requests /\ m \notin Closes \cup Ops \cup Flushes /\ r \in Requests \ Closes /\ r \in Ops \cup Maintenances
    BY KindsAssumption DEF Requests
  <2>2. stage'[m] \in {"job", "running", "completed", "lost", "delivering"}
    BY <1>4 DEF Started
  <2>3. Before(r, m)
    BY <1>1, <1>4, <2>1, <2>2, BeforeKept
  <2>4. CASE Started(m)
    BY <1>2, <2>1, <2>3, <2>4 DEF AheadAnswered
  <2>5. CASE ~Started(m)
    <3>1. Moved(m)
      BY <1>1, <2>1, <2>2, <2>5 DEF Moves, Started
    <3>2. stage[m] # "queued"
      BY <2>1 DEF OrderInv, KindInv
    <3>3. stage[m] = "pending" /\ FromPending(m)
      BY <2>1, <2>2, <2>5, <3>1, <3>2 DEF Moved, Started, FromNew, FromChannel
    <3>4. pc = "advance" /\ ~maintenanceActive /\ Idle /\ pending # <<>> /\ m = Head(pending)
      BY <2>1, <2>2, <3>3 DEF FromPending
    <3>5. stage[r] = "done"
      BY <2>1, <2>3, <3>4, AheadDone
    <3> QED
      BY <1>2, <2>1, <3>5
  <2> QED
    BY <2>4, <2>5
<1> QED
  BY <1>3, <1>4 DEF AheadAnswered

\* A flush that succeeded and a cleanup that was given to a worker had everything
\* before them answered, and nothing behind an unfinished barrier has started
\* (advance_pending_if_ready and the postponing of submissions).
THEOREM BarriersInOrder == Spec => []BarrierOrder
<1>1. Init => AheadAnswered
  <2> SUFFICES ASSUME Init PROVE AheadAnswered
    OBVIOUS
  <2>1. \A r \in Requests : ticket[r] = 0
    BY DEF Init
  <2> QED
    BY <2>1 DEF AheadAnswered, Before, Admitted, Requests
<1>2. OrderInv => BehindHeld
  BY BehindWaits DEF BehindHeld
<1>3. AheadAnswered /\ BehindHeld => BarrierOrder
  BY DEF AheadAnswered, BehindHeld, BarrierOrder
<1> QED
  BY <1>1, <1>2, <1>3, AheadNext, OrderInvariant, PTL DEF Spec

----------------------------------------------------------------------------
(* The lifecycle.  It follows the coordinator's way through its loop, and  *)
(* leaves Open when the first close is received.                           *)

PhaseInv ==
    /\ pc \in {"recv", "dispatch", "advance", "shutdown"} => lifecycle \in {"Open", "Closing"}
    /\ pc = "shutdown" => lifecycle = "Closing"
    /\ pc = "answer" => lifecycle \in {"Closed", "ShutdownFailed"}
    /\ pc = "faildrain" => lifecycle = "Failed"
    /\ pc = "exited" => lifecycle \in {"Closed", "ShutdownFailed", "Failed"}
    /\ lifecycle = "Failed" => pc \in {"faildrain", "exited"}

\* While the store is open no close has been received, and once it is closing one has.
ClosingInv ==
    /\ Serving /\ lifecycle = "Open" => \A c \in Closes : stage[c] \in {"new", "channel"}
    /\ lifecycle = "Closing" \/ pc = "answer" => \E c \in Closes : Admitted(c) /\ stage[c] # "channel"

\* Unless the coordinator panicked, a close has the outcome that the lifecycle shows.
AgreeInv ==
    pc # "unwind" /\ lifecycle # "Failed" =>
        \A c \in Closes :
            /\ stage[c] # "dropped"
            /\ reply[c] # "none" => lifecycle \in {"Closed", "ShutdownFailed"} /\ reply[c] = CloseOutcome(lifecycle)

\* Closes are the last to wait: nothing is accepted behind one.
LastInv ==
    \A r \in Requests \ Closes, c \in Closes :
        stage[r] = "pending" /\ stage[c] = "pending" => ticket[r] < ticket[c]

LifeInv == PhaseInv /\ ClosingInv /\ AgreeInv /\ LastInv

\* The steps that change the lifecycle or take the coordinator on.
Turn ==
    \/ pc = "recv" /\ pc' \in {"dispatch", "advance"} /\ lifecycle' = lifecycle
    \/ pc = "dispatch" /\ pc' = "advance" /\ lifecycle' = lifecycle
    \/ pc \in {"dispatch", "advance"} /\ pc' = NextPoint /\ UNCHANGED <<lifecycle, local, events, stage>>
Stop ==
    \/ ShutdownWorkers \/ StopCoordinator \/ HandlesGone
    \/ Unwound \/ FailExit \/ CoordinatorPanic

LEMMA LifeStep ==
    ASSUME [Next]_vars
    PROVE  UNCHANGED <<pc, lifecycle>> \/ Turn \/ (\E c \in Closes : RecvClose(c)) \/ Stop
<1> DEFINE P == UNCHANGED <<pc, lifecycle>> \/ Turn \/ (\E c \in Closes : RecvClose(c)) \/ Stop
<1>1. ASSUME Callers \/ Workers \/ Terminated \/ UNCHANGED vars PROVE P
  BY <1>1, ClientsKeep DEF Terminated, vars
<1>2. ASSUME NEW k \in Keys, DispatchAvailable(k) PROVE P
  BY <1>2 DEF DispatchAvailable
<1>3. ASSUME NEW o \in Ops, PostponeSubmission(o) \/ PromoteSubmission(o) PROVE P
  BY <1>3 DEF PostponeSubmission, PromoteSubmission
<1>4. ASSUME NEW o \in Ops, QueueSubmission(o) \/ RecvCompletion(o) PROVE P
  BY <1>4 DEF QueueSubmission, RecvCompletion, Receive, Turn
<1>5. ASSUME NEW m, RecvMaintenanceCompletion(m) \/ RecvBarrier(m) PROVE P
  BY <1>5 DEF RecvMaintenanceCompletion, RecvBarrier, Receive, Turn
<1>6. ASSUME NEW r, StartMaintenance(r) \/ CompleteFlush(r) \/ RejectLate(r) PROVE P
  BY <1>6 DEF StartMaintenance, CompleteFlush, RejectLate
<1>7. ASSUME NEW r, AnswerPendingClose(r) \/ DrainEvent(r) \/ FailQueued(r) PROVE P
  BY <1>7 DEF AnswerPendingClose, DrainEvent, FailQueued
<1>8. ASSUME FinishSubmission \/ AdvanceReturn PROVE P
  BY <1>8 DEF FinishSubmission, AdvanceReturn, DispatchDone, Turn
<1>9. ASSUME FinishCompletion PROVE P
  BY <1>9 DEF FinishCompletion, DispatchDone, Turn
<1> HIDE DEF P
<1>10. (\E c \in Closes : RecvClose(c)) \/ Stop => P
  BY DEF P
<1>11. P
  BY <1>1, <1>2, <1>3, <1>4, <1>5, <1>6, <1>7, <1>8, <1>9, <1>10 DEF Next, Scheduler, Stop
<1> QED
  BY <1>11 DEF P

\* A request that is not new keeps its ticket.
LEMMA TicketKept ==
    ASSUME TypeOK, [Next]_vars, NEW r \in Requests, stage[r] # "new"
    PROVE  ticket'[r] = ticket[r]
BY TicketStep DEF history, Admit, TypeOK

LEMMA PhaseNext ==
    ASSUME OrderInv, PhaseInv, ClosingInv, [Next]_vars
    PROVE  PhaseInv'
<1>1. ASSUME FrontIn(Closes), pc \in {"dispatch", "advance"} PROVE lifecycle = "Closing"
  <2>1. Head(pending) \in Closes /\ stage[Head(pending)] = "pending"
    BY <1>1, TakePending DEF FrontIn, OrderInv, TypeOK, LineInv, Line
  <2> QED
    BY <1>1, <2>1 DEF ClosingInv, PhaseInv, Serving
<1>2. CASE UNCHANGED <<pc, lifecycle>>
  BY <1>2 DEF PhaseInv
<1>3. CASE Turn
  BY <1>1, <1>3 DEF Turn, PhaseInv, NextPoint, ShutdownReady
<1>4. ASSUME NEW c \in Closes, RecvClose(c) PROVE PhaseInv'
  BY <1>4 DEF RecvClose, Receive, PhaseInv
<1>5. CASE ShutdownWorkers
  BY <1>5 DEF ShutdownWorkers, JoinOutcomes, PhaseInv
<1>6. CASE StopCoordinator \/ HandlesGone \/ Unwound \/ FailExit
  BY <1>6 DEF StopCoordinator, HandlesGone, Unwound, FailExit, PhaseInv
<1>7. CASE CoordinatorPanic
  BY <1>7 DEF CoordinatorPanic, PhaseInv
<1> QED
  BY <1>2, <1>3, <1>4, <1>5, <1>6, <1>7, LifeStep DEF Stop

\* The lifecycle never goes back, and a coordinator that stopped serving never serves again.
LEMMA NoReturn ==
    ASSUME [Next]_vars, PhaseInv
    PROVE  /\ lifecycle' = "Open" => lifecycle = "Open"
           /\ lifecycle' = "Closing" => lifecycle = "Closing" \/ \E c \in Closes : RecvClose(c)
           /\ lifecycle' \in {"Closed", "ShutdownFailed"} => lifecycle' = lifecycle \/ ShutdownWorkers \/ HandlesGone
           /\ Serving' => Serving
           /\ pc' = "answer" => pc = "answer" \/ ShutdownWorkers
           /\ lifecycle = "Failed" => lifecycle' = "Failed"
           /\ pc' = "unwind" => pc = "unwind" \/ CoordinatorPanic
<1> DEFINE P == /\ lifecycle' = "Open" => lifecycle = "Open"
                /\ lifecycle' = "Closing" => lifecycle = "Closing" \/ \E c \in Closes : RecvClose(c)
                /\ lifecycle' \in {"Closed", "ShutdownFailed"} => lifecycle' = lifecycle \/ ShutdownWorkers \/ HandlesGone
                /\ Serving' => Serving
                /\ pc' = "answer" => pc = "answer" \/ ShutdownWorkers
                /\ lifecycle = "Failed" => lifecycle' = "Failed"
                /\ pc' = "unwind" => pc = "unwind" \/ CoordinatorPanic
<1>1. ASSUME UNCHANGED <<pc, lifecycle>> PROVE P
  BY <1>1 DEF Serving
<1>2. ASSUME Turn PROVE P
  BY <1>2 DEF Turn, Serving, NextPoint
<1>3. ASSUME NEW c \in Closes, RecvClose(c) PROVE P
  BY <1>3 DEF RecvClose, Receive, Serving
<1>4. ASSUME Stop PROVE P
  BY <1>4 DEF Stop, ShutdownWorkers, JoinOutcomes, StopCoordinator, HandlesGone, Unwound, FailExit, CoordinatorPanic,
              Serving, PhaseInv
<1> HIDE DEF P
<1>5. P
  BY <1>1, <1>2, <1>3, <1>4, LifeStep
<1> QED
  BY <1>5 DEF P

LEMMA ClosingNext ==
    ASSUME OrderInv, Moves, PhaseInv, ClosingInv, [Next]_vars
    PROVE  ClosingInv'
<1>1. Closes \subseteq Requests
  BY DEF Requests
<1>2. ASSUME Serving', lifecycle' = "Open", NEW c \in Closes PROVE stage'[c] \in {"new", "channel"}
  <2>1. Serving /\ lifecycle = "Open"
    BY <1>2, NoReturn
  <2>2. stage[c] \in {"new", "channel"} /\ pc \notin {"answer", "faildrain"} /\ pc' # "unwind" /\ c \notin Ops
    BY <1>2, <2>1, KindsAssumption DEF ClosingInv, PhaseInv, Serving
  <2> QED
    BY <1>1, <1>2, <2>1, <2>2 DEF Moves, Moved, FromNew, FromChannel
<1>3. ASSUME NEW c \in Closes, Admitted(c), stage[c] # "channel" PROVE Admitted(c)' /\ stage'[c] # "channel"
  <2>1. stage[c] # "new"
    BY <1>1, <1>3 DEF OrderInv, TicketInv, Admitted, TypeOK
  <2>2. ticket'[c] = ticket[c]
    BY <1>1, <2>1, TicketKept DEF OrderInv
  <2> QED
    BY <1>1, <1>3, <2>1, <2>2 DEF Admitted, Moves, Moved, FromPending, FromQueued, FromReceived
<1>4. ASSUME lifecycle = "Closing" \/ pc = "answer" PROVE \E c \in Closes : Admitted(c)' /\ stage'[c] # "channel"
  BY <1>3, <1>4 DEF ClosingInv
<1>5. ASSUME NEW c \in Closes, RecvClose(c), lifecycle = "Open" PROVE Admitted(c)' /\ stage'[c] # "channel"
  <2>1. stage' = [stage EXCEPT ![c] = "pending"] /\ events # <<>> /\ c = Head(events)
    BY <1>5 DEF RecvClose, Receive
  <2>2. stage[c] \in InChannel
    BY <1>1, <2>1, TakeEvent DEF OrderInv, LineInv, Line, TypeOK
  <2>3. ticket[c] > 0 /\ ticket'[c] = ticket[c]
    BY <1>1, <2>2, TicketKept DEF OrderInv, TicketInv, InChannel
  <2> QED
    BY <1>1, <2>1, <2>3 DEF Admitted, OrderInv, TypeOK
<1>6. ASSUME lifecycle' = "Closing" \/ pc' = "answer" PROVE \E c \in Closes : Admitted(c)' /\ stage'[c] # "channel"
  <2>1. CASE lifecycle = "Closing" \/ pc = "answer"
    BY <1>4, <2>1
  <2>2. CASE ShutdownWorkers
    BY <1>4, <2>2 DEF ShutdownWorkers, PhaseInv
  <2>3. ASSUME NEW c \in Closes, RecvClose(c), lifecycle # "Closing" PROVE lifecycle = "Open"
    BY <2>3 DEF RecvClose, Receive, PhaseInv
  <2> QED
    BY <1>5, <1>6, <2>1, <2>2, <2>3, NoReturn
<1> QED
  BY <1>2, <1>6 DEF ClosingInv

LEMMA AgreeNext ==
    ASSUME OrderInv, Moves, PhaseInv, AgreeInv, [Next]_vars
    PROVE  AgreeInv'
<1> SUFFICES ASSUME pc' # "unwind", lifecycle' # "Failed", NEW c \in Closes
             PROVE  /\ stage'[c] # "dropped"
                    /\ reply'[c] # "none" => lifecycle' \in {"Closed", "ShutdownFailed"} /\ reply'[c] = CloseOutcome(lifecycle')
  BY DEF AgreeInv
<1>1. c \in Requests /\ c \notin Ops \cup Maintenances \cup Flushes /\ ~Holding(stage, c) /\ stage[c] \notin {"queued", "delivering"}
  BY KindsAssumption DEF Requests, OrderInv, ExclusionInv, KindInv
<1>2. pc # "unwind" /\ lifecycle # "Failed"
  <2>1. lifecycle # "Failed"
    BY NoReturn
  <2>2. ~Unwound
    BY DEF Unwound
  <2>3. pc = "unwind" => pc' = "unwind"
    <3>1. pc = "unwind" => ~Turn /\ ~Stop /\ \A d \in Closes : ~RecvClose(d)
      BY <2>2 DEF Turn, Stop, ShutdownWorkers, StopCoordinator, HandlesGone, FailExit, CoordinatorPanic, RecvClose, Receive
    <3> QED
      BY <3>1, LifeStep
  <2> QED
    BY <2>1, <2>3
<1>3. stage[c] # "dropped" /\ (reply[c] # "none" => lifecycle \in {"Closed", "ShutdownFailed"} /\ reply[c] = CloseOutcome(lifecycle))
  BY <1>2 DEF AgreeInv
<1>4. pc # "faildrain" /\ (pc = "answer" => lifecycle \in {"Closed", "ShutdownFailed"})
  BY <1>2 DEF PhaseInv
<1>5. lifecycle \in {"Closed", "ShutdownFailed"} => lifecycle' = lifecycle
  <2>1. lifecycle \in {"Open", "Closing", "Closed", "ShutdownFailed"}
    BY <1>2 DEF OrderInv, TypeOK, Lifecycles
  <2>2. lifecycle' \in {"Open", "Closing", "Closed", "ShutdownFailed"}
    BY TypeNext DEF OrderInv, TypeOK, Lifecycles
  <2>3. lifecycle \in {"Closed", "ShutdownFailed"} => /\ ~ShutdownWorkers /\ ~HandlesGone
                                                      /\ \A d \in Closes : ~RecvClose(d)
    BY DEF ShutdownWorkers, HandlesGone, RecvClose, Receive, PhaseInv
  <2> QED
    BY <2>1, <2>2, <2>3, NoReturn
<1>6. stage'[c] # "dropped"
  BY <1>1, <1>3 DEF Moves, Moved, FromNew, FromChannel, FromPending, FromQueued, FromReceived
<1>7. Kept(c) \/ (lifecycle \in {"Closed", "ShutdownFailed"} /\ reply'[c] = CloseOutcome(lifecycle))
  <2>1. lifecycle \notin {"Open", "Closing"} => lifecycle \in {"Closed", "ShutdownFailed"}
    BY <1>2 DEF OrderInv, TypeOK, Lifecycles
  <2>2. CASE stage'[c] = stage[c] /\ Kept(c)
    BY <2>2
  <2>3. CASE stage[c] = "new" /\ FromNew(c)
    BY <2>1, <2>3 DEF FromNew
  <2>4. CASE stage[c] = "channel" /\ FromChannel(c)
    BY <1>1, <1>4, <2>1, <2>4 DEF FromChannel
  <2>5. CASE stage[c] = "pending" /\ FromPending(c)
    BY <1>1, <1>4, <2>5 DEF FromPending
  <2> QED
    BY <1>1, <1>3, <2>2, <2>3, <2>4, <2>5 DEF Moves, Moved, Holding
<1> QED
  BY <1>3, <1>5, <1>6, <1>7 DEF Kept

LEMMA LastNext ==
    ASSUME OrderInv, Moves, ClosingInv, LastInv, [Next]_vars
    PROVE  LastInv'
<1> SUFFICES ASSUME NEW r \in Requests \ Closes, NEW c \in Closes, stage'[r] = "pending", stage'[c] = "pending"
             PROVE  ticket'[r] < ticket'[c]
  BY DEF LastInv
<1>1. c \in Requests /\ r \in Requests /\ r # c
  BY DEF Requests
<1>2. ASSUME NEW x \in Requests, stage'[x] = "pending"
      PROVE  \/ stage[x] = "pending"
             \/ /\ stage[x] = "channel" /\ events # <<>> /\ x = Head(events)
                /\ pc = "recv" /\ (x \notin Closes => lifecycle = "Open")
  BY <1>2 DEF Moves, Moved, FromNew, FromChannel, FromPending, FromQueued, FromReceived
<1>3. ticket'[r] = ticket[r] /\ ticket'[c] = ticket[c]
  BY <1>1, <1>2, TicketKept DEF OrderInv
<1>4. CASE stage[r] = "pending" /\ stage[c] = "pending"
  BY <1>3, <1>4 DEF LastInv
<1>5. CASE stage[r] = "pending" /\ stage[c] = "channel"
  BY <1>1, <1>3, <1>5 DEF OrderInv, LineInv, Line, StageOrder
<1>6. CASE stage[r] = "channel" /\ stage[c] = "pending"
  BY <1>1, <1>2, <1>6 DEF ClosingInv, Serving
<1> QED
  BY <1>1, <1>2, <1>4, <1>5, <1>6

LEMMA LifeInit == Init => LifeInv
<1> SUFFICES ASSUME Init PROVE LifeInv
  OBVIOUS
<1>1. /\ lifecycle = "Open" /\ pc = "recv" /\ Closes \subseteq Requests
      /\ \A r \in Requests : stage[r] = "new" /\ reply[r] = "none"
  BY DEF Init, Requests
<1> QED
  BY <1>1 DEF LifeInv, PhaseInv, ClosingInv, AgreeInv, LastInv

LEMMA LifeNext == OrderInv /\ LifeInv /\ [Next]_vars => LifeInv'
BY OrderNext, PhaseNext, ClosingNext, AgreeNext, LastNext DEF LifeInv

\* Every close call of an engine whose coordinator did not panic learns the same
\* outcome, whether it was pending at the shutdown, drained from the channel or
\* came later (EngineHandle::close and the end of run_scheduler).
THEOREM ClosesAgree == Spec => []CloseAgreement
<1>1. LifeInv => CloseAgreement
  BY DEF LifeInv, AgreeInv, CloseAgreement
<1> QED
  BY <1>1, LifeInit, LifeNext, OrderInvariant, PTL DEF Spec

----------------------------------------------------------------------------
(* What the coordinator has seen to when it waits for the next event.      *)

Served == AtCapacity(active) \/ \A k \in Keys : ~Eligible(k)
Blocked == maintenanceActive \/ pending = <<>> \/ (FrontIn(Maintenances \cup Flushes \cup Closes) /\ ~Idle)

LoopInv ==
    /\ pc \in {"recv", "advance"} => Served
    /\ pc = "recv" => Blocked
    /\ pc = "dispatch" /\ completing = None => pending = <<>>
    /\ pc \in {"shutdown", "answer"} => Idle /\ ~maintenanceActive

\* A promoted submission is dispatched at once if it can be.
LEMMA PromotedServed ==
    ASSUME TypeOK, Served, NEW o \in Ops, PromoteSubmission(o)
    PROVE  Served'
<1> DEFINE k == KeyOf[o]
           q == Enqueue(o)
<1>1. k \in Keys /\ queues \in [Keys -> Seq(Ops)]
  BY KeysAssumption DEF TypeOK
<1>2. q[k] = Append(queues[k], o) /\ q \in [Keys -> Seq(Ops)] /\ \A j \in Keys : j # k => q[j] = queues[j]
  BY <1>1 DEF Enqueue
<1>3. DispatchIfIdle(k, active, q, registry \cup {k}, [stage EXCEPT ![o] = "queued"])
  BY DEF PromoteSubmission
<1>4. q[k] # <<>>
  BY <1>1, <1>2
<1> HIDE DEF q
<1>5. CASE k \in active \/ AtCapacity(active)
  <2>1. active' = active /\ queues' = q
    BY <1>3, <1>5 DEF DispatchIfIdle, KeyBusy
  <2>2. CASE AtCapacity(active)
    BY <2>1, <2>2 DEF Served, AtCapacity
  <2>3. CASE ~AtCapacity(active)
    <3>1. \A j \in Keys : ~(queues[j] # <<>> /\ j \notin active)
      BY <2>3 DEF Served, Eligible
    <3>2. \A j \in Keys : ~(queues'[j] # <<>> /\ j \notin active')
      BY <1>2, <1>5, <2>1, <2>3, <3>1
    <3> QED
      BY <3>2 DEF Served, Eligible
  <2> QED
    BY <2>2, <2>3
<1>6. CASE ~(k \in active \/ AtCapacity(active))
  <2>1. queues[k] = <<>> /\ \A j \in Keys : ~(queues[j] # <<>> /\ j \notin active)
    BY <1>1, <1>6 DEF Served, Eligible
  <2>2. Tail(q[k]) = <<>>
    BY <1>2, <2>1
  <2>3. queues' = [q EXCEPT ![k] = Tail(q[k])] /\ (active' = active \/ active' = active \cup {k})
    BY <1>3, <1>4, <1>6 DEF DispatchIfIdle, KeyBusy
  <2>4. queues'[k] = <<>> /\ \A j \in Keys : j # k => queues'[j] = queues[j]
    BY <1>1, <1>2, <2>2, <2>3
  <2>5. \A j \in Keys : ~(queues'[j] # <<>> /\ j \notin active')
    BY <2>1, <2>3, <2>4
  <2> QED
    BY <2>5 DEF Served, Eligible
<1> QED
  BY <1>5, <1>6

LEMMA LoopNext ==
    ASSUME TypeOK, LoopInv, [Next]_vars
    PROVE  LoopInv'
<1> DEFINE P == LoopInv'
<1>1. ASSUME UNCHANGED <<local, pc>> PROVE P
  BY <1>1 DEF LoopInv, Served, Blocked, AtCapacity, Eligible, FrontIn, Idle, local
<1>2. ASSUME Callers \/ Workers \/ Terminated \/ UNCHANGED vars PROVE P
  BY <1>1, <1>2, ClientsKeep DEF Terminated, vars
<1>3. ASSUME NEW k \in Keys, DispatchAvailable(k) PROVE P
  BY <1>3 DEF DispatchAvailable, LoopInv
<1>4. ASSUME NEW o \in Ops, PostponeSubmission(o) PROVE P
  <2>1. /\ UNCHANGED <<queues, active, maintenanceActive, pc, completing>>
        /\ pc = "recv" /\ pending' = Append(pending, o) /\ (maintenanceActive \/ pending # <<>>)
    BY <1>4 DEF PostponeSubmission, Receive, MustPostpone
  <2>2. pending # <<>> => Head(pending') = Head(pending) /\ pending' # <<>>
    BY <2>1, OpsAreRequests DEF TypeOK
  <2> QED
    BY <2>1, <2>2 DEF LoopInv, Served, Blocked, AtCapacity, Eligible, FrontIn, Idle
<1>5. ASSUME NEW o \in Ops, QueueSubmission(o) PROVE P
  BY <1>5 DEF QueueSubmission, MustPostpone, LoopInv
<1>6. ASSUME NEW o \in Ops, RecvCompletion(o) PROVE P
  <2>1. o # None
    BY OpsAreRequests, KindsAssumption
  <2> QED
    BY <1>6, <2>1 DEF RecvCompletion, LoopInv
<1>7. ASSUME NEW o \in Ops, PromoteSubmission(o) PROVE P
  <2>1. pc = "advance" /\ pc' = "advance"
    BY <1>7 DEF PromoteSubmission, Advancing
  <2>2. Served'
    BY <1>7, <2>1, PromotedServed DEF LoopInv
  <2> QED
    BY <2>1, <2>2 DEF LoopInv
<1>8. ASSUME NEW r, RecvMaintenanceCompletion(r) \/ RecvBarrier(r) \/ RecvClose(r) \/ StartMaintenance(r) \/ CompleteFlush(r)
      PROVE  P
  <2>1. pc \in {"recv", "advance"} /\ pc' = "advance" /\ UNCHANGED <<queues, active>>
    BY <1>8 DEF RecvMaintenanceCompletion, RecvBarrier, RecvClose, StartMaintenance, CompleteFlush, Receive, Advancing
  <2> QED
    BY <2>1 DEF LoopInv, Served, AtCapacity, Eligible
<1>9. ASSUME NEW r, RejectLate(r) \/ DrainEvent(r) \/ FailQueued(r) PROVE P
  BY <1>1, <1>9 DEF RejectLate, DrainEvent, FailQueued
<1>10. ASSUME NEW c, AnswerPendingClose(c) PROVE P
  BY <1>10 DEF AnswerPendingClose, LoopInv, Idle
<1>11. ASSUME FinishSubmission PROVE P
  <2>1. pending = <<>> /\ Served /\ UNCHANGED local
    BY <1>11 DEF FinishSubmission, DispatchDone, LoopInv, Served
  <2>2. pc' = "recv"
    BY <1>11, <2>1 DEF FinishSubmission, NextPoint, ShutdownReady, FrontIn
  <2> QED
    BY <2>1, <2>2 DEF LoopInv, Served, Blocked, AtCapacity, Eligible, local
<1>12. ASSUME FinishCompletion PROVE P
  BY <1>12 DEF FinishCompletion, DispatchDone, LoopInv, Served, AtCapacity, Eligible
<1>13. ASSUME AdvanceReturn PROVE P
  <2>1. Served /\ UNCHANGED local
    BY <1>13 DEF AdvanceReturn, LoopInv
  <2>2. pc' = "recv" \/ (pc' = "shutdown" /\ Idle /\ ~maintenanceActive)
    BY <1>13 DEF AdvanceReturn, NextPoint, ShutdownReady
  <2>3. pc' = "recv" => Blocked
    BY <1>13 DEF AdvanceReturn, NextPoint, ShutdownReady, Blocked, FrontIn
  <2> QED
    BY <2>1, <2>2, <2>3 DEF LoopInv, Served, Blocked, AtCapacity, Eligible, FrontIn, Idle, local
<1>14. ASSUME Stop PROVE P
  BY <1>14 DEF Stop, ShutdownWorkers, StopCoordinator, HandlesGone, Unwound, FailExit, CoordinatorPanic, LoopInv, Idle, local
<1> HIDE DEF P
<1>15. P
  BY <1>2, <1>3, <1>4, <1>5, <1>6, <1>7, <1>8, <1>9, <1>10, <1>11, <1>12, <1>13, <1>14 DEF Next, Scheduler, Stop
<1> QED
  BY <1>15 DEF P

----------------------------------------------------------------------------
(* Whatever a serving coordinator counts as active is with a worker or on  *)
(* its way back.                                                           *)

Held(st, act) == \A k \in act : \E o \in Ops : Holding(st, o) /\ KeyOf[o] = k
Cleaning(st) == \E m \in Maintenances : Holding(st, m)

BusyInv == Serving => Held(stage, active) /\ (maintenanceActive => Cleaning(stage))

\* A dispatch gives each key it adds a holder and takes none away.
LEMMA DispatchHeld ==
    ASSUME NEW ev \in Seq(Requests), NEW pd, NEW q \in [Keys -> Seq(Ops)], NEW st \in [Requests -> Stages], NEW t,
           NEW k \in Keys, NEW act, NEW reg, Line(ev, pd, q, st, t), Keyed(q), Held(st, act),
           DispatchIfIdle(k, act, q, reg, st)
    PROVE  Held(stage', active') /\ \A r \in Requests : Holding(st, r) => Holding(stage', r)
<1>1. CASE KeyBusy(k, act) \/ AtCapacity(act) \/ q[k] = <<>>
  BY <1>1 DEF DispatchIfIdle
<1>2. CASE ~(KeyBusy(k, act) \/ AtCapacity(act) \/ q[k] = <<>>)
  <2> DEFINE h == Head(q[k])
  <2>1. Places(ev, pd, q, st, None) /\ q[k] # <<>> /\ q[k] \in Seq(Ops)
    BY <1>2 DEF Line
  <2>2. h \in Ops /\ Has(q[k], h)
    BY <2>1, TailHas
  <2>3. st[h] = "queued" /\ KeyOf[h] = k /\ h \in Requests
    BY <2>1, <2>2, OpsAreRequests DEF Places
  <2>4. \/ stage' = [st EXCEPT ![h] = "job"] /\ active' = act \cup {k}
        \/ stage' = [st EXCEPT ![h] = "done"] /\ active' = act
    BY <1>2 DEF DispatchIfIdle
  <2> HIDE DEF h
  <2>5. \A r \in Requests : Holding(st, r) => Holding(stage', r)
    BY <2>3, <2>4 DEF Holding
  <2>6. active' = act \cup {k} => Holding(stage', h) \/ active' = act
    BY <2>3, <2>4 DEF Holding
  <2> QED
    BY <2>2, <2>3, <2>4, <2>5, <2>6, OpsAreRequests DEF Held
<1> QED
  BY <1>1, <1>2

\* Nothing else that a serving coordinator does lets go of a key or of a cleanup.
LEMMA BusyKept ==
    ASSUME BusyInv, Serving' => Serving, active' = active, maintenanceActive' => maintenanceActive,
           \A r \in Requests : Holding(stage, r) => Holding(stage', r)
    PROVE  BusyInv'
<1>1. Ops \subseteq Requests /\ Maintenances \subseteq Requests
  BY DEF Requests
<1> QED
  BY <1>1 DEF BusyInv, Held, Cleaning

LEMMA BusyDispatched ==
    ASSUME OrderInv, BusyInv,
           \/ \E k \in Keys : DispatchAvailable(k)
           \/ \E o \in Ops : QueueSubmission(o) \/ RecvCompletion(o) \/ PromoteSubmission(o)
    PROVE  BusyInv'
<1>1. /\ events \in Seq(Requests) /\ pending \in Seq(Requests) /\ queues \in [Keys -> Seq(Ops)]
      /\ stage \in [Requests -> Stages] /\ ticket \in [Requests -> Nat] /\ active \subseteq Keys
  BY DEF OrderInv, TypeOK
<1>2. \A o \in Ops : o \in Requests /\ KeyOf[o] \in Keys
  BY OpsAreRequests, KeysAssumption
<1>3. TypeOK /\ Line(events, pending, queues, stage, ticket) /\ Keyed(queues) /\ Single(stage)
  BY DEF OrderInv, LineInv, ExclusionInv
<1>4. Maintenances \subseteq Requests
  BY DEF Requests
<1>5. ASSUME NEW k \in Keys, DispatchAvailable(k) PROVE BusyInv'
  <2>1. DispatchIfIdle(k, active, queues, registry, stage) /\ Serving /\ maintenanceActive' = maintenanceActive
    BY <1>5 DEF DispatchAvailable, Serving
  <2>2. Held(stage', active') /\ \A r \in Requests : Holding(stage, r) => Holding(stage', r)
    BY <1>1, <1>3, <2>1, DispatchHeld DEF BusyInv
  <2> QED
    BY <1>4, <2>1, <2>2 DEF BusyInv, Cleaning
<1>6. ASSUME NEW o \in Ops, QueueSubmission(o) \/ PromoteSubmission(o) PROVE BusyInv'
  <2> DEFINE st == [stage EXCEPT ![o] = "queued"]
  <2>1. /\ DispatchIfIdle(KeyOf[o], active, Enqueue(o), registry \cup {KeyOf[o]}, st)
        /\ Serving /\ maintenanceActive' = maintenanceActive
    BY <1>6 DEF QueueSubmission, PromoteSubmission, Receive, Advancing, Serving
  <2>2. \/ /\ QueueSubmission(o) /\ events # <<>> /\ o = Head(events) /\ stage[o] = "channel" /\ pending = <<>>
        \/ /\ PromoteSubmission(o) /\ pending # <<>> /\ o = Head(pending)
    BY <1>6 DEF QueueSubmission, PromoteSubmission, Receive, Advancing, MustPostpone
  <2>3. stage[o] \in {"channel", "pending"}
    BY <1>1, <1>3, <2>2, TakePending DEF Line
  <2>4. \E ev \in Seq(Requests), pd \in Seq(Requests) : Line(ev, pd, Enqueue(o), st, ticket)
    <3>1. CASE QueueSubmission(o) /\ events # <<>> /\ o = Head(events) /\ stage[o] = "channel" /\ pending = <<>>
      <4>1. Line(Tail(events), pending, Enqueue(o), st, ticket)
        BY <1>1, <1>3, <3>1, EventQueued DEF Enqueue
      <4>2. Tail(events) \in Seq(Requests)
        BY <1>1, <3>1
      <4> QED
        BY <1>1, <4>1, <4>2
    <3>2. CASE PromoteSubmission(o) /\ pending # <<>> /\ o = Head(pending)
      <4>1. Line(events, Tail(pending), Enqueue(o), st, ticket)
        BY <1>1, <1>3, <3>2, PendingQueued DEF Enqueue
      <4>2. Tail(pending) \in Seq(Requests)
        BY <1>1, <3>2
      <4> QED
        BY <1>1, <4>1, <4>2
    <3> QED
      BY <2>2, <3>1, <3>2
  <2>5. /\ Enqueue(o) \in [Keys -> Seq(Ops)] /\ st \in [Requests -> Stages]
        /\ st[o] = "queued" /\ \A r \in Requests : r # o => st[r] = stage[r]
    BY <1>1, <1>2, <1>3, EnqueueTyped DEF Stages
  <2>6. Keyed(Enqueue(o))
    BY <1>1, <1>3, EnqueueKeyed
  <2> HIDE DEF st
  <2>7. Held(st, active) /\ \A r \in Requests : Holding(stage, r) => Holding(st, r)
    BY <1>2, <2>1, <2>3, <2>5 DEF BusyInv, Held, Holding
  <2>8. Held(stage', active') /\ \A r \in Requests : Holding(st, r) => Holding(stage', r)
    BY <1>1, <1>2, <2>1, <2>4, <2>5, <2>6, <2>7, DispatchHeld
  <2> QED
    BY <1>4, <2>1, <2>7, <2>8 DEF BusyInv, Cleaning
<1>7. ASSUME NEW o \in Ops, RecvCompletion(o) PROVE BusyInv'
  <2> DEFINE s == CompletionStage(stage[o])
             st == [stage EXCEPT ![o] = s]
  <2>1. /\ DispatchIfIdle(KeyOf[o], active \ {KeyOf[o]}, queues, registry, st)
        /\ events # <<>> /\ o = Head(events) /\ stage[o] \in {"completed", "lost"}
        /\ Serving /\ maintenanceActive' = maintenanceActive
    BY <1>7 DEF RecvCompletion, Receive, Serving
  <2>2. s \in {"done", "delivering"} /\ (s = "delivering" => stage[o] = "completed" /\ Single(stage))
    BY <1>3 DEF CompletionStage
  <2> HIDE DEF s
  <2>3. /\ st \in [Requests -> Stages] /\ Tail(events) \in Seq(Requests)
        /\ st[o] = s /\ \A r \in Requests : r # o => st[r] = stage[r]
    BY <1>1, <1>2, <2>1, <2>2 DEF Stages
  <2>4. Line(Tail(events), pending, queues, st, ticket)
    BY <1>1, <1>2, <1>3, <2>1, <2>2, EventOut
  <2> HIDE DEF st
  <2>5. Held(st, active \ {KeyOf[o]}) /\ \A r \in Requests : r # o /\ Holding(stage, r) => Holding(st, r)
    BY <1>2, <2>1, <2>3 DEF BusyInv, Held, Holding
  <2>6. Held(stage', active') /\ \A r \in Requests : Holding(st, r) => Holding(stage', r)
    BY <1>1, <1>2, <1>3, <2>1, <2>3, <2>4, <2>5, DispatchHeld
  <2>7. \A m \in Maintenances : m # o
    BY KindsAssumption
  <2> QED
    BY <1>4, <2>1, <2>5, <2>6, <2>7 DEF BusyInv, Cleaning
<1> QED
  BY <1>5, <1>6, <1>7

LEMMA BusyNext ==
    ASSUME OrderInv, LoopInv, BusyInv, [Next]_vars
    PROVE  BusyInv'
<1> DEFINE P == BusyInv'
<1>1. /\ stage \in [Requests -> Stages] /\ Ops \cup Maintenances \cup Flushes \cup Closes = Requests
      /\ \A c \in Flushes \cup Closes : ~Holding(stage, c)
      /\ pending # <<>> => stage[Head(pending)] = "pending" /\ Head(pending) \in Requests
  BY TakePending DEF OrderInv, TypeOK, LineInv, Line, Requests, ExclusionInv
<1>2. ASSUME NEW x \in Requests, NEW s, stage' = [stage EXCEPT ![x] = s], ~Holding(stage, x) \/ s \in {"job", "running", "completed", "lost"}
      PROVE  \A r \in Requests : Holding(stage, r) => Holding(stage', r)
  BY <1>1, <1>2 DEF Holding
<1>3. ASSUME Callers \/ Workers \/ Terminated \/ UNCHANGED vars PROVE P
  <2>1. UNCHANGED <<pc, active, maintenanceActive>>
    BY <1>3, ClientsKeep DEF Terminated, vars, local
  <2> DEFINE Q == \A r \in Requests : Holding(stage, r) => Holding(stage', r)
  <2>2. ASSUME NEW r \in Requests, Submit(r) PROVE Q
    BY <1>2, <2>2 DEF Submit, Admit, Answer, Holding
  <2>3. ASSUME NEW c \in Closes, Close(c) \/ CloseWake(c) \/ CloseReturn(c) PROVE Q
    BY <1>1, <1>2, <2>3 DEF Close, CloseWake, CloseReturn, Admit, Answer
  <2>4. ASSUME NEW r \in Requests, StartJob(r) \/ FinishJob(r) \/ PanicJob(r) PROVE Q
    BY <1>2, <2>4 DEF StartJob, FinishJob, PanicJob
  <2>5. ASSUME DropHandles \/ Terminated \/ UNCHANGED vars PROVE Q
    BY <2>5 DEF DropHandles, Terminated, vars
  <2> HIDE DEF Q
  <2>6. Q
    BY <1>1, <1>3, <2>2, <2>3, <2>4, <2>5 DEF Callers, Workers
  <2> QED
    BY <2>1, <2>6, BusyKept DEF Q, Serving
<1>4. ASSUME NEW r \in Requests, PostponeSubmission(r) \/ RecvBarrier(r) \/ RejectLate(r) PROVE P
  <2>1. /\ stage[r] = "channel" /\ UNCHANGED <<active, maintenanceActive>> /\ Serving
        /\ \E s : stage' = [stage EXCEPT ![r] = s]
    BY <1>4 DEF PostponeSubmission, RecvBarrier, RejectLate, Receive, Answer, local, Serving
  <2> QED
    BY <1>2, <2>1, BusyKept DEF Holding
<1>5. ASSUME NEW c \in Closes, RecvClose(c) PROVE P
  <2>1. UNCHANGED <<active, maintenanceActive>> /\ Serving /\ \E s : stage' = [stage EXCEPT ![c] = s]
    BY <1>5 DEF RecvClose, Receive, Answer, Serving
  <2> QED
    BY <1>1, <1>2, <2>1, BusyKept
<1>6. ASSUME NEW m \in Maintenances, RecvMaintenanceCompletion(m) PROVE P
  <2>1. active' = active /\ maintenanceActive' = FALSE /\ Serving /\ stage' = [stage EXCEPT ![m] = "done"]
    BY <1>6 DEF RecvMaintenanceCompletion, Receive, Answer, Serving
  <2>2. \A o \in Ops : o # m /\ o \in Requests
    BY KindsAssumption, OpsAreRequests
  <2> QED
    BY <1>1, <2>1, <2>2 DEF BusyInv, Held, Holding
<1>7. ASSUME NEW m \in Maintenances, StartMaintenance(m) PROVE P
  <2>1. /\ active' = active /\ Serving /\ stage[m] = "pending" /\ m \in Requests
        /\ \E s \in {"job", "lost"} : stage' = [stage EXCEPT ![m] = s]
    BY <1>1, <1>7 DEF StartMaintenance, Advancing, Serving
  <2>2. Holding(stage', m) /\ \A r \in Requests : Holding(stage, r) => Holding(stage', r)
    BY <1>1, <2>1 DEF Holding
  <2> QED
    BY <2>1, <2>2, OpsAreRequests DEF BusyInv, Held, Cleaning
<1>8. ASSUME NEW r \in Requests, CompleteFlush(r) \/ AnswerPendingClose(r) PROVE P
  <2>1. /\ UNCHANGED <<active, maintenanceActive>> /\ Serving /\ stage[r] = "pending"
        /\ stage' = [stage EXCEPT ![r] = "done"]
    BY <1>1, <1>8 DEF CompleteFlush, AnswerPendingClose, Advancing, Answer, Serving
  <2> QED
    BY <1>2, <2>1, BusyKept DEF Holding
<1>9. ASSUME NEW r \in Requests, DrainEvent(r) PROVE P
  BY <1>9 DEF DrainEvent, local, LoopInv, Idle, BusyInv, Held
<1>10. ASSUME NEW r \in Requests, FailQueued(r) PROVE P
  BY <1>10 DEF FailQueued, BusyInv, Serving
<1>11. ASSUME FinishSubmission \/ AdvanceReturn \/ ShutdownWorkers PROVE P
  BY <1>11, BusyKept DEF FinishSubmission, AdvanceReturn, ShutdownWorkers, DispatchDone, local, Serving
<1>12. ASSUME FinishCompletion PROVE P
  <2>1. Serving /\ UNCHANGED <<active, maintenanceActive>> /\ completing \in Requests
    BY <1>12, OpsAreRequests DEF FinishCompletion, DispatchDone, Serving, OrderInv, TypeOK
  <2>2. stage' = stage \/ (stage[completing] = "delivering" /\ stage' = [stage EXCEPT ![completing] = "done"])
    BY <1>12 DEF FinishCompletion, Answer
  <2>3. \A r \in Requests : Holding(stage, r) => Holding(stage', r)
    BY <1>2, <2>1, <2>2 DEF Holding
  <2> QED
    BY <2>1, <2>3, BusyKept
<1>13. ASSUME StopCoordinator \/ HandlesGone \/ Unwound \/ FailExit \/ CoordinatorPanic PROVE P
  BY <1>13 DEF StopCoordinator, HandlesGone, Unwound, FailExit, CoordinatorPanic, BusyInv, Serving
<1>14. ASSUME \/ \E k \in Keys : DispatchAvailable(k)
              \/ \E o \in Ops : QueueSubmission(o) \/ RecvCompletion(o) \/ PromoteSubmission(o)
       PROVE  P
  BY <1>14, BusyDispatched
<1> HIDE DEF P
<1>15. P
  BY <1>1, <1>3, <1>4, <1>5, <1>6, <1>7, <1>8, <1>9, <1>10, <1>11, <1>12, <1>13, <1>14 DEF Next, Scheduler
<1> QED
  BY <1>15 DEF P

\* When the coordinator waits for an event it has work for a reason to come: the
\* requests it keeps waiting are behind a job whose completion will wake it
\* (the recv of run_scheduler, with dispatch_available before each wait).
THEOREM NeverStalls == Spec => []NoStall
<1> DEFINE Inv == LoopInv /\ BusyInv
<1>1. Init => Inv
  <2> SUFFICES ASSUME Init PROVE Inv
    OBVIOUS
  <2>1. /\ pc = "recv" /\ active = {} /\ ~maintenanceActive /\ pending = <<>>
        /\ \A k \in Keys : queues[k] = <<>>
    BY DEF Init
  <2> QED
    BY <2>1 DEF LoopInv, Served, Blocked, Eligible, BusyInv, Held
<1>2. OrderInv /\ Inv /\ [Next]_vars => Inv'
  BY LoopNext, BusyNext DEF OrderInv
<1>3. OrderInv /\ Inv => NoStall
  <2> SUFFICES ASSUME OrderInv, Inv, pc = "recv"
               PROVE  /\ pending # <<>> \/ (\E k \in Keys : queues[k] # <<>>)
                           => HasCompletion \/ \E r \in Requests : InFlight(r)
                      /\ Served
    BY DEF NoStall, Served
  <2>1. Served /\ Blocked /\ Held(stage, active) /\ (maintenanceActive => Cleaning(stage))
    BY DEF LoopInv, BusyInv, Serving
  <2>2. ASSUME NEW r \in Requests, Holding(stage, r) PROVE HasCompletion \/ InFlight(r)
    <3>1. CASE stage[r] \in {"completed", "lost"}
      <4>1. Has(events, r)
        BY <2>2, <3>1, KindsAssumption DEF OrderInv, LineInv, Line, Places, InChannel
      <4> QED
        BY <3>1, <4>1 DEF Has, HasCompletion
    <3> QED
      BY <2>2, <3>1 DEF Holding, InFlight
  <2>3. ASSUME NEW k \in active PROVE HasCompletion \/ \E r \in Requests : InFlight(r)
    BY <2>1, <2>2, OpsAreRequests DEF Held
  <2>4. ASSUME NEW k \in Keys, queues[k] # <<>> PROVE active # {}
    <3>1. AtCapacity({}) => FALSE
      BY MaxAssumption, FS_EmptySet DEF AtCapacity
    <3> QED
      BY <2>1, <2>4, <3>1 DEF Served, Eligible
  <2>5. ASSUME maintenanceActive PROVE HasCompletion \/ \E r \in Requests : InFlight(r)
    BY <2>1, <2>2, <2>5 DEF Cleaning, Requests
  <2> QED
    BY <2>1, <2>3, <2>4, <2>5 DEF Blocked, Idle
<1> QED
  BY <1>1, <1>2, <1>3, OrderInvariant, PTL DEF Spec

----------------------------------------------------------------------------
(* What is left when the coordinator shuts down, and when it has stopped.  *)

Stopped == pc \in {"unwind", "faildrain", "exited"}

DrainInv ==
    /\ pc \in {"shutdown", "answer"} => \A r \in Requests \ Closes : stage[r] # "pending"
    /\ lifecycle \in {"Closed", "ShutdownFailed"} => \A r \in Requests \ Closes : stage[r] \in {"new", "channel", "done"}
    /\ Stopped => \A r \in Requests : stage[r] \notin {"pending", "queued", "delivering"}
    /\ pc = "exited" => \A r \in Requests : stage[r] \in {"new", "done", "dropped", "joined"}

\* With nothing queued, active or pending, only new calls and the channel are left.
LEMMA AtRest ==
    ASSUME OrderInv, Serving, pc # "dispatch", Idle, ~maintenanceActive, NEW r \in Requests \ Closes, stage[r] # "pending"
    PROVE  stage[r] \in {"new", "channel", "done"}
<1> USE DEF OrderInv
<1>1. r \in Requests /\ stage[r] \in Stages
  BY DEF TypeOK
<1>2. stage[r] \notin {"dropped", "joined"}
  BY DEF KindInv
<1>3. stage[r] # "delivering"
  BY <1>1, KindsAssumption DEF KindInv
<1>4. stage[r] # "queued"
  <2>1. r \notin Ops => stage[r] # "queued"
    BY <1>1 DEF KindInv
  <2>2. r \in Ops => KeyOf[r] \in Keys /\ r # None
    BY <1>1, KeysAssumption, KindsAssumption
  <2>3. r \in Ops /\ stage[r] = "queued" => Has(queues[KeyOf[r]], r)
    BY <2>2 DEF LineInv, Line, Places
  <2> QED
    BY <2>1, <2>2, <2>3, EmptyHas DEF Idle
<1>5. ~Holding(stage, r)
  BY <1>1 DEF ExclusionInv, Covered, Flagged, Idle, Requests
<1> QED
  BY <1>1, <1>2, <1>3, <1>4, <1>5 DEF Stages, Holding

\* The coordinator whose last sender is gone has nothing left.
LEMMA NothingLeft ==
    ASSUME OrderInv, LoopInv, BusyInv, HandlesGone, NEW r \in Requests
    PROVE  stage[r] \in {"new", "done", "dropped", "joined"}
<1> USE DEF OrderInv
<1>1. pc = "recv" /\ events = <<>> /\ Serving /\ queues \in [Keys -> Seq(Ops)] /\ pending \in Seq(Requests)
  BY DEF HandlesGone, Serving, TypeOK
<1>2. \A x \in Requests : stage[x] \notin InChannel
  BY <1>1, EmptyHas, KindsAssumption DEF LineInv, Line, Places
<1>3. \A x \in Ops \cup Maintenances : stage[x] \notin {"channel", "pending", "queued", "job", "running"}
  BY DEF HandlesGone, SenderAlive
<1>4. \A x \in Requests : ~Holding(stage, x)
  BY <1>2, <1>3 DEF Holding, InChannel, Requests, ExclusionInv
<1>5. active = {} /\ ~maintenanceActive
  BY <1>1, <1>4 DEF BusyInv, Held, Cleaning, Requests
<1>6. ASSUME NEW k \in Keys PROVE queues[k] = <<>>
  <2>1. ASSUME queues[k] # <<>> PROVE FALSE
    <3>1. Head(queues[k]) \in Ops /\ Has(queues[k], Head(queues[k]))
      BY <1>1, <2>1, TailHas
    <3>2. stage[Head(queues[k])] = "queued"
      BY <3>1 DEF LineInv, Line, Places
    <3> QED
      BY <1>3, <3>1, <3>2
  <2> QED
    BY <2>1
<1>7. pending = <<>>
  BY <1>1, <1>5, <1>6 DEF LoopInv, Blocked, Idle
<1>8. stage[r] # "pending"
  BY <1>7, EmptyHas, KindsAssumption DEF LineInv, Line, Places
<1>9. stage[r] # "queued"
  <2>1. r \notin Ops => stage[r] # "queued"
    BY DEF KindInv
  <2> QED
    BY <1>3, <2>1
<1>10. stage[r] # "delivering"
  BY <1>1, KindsAssumption DEF KindInv
<1> QED
  BY <1>2, <1>4, <1>8, <1>9, <1>10 DEF TypeOK, Stages, Holding, InChannel

\* The first pending close has nothing but closes behind it.
LEMMA OnlyCloses ==
    ASSUME OrderInv, LastInv, FrontIn(Closes), NEW r \in Requests \ Closes
    PROVE  stage[r] # "pending"
<1> DEFINE c == Head(pending)
<1>1. c \in Closes /\ pending # <<>> /\ pending \in Seq(Requests) /\ ticket \in [Requests -> Nat] /\ r # c
  BY DEF FrontIn, OrderInv, TypeOK
<1>2. stage[c] = "pending"
  BY <1>1, TakePending DEF OrderInv, LineInv, Line
<1>3. stage[r] = "pending" => ticket[c] < ticket[r]
  BY <1>1, PendingFront DEF OrderInv, LineInv
<1>4. c \in Requests
  BY <1>1 DEF Requests
<1> HIDE DEF c
<1>5. stage[r] = "pending" => ticket[r] < ticket[c]
  BY <1>1, <1>2 DEF LastInv
<1> QED
  BY <1>1, <1>3, <1>4, <1>5

LEMMA QuiescenceNext == TypeOK /\ ExclusionInv /\ QuiescenceInv /\ [Next]_vars => QuiescenceInv'
<1>1. lifecycle' \notin {"Closed", "ShutdownFailed", "Failed"} => QuiescenceInv'
  BY DEF QuiescenceInv
<1> QED
  BY <1>1, QuiescenceKept, QuiescenceReached

\* How a coordinator stops serving, and how it exits.
LEMMA StopStep ==
    ASSUME [Next]_vars
    PROVE  /\ Stopped' => Stopped \/ StopCoordinator \/ HandlesGone \/ CoordinatorPanic
           /\ pc' = "exited" => pc = "exited" \/ StopCoordinator \/ HandlesGone \/ FailExit
           /\ pc' \in {"shutdown", "answer"} =>
                 \/ pc = pc'
                 \/ ShutdownWorkers
                 \/ FrontIn(Closes) /\ stage' = stage
<1> DEFINE P == /\ Stopped' => Stopped \/ StopCoordinator \/ HandlesGone \/ CoordinatorPanic
                /\ pc' = "exited" => pc = "exited" \/ StopCoordinator \/ HandlesGone \/ FailExit
                /\ pc' \in {"shutdown", "answer"} =>
                      \/ pc = pc'
                      \/ ShutdownWorkers
                      \/ FrontIn(Closes) /\ stage' = stage
<1>1. ASSUME UNCHANGED <<pc, lifecycle>> PROVE P
  BY <1>1 DEF Stopped
<1>2. ASSUME Turn PROVE P
  BY <1>2 DEF Turn, Stopped, NextPoint, ShutdownReady
<1>3. ASSUME NEW c \in Closes, RecvClose(c) PROVE P
  BY <1>3 DEF RecvClose, Stopped
<1>4. ASSUME Stop PROVE P
  BY <1>4 DEF Stop, ShutdownWorkers, StopCoordinator, HandlesGone, Unwound, FailExit, CoordinatorPanic, Stopped
<1> HIDE DEF P
<1>5. P
  BY <1>1, <1>2, <1>3, <1>4, LifeStep
<1> QED
  BY <1>5 DEF P

LEMMA DrainNext ==
    ASSUME OrderInv, Moves, LifeInv, LoopInv, BusyInv, QuiescenceInv, DrainInv, [Next]_vars
    PROVE  DrainInv'
<1> USE DEF LifeInv
<1>1. ASSUME pc' \in {"shutdown", "answer"}, NEW r \in Requests \ Closes PROVE stage'[r] # "pending"
  <2>1. CASE pc = pc'
    <3>1. stage[r] # "pending" /\ pc # "recv"
      BY <1>1, <2>1 DEF DrainInv
    <3> QED
      BY <3>1 DEF Moves, Moved, FromNew, FromChannel, FromPending, FromQueued, FromReceived
  <2>2. CASE ShutdownWorkers
    BY <2>2 DEF ShutdownWorkers, DrainInv
  <2>3. CASE FrontIn(Closes) /\ stage' = stage
    BY <2>3, OnlyCloses
  <2> QED
    BY <1>1, <2>1, <2>2, <2>3, StopStep
<1>2. ASSUME lifecycle' \in {"Closed", "ShutdownFailed"}, NEW r \in Requests \ Closes
      PROVE  stage'[r] \in {"new", "channel", "done"}
  <2>1. CASE lifecycle' = lifecycle
    <3>1. stage[r] \in {"new", "channel", "done"} /\ lifecycle # "Open"
      BY <1>2, <2>1 DEF DrainInv
    <3> QED
      BY <3>1 DEF Moves, Moved, FromNew, FromChannel
  <2>2. CASE ShutdownWorkers
    <3>1. pc = "shutdown" /\ Idle /\ ~maintenanceActive /\ stage[r] # "pending" /\ stage' = stage
      BY <2>2 DEF ShutdownWorkers, LoopInv, DrainInv
    <3> QED
      BY <3>1, AtRest DEF Serving
  <2>3. CASE HandlesGone
    <3>1. stage' = stage /\ stage[r] \in {"new", "done", "dropped", "joined"}
      BY <2>3, NothingLeft DEF HandlesGone
    <3>2. stage[r] \notin {"dropped", "joined"}
      BY DEF OrderInv, KindInv
    <3> QED
      BY <3>1, <3>2
  <2> QED
    BY <1>2, <2>1, <2>2, <2>3, NoReturn
<1>3. ASSUME StopCoordinator, NEW r \in Requests
      PROVE  stage'[r] \in {"new", "done", "dropped", "joined"}
  <2>1. pc = "answer" /\ ~FrontIn(Closes) /\ events = <<>> /\ stage' = stage /\ lifecycle \in {"Closed", "ShutdownFailed"}
    BY <1>3 DEF StopCoordinator, ChannelDrained, PhaseInv
  <2>2. stage[r] \notin InChannel
    BY <2>1, EmptyHas, KindsAssumption DEF OrderInv, LineInv, Line, Places
  <2>3. r \notin Closes => stage[r] \in {"new", "channel", "done"}
    BY <2>1 DEF DrainInv
  <2>4. ASSUME stage[r] = "pending" PROVE FALSE
    <3>1. Has(pending, r)
      BY <2>4, KindsAssumption DEF OrderInv, LineInv, Line, Places
    <3>2. pending # <<>> /\ pending \in Seq(Requests)
      BY <3>1, EmptyHas DEF OrderInv, TypeOK
    <3>3. stage[Head(pending)] = "pending" /\ Head(pending) \in Requests
      BY <3>2, TakePending DEF OrderInv, LineInv, Line
    <3>4. Head(pending) \in Closes
      BY <2>1, <3>3 DEF DrainInv
    <3> QED
      BY <2>1, <3>2, <3>4 DEF FrontIn
  <2>5. r \in Closes => ~Holding(stage, r) /\ stage[r] \notin {"queued", "delivering"}
    BY KindsAssumption DEF OrderInv, ExclusionInv, KindInv
  <2>6. stage[r] \in Stages
    BY DEF OrderInv, TypeOK
  <2> QED
    BY <2>1, <2>2, <2>3, <2>4, <2>5, <2>6 DEF Stages, Holding, InChannel
<1>4. ASSUME Stopped', NEW r \in Requests PROVE stage'[r] \notin {"pending", "queued", "delivering"}
  <2>1. CASE Stopped
    <3>1. stage[r] \notin {"pending", "queued", "delivering"} /\ pc \notin {"recv", "advance"} /\ pc' # "dispatch"
      BY <1>4, <2>1 DEF Stopped, DrainInv
    <3> QED
      BY <3>1 DEF Moves, Moved, FromNew, FromChannel, FromPending, FromQueued, FromReceived
  <2>2. CASE CoordinatorPanic
    BY <2>2 DEF CoordinatorPanic, Unwinding
  <2>3. CASE HandlesGone
    BY <2>3, NothingLeft DEF HandlesGone
  <2> QED
    BY <1>3, <1>4, <2>1, <2>2, <2>3, StopStep
<1>5. ASSUME pc' = "exited", NEW r \in Requests PROVE stage'[r] \in {"new", "done", "dropped", "joined"}
  <2>1. CASE pc = "exited"
    <3>1. stage[r] \in {"new", "done", "dropped", "joined"}
      BY <2>1 DEF DrainInv
    <3> QED
      BY <2>1, <3>1 DEF Moves, Moved, FromNew
  <2>2. CASE HandlesGone
    BY <2>2, NothingLeft DEF HandlesGone
  <2>3. CASE FailExit
    <3>1. pc = "faildrain" /\ events = <<>> /\ stage' = stage /\ lifecycle = "Failed"
      BY <2>3 DEF FailExit, ChannelDrained, PhaseInv
    <3>2. stage[r] \notin InChannel
      BY <3>1, EmptyHas, KindsAssumption DEF OrderInv, LineInv, Line, Places
    <3>3. stage[r] \notin {"pending", "queued", "delivering"} /\ ~InFlight(r) /\ stage[r] \in Stages
      BY <3>1 DEF DrainInv, Stopped, QuiescenceInv, OrderInv, TypeOK
    <3> QED
      BY <3>1, <3>2, <3>3 DEF Stages, InFlight, InChannel
  <2> QED
    BY <1>3, <1>5, <2>1, <2>2, <2>3, StopStep
<1> QED
  BY <1>1, <1>2, <1>4, <1>5 DEF DrainInv

\* All parts together.
EngineInv == OrderInv /\ LifeInv /\ LoopInv /\ BusyInv /\ QuiescenceInv /\ DrainInv

LEMMA EngineInit == Init => EngineInv
<1> SUFFICES ASSUME Init PROVE EngineInv
  OBVIOUS
<1>1. /\ pc = "recv" /\ active = {} /\ ~maintenanceActive /\ pending = <<>> /\ lifecycle = "Open"
      /\ \A k \in Keys : queues[k] = <<>>
  BY DEF Init
<1>2. LoopInv /\ BusyInv /\ QuiescenceInv /\ DrainInv
  BY <1>1 DEF LoopInv, Served, Blocked, Eligible, BusyInv, Held, QuiescenceInv, DrainInv, Stopped
<1> QED
  BY <1>2, OrderInit, LifeInit DEF EngineInv

LEMMA EngineNext == EngineInv /\ [Next]_vars => EngineInv' /\ Moves
<1> SUFFICES ASSUME EngineInv, [Next]_vars PROVE EngineInv' /\ Moves
  OBVIOUS
<1> USE DEF EngineInv
<1>1. OrderInv' /\ Moves /\ TypeOK /\ ExclusionInv
  BY OrderNext DEF OrderInv
<1>2. LifeInv' /\ LoopInv' /\ BusyInv' /\ QuiescenceInv'
  BY <1>1, LifeNext, LoopNext, BusyNext, QuiescenceNext
<1>3. DrainInv'
  BY <1>1, DrainNext
<1> QED
  BY <1>1, <1>2, <1>3

LEMMA EngineInvariant == Spec => []EngineInv
BY EngineInit, EngineNext, PTL DEF Spec

\* A coordinator that has stopped, by an ordered close, by the loss of its last
\* handle or after a panic, has published a terminal lifecycle, emptied its channel
\* and left no request without an answer (the ways out of run_scheduler).
THEOREM ExitIsClean == Spec => []ExitLeavesNothing
<1>1. EngineInv => ExitLeavesNothing
  <2> SUFFICES ASSUME EngineInv, pc = "exited"
               PROVE  /\ lifecycle \in {"Closed", "ShutdownFailed", "Failed"}
                      /\ events = <<>>
                      /\ \A r \in Requests :
                            stage[r] \in {"new", "done"} \cup (IF r \in Closes THEN {"dropped", "joined"} ELSE {})
    BY DEF ExitLeavesNothing
  <2> USE DEF EngineInv, OrderInv
  <2>1. lifecycle \in {"Closed", "ShutdownFailed", "Failed"}
    BY DEF LifeInv, PhaseInv
  <2>2. \A r \in Requests : stage[r] \in {"new", "done", "dropped", "joined"}
    BY DEF DrainInv
  <2>3. \A r \in Requests : stage[r] \in {"new", "done"} \cup (IF r \in Closes THEN {"dropped", "joined"} ELSE {})
    BY <2>2 DEF KindInv
  <2>4. ASSUME events # <<>> PROVE FALSE
    <3>1. Head(events) \in Requests /\ stage[Head(events)] \in InChannel
      BY <2>4, TakeEvent DEF LineInv, Line, TypeOK
    <3> QED
      BY <2>2, <3>1 DEF InChannel
  <2> QED
    BY <2>1, <2>3, <2>4
<1> QED
  BY <1>1, EngineInvariant, PTL

----------------------------------------------------------------------------
(* The order of a close.                                                   *)

\* Who was before whom stays so.
LEMMA BeforeStays ==
    ASSUME OrderInv, [Next]_vars, NEW r \in Requests, NEW s \in Requests, Before(r, s)
    PROVE  Before(r, s)'
<1>1. ticket[r] > 0 /\ ticket[r] < ticket[s] /\ ticket \in [Requests -> Nat]
  BY DEF Before, Admitted, OrderInv, TypeOK
<1>2. stage[r] # "new" /\ stage[s] # "new"
  BY <1>1 DEF OrderInv, TicketInv
<1>3. ticket'[r] = ticket[r] /\ ticket'[s] = ticket[s]
  BY <1>2, TicketKept DEF OrderInv
<1> QED
  BY <1>1, <1>3 DEF Before, Admitted

\* A request that was turned away came after a close.
LEMMA TurnedAwayLate ==
    ASSUME EngineInv, Moves, CloseOrder, [Next]_vars, NEW r \in Requests \ Closes,
           reply'[r] = "StoreClosed", Admitted(r)'
    PROVE  \E c \in Closes : Before(c, r)'
<1> USE DEF EngineInv, OrderInv
<1>1. Closes \subseteq Requests /\ r \in Requests /\ ticket \in [Requests -> Nat]
  BY DEF Requests, TypeOK
<1>2. CASE reply[r] = "StoreClosed"
  <2>1. stage[r] # "new"
    BY <1>1, <1>2 DEF ReplyInv
  <2>2. Admitted(r)
    BY <1>1, <2>1, TicketKept DEF Admitted
  <2>3. PICK c \in Closes : Before(c, r)
    BY <1>2, <2>2 DEF CloseOrder
  <2> QED
    BY <1>1, <2>3, BeforeStays
<1>3. CASE reply[r] # "StoreClosed"
  <2>1. ~Kept(r) /\ Moved(r)
    BY <1>1, <1>3 DEF Moves, Kept
  <2>2. stage[r] = "new" => ticket[r] = 0
    BY <1>1 DEF TicketInv
  <2>3. stage[r] = "channel" /\ ((pc = "recv" /\ lifecycle # "Open") \/ pc = "answer")
    <3>1. stage[r] # "new"
      BY <2>1, <2>2 DEF Moved, FromNew, Admitted
    <3>2. stage[r] = "channel"
      BY <2>1, <3>1 DEF Moved, FromPending, FromQueued, FromReceived
    <3>3. FromChannel(r)
      BY <2>1, <3>2 DEF Moved
    <3> QED
      BY <2>1, <3>2, <3>3 DEF FromChannel
  <2>4. lifecycle = "Closing" \/ pc = "answer"
    BY <2>3 DEF LifeInv, PhaseInv
  <2>5. PICK c \in Closes : Admitted(c) /\ stage[c] # "channel"
    BY <2>4 DEF LifeInv, ClosingInv
  <2>6. Before(c, r)
    BY <1>1, <2>3, <2>5 DEF Before, LineInv, Line, StageOrder
  <2> QED
    BY <1>1, <2>6, BeforeStays
<1> QED
  BY <1>2, <1>3

\* What came after a close is answered without having been accepted.
LEMMA LateNeverRuns ==
    ASSUME EngineInv, EngineInv', Moves, CloseOrder, [Next]_vars, NEW r \in Requests \ Closes,
           NEW c \in Closes, Before(c, r)'
    PROVE  stage'[r] \in {"channel", "done"} /\ reply'[r] \in {"none", "StoreClosed", "EngineFailed"}
<1> USE DEF EngineInv, OrderInv
<1>1. c \in Requests /\ r \in Requests /\ c # r /\ ticket \in [Requests -> Nat] /\ events \in Seq(Requests)
  BY DEF Requests, TypeOK
<1>2. CASE stage'[r] = "channel"
  BY <1>1, <1>2 DEF ReplyInv
<1>3. CASE stage'[r] # "channel"
  <2>1. Before(c, r)
    BY <1>1, <1>3, BeforeKept
  <2>2. stage[r] \in {"channel", "done"} /\ reply[r] \in {"none", "StoreClosed", "EngineFailed"}
    BY <2>1 DEF CloseOrder
  <2>3. CASE stage[r] = "done"
    <3>1. stage'[r] = "done" /\ Kept(r)
      BY <1>1, <2>3 DEF Moves, Moved
    <3> QED
      BY <2>2, <3>1 DEF Kept
  <2>4. CASE stage[r] = "channel"
    <3>1. FromChannel(r)
      BY <1>1, <1>3, <2>4 DEF Moves, Moved
    <3>2. ASSUME pc = "recv", lifecycle = "Open" PROVE FALSE
      <4>1. stage[c] \in {"new", "channel"}
        BY <3>2 DEF LifeInv, ClosingInv, Serving
      <4>2. stage[c] = "channel"
        BY <1>1, <2>1, <4>1 DEF TicketInv, Before, Admitted
      <4>3. events # <<>> /\ r = Head(events)
        BY <3>1 DEF FromChannel
      <4>4. ticket[r] < ticket[c]
        BY <1>1, <2>4, <4>2, <4>3, ChannelFront DEF LineInv
      <4> QED
        BY <1>1, <2>1, <4>4 DEF Before
    <3> QED
      BY <1>1, <3>1, <3>2 DEF FromChannel
  <2> QED
    BY <2>2, <2>3, <2>4
<1> QED
  BY <1>2, <1>3

\* When a close reports success everything before it has been answered.
LEMMA CloseDrains ==
    ASSUME EngineInv, EngineInv', Moves, CloseOrder, [Next]_vars, NEW r \in Requests \ Closes,
           NEW c \in Closes, reply'[c] = "Ok", Before(r, c)'
    PROVE  stage'[r] = "done"
<1> USE DEF EngineInv, OrderInv
<1>1. c \in Requests /\ r \in Requests /\ c # r /\ ticket \in [Requests -> Nat] /\ events \in Seq(Requests)
  BY DEF Requests, TypeOK
<1>2. stage'[c] # "channel"
  BY <1>1 DEF ReplyInv
<1>3. Before(r, c)
  BY <1>1, <1>2, BeforeKept
<1>4. stage[r] = "done" => stage'[r] = "done"
  BY <1>1 DEF Moves, Moved
<1>5. CASE reply[c] = "Ok"
  BY <1>3, <1>4, <1>5 DEF CloseOrder
<1>6. CASE reply[c] # "Ok"
  <2>1. ~Kept(c) /\ Moved(c)
    BY <1>1, <1>6 DEF Moves, Kept
  <2>2. stage[c] # "new" /\ stage[r] # "new"
    BY <1>1, <1>3 DEF TicketInv, Before, Admitted
  <2>3. c \notin Ops \cup Maintenances \cup Flushes /\ ~Holding(stage, c) /\ stage[c] \notin {"queued", "delivering"}
    BY <1>1, KindsAssumption DEF ExclusionInv, KindInv
  <2>4. stage[c] = "channel" => FromChannel(c)
    BY <2>1 DEF Moved
  <2>5. stage[c] = "pending" => FromPending(c)
    BY <2>1 DEF Moved
  <2>6. stage[c] \in {"channel", "pending", "dropped"}
    BY <2>1, <2>2, <2>3 DEF Moved, Holding
  <2>7. reply'[c] = CloseOutcome(lifecycle) /\ (stage[c] = "channel" => events # <<>> /\ c = Head(events))
    <3>1. CASE stage[c] = "channel"
      BY <2>1, <2>3, <2>4, <3>1 DEF FromChannel
    <3>2. CASE stage[c] = "pending"
      BY <2>1, <2>3, <2>5, <3>2 DEF FromPending
    <3>3. CASE stage[c] = "dropped"
      BY <2>1, <2>3, <3>3 DEF Moved, Holding
    <3> QED
      BY <2>6, <3>1, <3>2, <3>3
  <2>8. lifecycle = "Closed"
    BY <2>7 DEF CloseOutcome
  <2>9. stage[r] \in {"channel", "done"}
    BY <2>2, <2>8 DEF DrainInv
  <2>10. ASSUME stage[r] = "channel" PROVE FALSE
    <3>1. CASE stage[c] = "channel"
      <4>1. ticket[c] < ticket[r]
        BY <1>1, <2>7, <2>10, <3>1, ChannelFront DEF LineInv
      <4> QED
        BY <1>1, <1>3, <4>1 DEF Before
    <3>2. CASE stage[c] # "channel"
      <4>1. ticket[c] < ticket[r]
        BY <1>1, <2>10, <3>2 DEF LineInv, Line, StageOrder
      <4> QED
        BY <1>1, <1>3, <4>1 DEF Before
    <3> QED
      BY <3>1, <3>2
  <2> QED
    BY <1>4, <2>9, <2>10
<1> QED
  BY <1>5, <1>6

\* Close is an ordered barrier, through every fault: work admitted before it is not
\* turned away and has been answered when the close reports success, work admitted
\* after it never executes (the Closing state and the end of run_scheduler).
THEOREM ClosesInOrder == Spec => []CloseOrder
<1>1. Init => CloseOrder
  <2> SUFFICES ASSUME Init PROVE CloseOrder
    OBVIOUS
  <2>1. \A r \in Requests : ticket[r] = 0 /\ reply[r] = "none"
    BY DEF Init
  <2>2. Closes \subseteq Requests
    BY DEF Requests
  <2> QED
    BY <2>1, <2>2 DEF CloseOrder, Before, Admitted
<1>2. EngineInv /\ CloseOrder /\ [Next]_vars => CloseOrder'
  <2> SUFFICES ASSUME EngineInv, CloseOrder, [Next]_vars PROVE CloseOrder'
    OBVIOUS
  <2>1. EngineInv' /\ Moves
    BY EngineNext
  <2>2. \A r \in Requests \ Closes : reply'[r] = "StoreClosed" /\ Admitted(r)' => \E c \in Closes : Before(c, r)'
    BY <2>1, TurnedAwayLate
  <2>3. \A r \in Requests \ Closes, c \in Closes :
            Before(c, r)' => stage'[r] \in {"channel", "done"} /\ reply'[r] \in {"none", "StoreClosed", "EngineFailed"}
    BY <2>1, LateNeverRuns
  <2>4. \A r \in Requests \ Closes, c \in Closes : reply'[c] = "Ok" /\ Before(r, c)' => stage'[r] = "done"
    BY <2>1, CloseDrains
  <2> QED
    BY <2>2, <2>3, <2>4 DEF CloseOrder
<1> QED
  BY <1>1, <1>2, EngineInvariant, PTL DEF Spec

----------------------------------------------------------------------------
(* The worker pool.  A key is active from dispatch until its completion is *)
(* received, so the active keys bound the jobs with the workers; after a   *)
(* panic they are forgotten, and the jobs can only become fewer.           *)

InPool == {r \in Requests : InFlight(r)}

PoolInv ==
    Serving => /\ Cardinality(active) <= workers
               /\ (\E m \in Maintenances : InFlight(m)) => workers >= 1

JobInv == IsFiniteSet(InPool) /\ Cardinality(InPool) <= workers

\* A dispatch keeps a worker for each active key.
LEMMA DispatchPool ==
    ASSUME TypeOK, NEW k, NEW act \in SUBSET Keys, NEW q, NEW reg, NEW st, Cardinality(act) <= workers,
           DispatchIfIdle(k, act, q, reg, st)
    PROVE  Cardinality(active') <= workers' /\ workers <= workers'
<1>1. IsFiniteSet(act)
  BY KeysAssumption, FS_Subset
<1>2. Cardinality(act) \in Nat /\ workers \in 0..MaxConcurrent
  BY <1>1, FS_CardinalityType DEF TypeOK
<1>3. CASE KeyBusy(k, act) \/ AtCapacity(act) \/ q[k] = <<>>
  <2>1. active' = act /\ workers' = workers
    BY <1>3 DEF DispatchIfIdle
  <2> QED
    BY <1>2, <2>1
<1>4. CASE ~(KeyBusy(k, act) \/ AtCapacity(act) \/ q[k] = <<>>)
  <2>1. Cardinality(act) < MaxConcurrent
    BY <1>2, <1>4, MaxAssumption DEF AtCapacity
  <2>2. Cardinality(act \cup {k}) <= Cardinality(act) + 1
    BY <1>1, <1>2, FS_AddElement
  <2>3. Cardinality(act \cup {k}) \in Nat
    BY <1>1, FS_AddElement, FS_CardinalityType
  <2>4. CASE Prepare(Cardinality(act) + 1) /\ active' = act \cup {k}
    BY <1>2, <2>1, <2>2, <2>3, <2>4, MaxAssumption DEF Prepare, Target
  <2>5. CASE PrepareFails(Cardinality(act) + 1) /\ active' = act
    BY <1>2, <2>1, <2>5, MaxAssumption DEF PrepareFails, Target
  <2> QED
    BY <1>4, <2>4, <2>5 DEF DispatchIfIdle
<1> QED
  BY <1>3, <1>4

\* Only StartMaintenance gives a cleanup to a worker.
LEMMA CleanupStarts ==
    ASSUME OrderInv, Moves, [Next]_vars, NEW m \in Maintenances, InFlight(m)', ~InFlight(m)
    PROVE  StartMaintenance(m)
<1>1. m \in Requests /\ m \notin Ops \cup Flushes \cup Closes
  BY KindsAssumption DEF Requests
<1>2. stage'[m] \in {"job", "running"} /\ stage[m] \notin {"job", "running"} /\ stage[m] # "queued"
  BY <1>1 DEF InFlight, OrderInv, KindInv
<1>3. Moved(m) /\ stage[m] = "pending"
  BY <1>1, <1>2 DEF Moves, Moved, FromNew, FromChannel, FromQueued, FromReceived
<1>4. pc = "advance" /\ m = Head(pending) /\ stage'[m] # stage[m]
  BY <1>1, <1>2, <1>3 DEF Moved, FromPending
<1> DEFINE Same == stage'[m] = stage[m]
<1>5. stage \in [Requests -> Stages]
  BY DEF OrderInv, TypeOK
<1>6. ASSUME Callers PROVE Same
  <2>1. ASSUME NEW r \in Requests, Submit(r) \/ Close(r) \/ CloseWake(r) \/ CloseReturn(r) PROVE Same
    BY <1>1, <1>3, <1>5, <2>1 DEF Submit, Close, CloseWake, CloseReturn, Admit, Answer
  <2> QED
    BY <1>6, <2>1 DEF Callers, DropHandles, Requests
<1>7. ASSUME Workers PROVE Same
  BY <1>1, <1>3, <1>5, <1>7 DEF Workers, StartJob, FinishJob, PanicJob
<1>8. ASSUME CoordinatorPanic PROVE FALSE
  BY <1>1, <1>2, <1>3, <1>8 DEF CoordinatorPanic, Unwinding
<1>9. ASSUME Terminated \/ UNCHANGED vars PROVE Same
  BY <1>9 DEF Terminated, vars
<1>10. ASSUME Scheduler PROVE Same \/ StartMaintenance(m)
  BY <1>1, <1>4, <1>10
     DEF Scheduler, DispatchAvailable, PostponeSubmission, QueueSubmission, RecvCompletion,
         PromoteSubmission, RecvMaintenanceCompletion, StartMaintenance, CompleteFlush,
         RecvBarrier, RejectLate, RecvClose, AnswerPendingClose, DrainEvent, FailQueued,
         FinishSubmission, FinishCompletion, AdvanceReturn, ShutdownWorkers, StopCoordinator,
         HandlesGone, Unwound, FailExit, DispatchDone, Receive, Advancing
<1> QED
  BY <1>4, <1>6, <1>7, <1>8, <1>9, <1>10 DEF Next

\* The steps that touch the pool or the active keys.
LEMMA PoolStep ==
    ASSUME [Next]_vars
    PROVE  \/ UNCHANGED <<active, workers>>
           \/ \E k \in Keys : DispatchAvailable(k)
           \/ \E o \in Ops : QueueSubmission(o) \/ RecvCompletion(o) \/ PromoteSubmission(o)
           \/ \E m \in Maintenances : StartMaintenance(m)
           \/ ShutdownWorkers \/ HandlesGone \/ Unwound \/ CoordinatorPanic
<1>1. CASE Callers \/ Workers
  BY <1>1, ClientsKeep DEF local
<1>2. CASE Terminated \/ UNCHANGED vars
  BY <1>2 DEF Terminated, vars, local
<1>3. ASSUME NEW r, \/ PostponeSubmission(r) \/ RecvMaintenanceCompletion(r) \/ CompleteFlush(r) \/ RecvBarrier(r)
                    \/ RejectLate(r) \/ RecvClose(r) \/ AnswerPendingClose(r) \/ DrainEvent(r) \/ FailQueued(r)
      PROVE  UNCHANGED <<active, workers>>
  BY <1>3 DEF PostponeSubmission, RecvMaintenanceCompletion, CompleteFlush, RecvBarrier, RejectLate, RecvClose,
              AnswerPendingClose, DrainEvent, FailQueued, local
<1>4. ASSUME FinishSubmission \/ FinishCompletion \/ AdvanceReturn \/ StopCoordinator \/ FailExit
      PROVE  UNCHANGED <<active, workers>>
  BY <1>4 DEF FinishSubmission, FinishCompletion, AdvanceReturn, StopCoordinator, FailExit, local
<1> QED
  BY <1>1, <1>2, <1>3, <1>4 DEF Next, Scheduler

LEMMA PoolNext ==
    ASSUME EngineInv, Moves, PoolInv, [Next]_vars
    PROVE  PoolInv'
<1> SUFFICES ASSUME Serving' PROVE Cardinality(active') <= workers' /\ ((\E m \in Maintenances : InFlight(m)') => workers' >= 1)
  BY DEF PoolInv
<1>1. TypeOK /\ workers \in 0..MaxConcurrent /\ active \subseteq Keys /\ OrderInv /\ LoopInv
  BY DEF EngineInv, OrderInv, TypeOK
<1>2. Serving /\ Cardinality(active) <= workers /\ ((\E m \in Maintenances : InFlight(m)) => workers >= 1)
  BY NoReturn DEF EngineInv, LifeInv, PoolInv
<1>3. workers' \in 0..MaxConcurrent
  BY <1>1, TypeNext DEF TypeOK
<1>4. ASSUME NEW m \in Maintenances, StartMaintenance(m)
      PROVE  active' = active /\ workers <= workers' /\ (InFlight(m)' => workers' >= 1)
  <2>1. CASE Prepare(1) /\ active' = active
    BY <1>1, <1>3, <2>1, MaxAssumption DEF Prepare, Target
  <2>2. CASE PrepareFails(1) /\ stage' = [stage EXCEPT ![m] = "lost"] /\ active' = active
    <3>1. ~InFlight(m)'
      BY <1>1, <2>2 DEF InFlight, TypeOK, Requests
    <3> QED
      BY <1>1, <1>3, <2>2, <3>1, MaxAssumption DEF PrepareFails, Target
  <2> QED
    BY <1>4, <2>1, <2>2 DEF StartMaintenance
<1>5. ASSUME ShutdownWorkers PROVE active' = {} /\ workers' = 0 /\ \A m \in Maintenances : ~InFlight(m)'
  BY <1>1, <1>5 DEF ShutdownWorkers, WorkersJoined, LoopInv, Idle, local, InFlight, Requests
<1>6. ~HandlesGone /\ ~Unwound /\ ~CoordinatorPanic
  BY DEF HandlesGone, Unwound, CoordinatorPanic, Serving
<1>7. ASSUME \/ \E k \in Keys : DispatchAvailable(k)
             \/ \E o \in Ops : QueueSubmission(o) \/ RecvCompletion(o) \/ PromoteSubmission(o)
      PROVE  Cardinality(active') <= workers' /\ workers <= workers'
  <2>1. ASSUME NEW k \in Keys, DispatchAvailable(k) PROVE Cardinality(active') <= workers' /\ workers <= workers'
    BY <1>1, <1>2, <2>1, DispatchPool DEF DispatchAvailable
  <2>2. ASSUME NEW o \in Ops, QueueSubmission(o) \/ PromoteSubmission(o)
        PROVE  Cardinality(active') <= workers' /\ workers <= workers'
    <3>1. DispatchIfIdle(KeyOf[o], active, Enqueue(o), registry \cup {KeyOf[o]}, [stage EXCEPT ![o] = "queued"])
      BY <2>2 DEF QueueSubmission, PromoteSubmission
    <3> QED
      BY <1>1, <1>2, <3>1, DispatchPool
  <2>3. ASSUME NEW o \in Ops, RecvCompletion(o) PROVE Cardinality(active') <= workers' /\ workers <= workers'
    <3> DEFINE act == active \ {KeyOf[o]}
    <3>1. DispatchIfIdle(KeyOf[o], act, queues, registry, [stage EXCEPT ![o] = CompletionStage(stage[o])])
      BY <2>3 DEF RecvCompletion
    <3>2. IsFiniteSet(active) /\ act \in SUBSET active
      BY <1>1, KeysAssumption, FS_Subset
    <3>3. Cardinality(act) <= Cardinality(active)
      BY <3>2, FS_Subset
    <3>4. Cardinality(act) \in Nat /\ Cardinality(active) \in Nat
      BY <3>2, FS_Subset, FS_CardinalityType
    <3>5. act \in SUBSET Keys /\ Cardinality(act) <= workers
      BY <1>1, <1>2, <3>3, <3>4
    <3> HIDE DEF act
    <3> QED
      BY <1>1, <3>1, <3>5, DispatchPool
  <2> QED
    BY <1>7, <2>1, <2>2, <2>3
<1>8. Cardinality(active') <= workers' /\ (workers <= workers' \/ ShutdownWorkers)
  <2>1. IsFiniteSet(active)
    BY <1>1, KeysAssumption, FS_Subset
  <2>2. Cardinality(active) \in Nat
    BY <2>1, FS_CardinalityType
  <2>3. CASE UNCHANGED <<active, workers>> \/ \E m \in Maintenances : StartMaintenance(m)
    <3>1. active' = active /\ workers <= workers'
      BY <1>1, <1>4, <2>3
    <3> QED
      BY <1>1, <1>2, <1>3, <2>2, <3>1
  <2>4. CASE ShutdownWorkers
    BY <1>5, <2>4, FS_EmptySet
  <2> QED
    BY <1>6, <1>7, <2>3, <2>4, PoolStep
<1>9. ASSUME NEW m \in Maintenances, InFlight(m)' PROVE workers' >= 1
  <2>1. CASE InFlight(m)
    BY <1>1, <1>2, <1>3, <1>5, <1>8, <1>9, <2>1
  <2>2. CASE ~InFlight(m)
    BY <1>1, <1>4, <1>9, <2>2, CleanupStarts
  <2> QED
    BY <2>1, <2>2
<1> QED
  BY <1>8, <1>9

\* A serving coordinator has a worker for each job: the jobs have different active
\* keys, and a cleanup is alone.
LEMMA ServedJobs ==
    ASSUME TypeOK, ExclusionInv, PoolInv, Serving
    PROVE  JobInv
<1>1. workers \in 0..MaxConcurrent /\ IsFiniteSet(active) /\ Cardinality(active) <= workers
  BY KeysAssumption, FS_Subset DEF TypeOK, PoolInv
<1>2. \A r \in InPool : r \in Ops \cup Maintenances /\ Holding(stage, r)
  BY DEF InPool, InFlight, Holding, ExclusionInv, Requests
<1>3. CASE \E m \in Maintenances : InFlight(m)
  <2>1. PICK m \in Maintenances : InFlight(m)
    BY <1>3
  <2>2. InPool = {m}
    BY <1>2, <2>1 DEF InPool, ExclusionInv, Alone, Requests, InFlight, Holding
  <2>3. IsFiniteSet({m}) /\ Cardinality({m}) = 1
    BY FS_Singleton
  <2> QED
    BY <1>1, <1>3, <2>2, <2>3 DEF JobInv, PoolInv
<1>4. CASE ~\E m \in Maintenances : InFlight(m)
  <2> DEFINE f == [o \in InPool |-> KeyOf[o]]
  <2>1. \A o \in InPool : o \in Ops
    BY <1>2, <1>4 DEF InPool
  <2>2. \A o \in InPool : KeyOf[o] \in active
    BY <1>2, <2>1 DEF ExclusionInv, Covered
  <2>3. \A o, p \in InPool : f[o] = f[p] => o = p
    BY <1>2, <2>1 DEF ExclusionInv, Single
  <2>4. f \in [InPool -> active]
    BY <2>2
  <2>5. f \in Injection(InPool, active)
    BY <2>3, <2>4 DEF Injection, IsInjective
  <2>6. IsFiniteSet(InPool) /\ Cardinality(InPool) <= Cardinality(active)
    BY <1>1, <2>5, FS_Injection
  <2>7. Cardinality(InPool) \in Nat /\ Cardinality(active) \in Nat
    BY <1>1, <2>6, FS_CardinalityType
  <2> QED
    BY <1>1, <2>6, <2>7 DEF JobInv
<1> QED
  BY <1>3, <1>4

\* A coordinator that has stopped serving hands out no job, and takes no worker
\* from one.
LEMMA JobsLeft ==
    ASSUME EngineInv, Moves, JobInv, [Next]_vars, ~Serving'
    PROVE  JobInv'
<1>1. TypeOK /\ OrderInv /\ LoopInv /\ BusyInv /\ workers \in 0..MaxConcurrent
  BY DEF EngineInv, OrderInv, TypeOK
<1>2. \A r \in Requests : InFlight(r)' => InFlight(r)
  <2>1. CASE pc \in {"recv", "dispatch", "advance", "shutdown", "answer"}
    <3>1. StopCoordinator \/ HandlesGone \/ CoordinatorPanic
      <4>1. Stopped' /\ ~Stopped
        BY <2>1, TypeNext, <1>1 DEF Stopped, Serving, TypeOK, Points
      <4> QED
        BY <4>1, StopStep
    <3>2. CASE CoordinatorPanic
      BY <3>2 DEF CoordinatorPanic, InFlight
    <3> QED
      BY <3>1, <3>2 DEF StopCoordinator, HandlesGone, InFlight
  <2>2. CASE pc \notin {"recv", "dispatch", "advance", "shutdown", "answer"}
    BY <2>2 DEF Moves, Moved, FromNew, FromChannel, FromPending, FromQueued, FromReceived, InFlight
  <2> QED
    BY <2>1, <2>2
<1>3. InPool' \in SUBSET InPool
  BY <1>2 DEF InPool
<1>4. IsFiniteSet(InPool') /\ Cardinality(InPool') <= Cardinality(InPool)
  BY <1>3, FS_Subset DEF JobInv
<1>5. workers' = workers \/ InPool' = {}
  <2>1. CASE HandlesGone
    <3>1. \A r \in Requests : ~InFlight(r)
      BY <1>1, <2>1, NothingLeft DEF InFlight
    <3> QED
      BY <1>2, <3>1 DEF InPool
  <2>2. CASE Unwound
    BY <1>2, <2>2 DEF Unwound, WorkersJoined, InPool
  <2>3. CASE CoordinatorPanic
    BY <2>3 DEF CoordinatorPanic
  <2>4. ASSUME ShutdownWorkers PROVE FALSE
    BY <2>4 DEF ShutdownWorkers, Serving
  <2>5. ASSUME NEW o, DispatchAvailable(o) \/ QueueSubmission(o) \/ RecvCompletion(o) \/ PromoteSubmission(o) \/ StartMaintenance(o)
        PROVE  FALSE
    BY <2>5 DEF DispatchAvailable, QueueSubmission, RecvCompletion, PromoteSubmission, StartMaintenance, Advancing, Serving
  <2> QED
    BY <2>1, <2>2, <2>3, <2>4, <2>5, PoolStep
<1>6. Cardinality(InPool) \in Nat /\ Cardinality(InPool') \in Nat /\ Cardinality(InPool) <= workers
  BY <1>4, FS_CardinalityType DEF JobInv
<1>7. workers' \in 0..MaxConcurrent
  BY <1>1, TypeNext DEF TypeOK
<1>8. CASE workers' = workers
  BY <1>1, <1>4, <1>6, <1>8 DEF JobInv
<1>9. CASE InPool' = {}
  BY <1>4, <1>7, <1>9, FS_EmptySet DEF JobInv
<1> QED
  BY <1>5, <1>8, <1>9

\* Every job that was dispatched has a worker thread of its own, however many
\* spawns failed and also while a panicked coordinator waits for its workers, so a
\* job never waits for a stalled stream (prepare in dispatch_if_idle and dispatch_maintenance).
THEOREM WorkersSuffice == Spec => []WorkerForEveryJob
<1> DEFINE Inv == PoolInv /\ (Serving \/ JobInv)
<1>1. Init => Inv
  <2> SUFFICES ASSUME Init PROVE Inv
    OBVIOUS
  <2>1. Serving /\ active = {} /\ workers = 0 /\ \A m \in Maintenances : ~InFlight(m)
    BY DEF Init, Serving, InFlight, Requests
  <2> QED
    BY <2>1, FS_EmptySet DEF PoolInv
<1>2. EngineInv /\ Inv => JobInv
  BY ServedJobs DEF EngineInv, OrderInv
<1>3. EngineInv /\ Inv /\ [Next]_vars => Inv'
  <2> SUFFICES ASSUME EngineInv, Inv, [Next]_vars PROVE Inv'
    OBVIOUS
  <2>1. Moves /\ JobInv
    BY <1>2, EngineNext
  <2>2. PoolInv'
    BY <2>1, PoolNext
  <2>3. Serving' \/ JobInv'
    BY <2>1, JobsLeft
  <2> QED
    BY <2>2, <2>3
<1>4. JobInv => WorkerForEveryJob
  BY DEF JobInv, InPool, WorkerForEveryJob
<1> QED
  BY <1>1, <1>2, <1>3, <1>4, EngineInvariant, PTL DEF Spec
=============================================================================
