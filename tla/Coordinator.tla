---------------------------- MODULE Coordinator ----------------------------
(***************************************************************************)
(* The owned engine of the blob store: the handles that admit requests,    *)
(* the coordinator thread that orders them, its elastic worker pool and    *)
(* the shutdown protocol (src/engine/{mod,scheduler,workers}.rs).          *)
(*                                                                         *)
(* A request is a blob operation (Ops), a stale-file cleanup               *)
(* (Maintenances), a flush or a close.  What an operation does to its file *)
(* is the subject of module BlobFiles; here a request is an identifier and *)
(* its own result is the reply "Ok".  One element of `events' stands for   *)
(* the request itself while stage is "channel" and for its completion      *)
(* message while stage is "completed" (with a result) or "lost" (without). *)
(*                                                                         *)
(* The loops of one event handler are unrolled into forced steps: from     *)
(* pc = "recv" the coordinator receives one event and does nothing else    *)
(* until it is back at "recv", while callers and workers run in between.   *)
(***************************************************************************)
EXTENDS Integers, Sequences, FiniteSets

CONSTANTS
    Keys,               \* 32-byte key hashes
    Ops,                \* load, save, clear, inspect, quarantine, streams
    Maintenances,       \* cleanup_stale_temporary_files calls
    Flushes,            \* flush calls
    Closes,             \* close calls
    KeyOf,              \* the key of an operation
    MaxConcurrent,      \* max_concurrent_operations, a NonZeroUsize
    None,               \* no request
    WorkerFaults,       \* may thread spawns, jobs and worker threads fail?
    CoordinatorFaults   \* may the coordinator thread panic?

Requests == Ops \cup Maintenances \cup Flushes \cup Closes

ASSUME KindsAssumption ==
    /\ Ops \cap (Maintenances \cup Flushes \cup Closes) = {}
    /\ Maintenances \cap (Flushes \cup Closes) = {}
    /\ Flushes \cap Closes = {}
    /\ None \notin Requests
ASSUME KeysAssumption == IsFiniteSet(Keys) /\ KeyOf \in [Ops -> Keys]
ASSUME MaxAssumption == MaxConcurrent \in Nat \ {0}
ASSUME FaultsAssumption == WorkerFaults \in BOOLEAN /\ CoordinatorFaults \in BOOLEAN

VARIABLES
    lifecycle,          \* the shared Mutex<Lifecycle>
    handles,            \* is some EngineHandle alive?
    events,             \* the unbounded coordinator channel
    pending,            \* VecDeque<PendingEvent>: barriers and what follows them
    queues,             \* per-key FIFO queues
    registry,           \* the keys that have an entry in the queues map
    active,             \* keys with a dispatched operation
    maintenanceActive,
    workers,            \* number of worker threads
    pc,                 \* where the coordinator thread is
    completing,         \* the operation whose completion is being handled
    stage,              \* where each request is
    reply,              \* what its caller receives
    sent,               \* history: number of requests admitted
    ticket              \* history: admission order, 0 when never admitted

local == <<pending, queues, registry, active, maintenanceActive, completing>>
history == <<sent, ticket>>
vars == <<lifecycle, handles, events, local, workers, pc, stage, reply, history>>

Lifecycles == {"Open", "Closing", "Closed", "ShutdownFailed", "Failed"}
Stages == {"new", "channel", "pending", "queued", "job", "running", "completed",
           "lost", "delivering", "dropped", "done", "joined"}
Replies == {"none", "Ok", "StoreClosed", "EngineFailed", "WorkerUnavailable",
            "ShutdownFailure", "MaintenanceCoordinationFailure", "InvalidCleanupAge"}
Points == {"recv", "dispatch", "advance", "shutdown", "answer", "unwind",
           "faildrain", "exited"}

InFlight(r) == stage[r] \in {"job", "running"}
Started(r) == stage[r] \in {"job", "running", "completed", "lost", "delivering"}

Init ==
    /\ lifecycle = "Open"
    /\ handles = TRUE
    /\ events = <<>>
    /\ pending = <<>>
    /\ queues = [k \in Keys |-> <<>>]
    /\ registry = {}
    /\ active = {}
    /\ maintenanceActive = FALSE
    /\ workers = 0
    /\ pc = "recv"
    /\ completing = None
    /\ stage = [r \in Requests |-> "new"]
    /\ reply = [r \in Requests |-> "none"]
    /\ sent = 0
    /\ ticket = [r \in Requests |-> 0]

Answer(r, result) ==
    /\ stage' = [stage EXCEPT ![r] = "done"]
    /\ reply' = [reply EXCEPT ![r] = result]

----------------------------------------------------------------------------
(* Callers.  A call reads the lifecycle and sends its event under one      *)
(* acquisition of the lifecycle lock, so admission is a single step.       *)

Admit(r) ==
    /\ events' = Append(events, r)
    /\ stage' = [stage EXCEPT ![r] = "channel"]
    /\ sent' = sent + 1
    /\ ticket' = [ticket EXCEPT ![r] = sent + 1]
    /\ UNCHANGED reply

\* The error of a call that is not admitted; the channel is disconnected once
\* the coordinator has exited.
Refusal(r) ==
    CASE lifecycle = "Open" ->
            IF r \in Ops THEN "EngineFailed" ELSE "MaintenanceCoordinationFailure"
      [] lifecycle = "Failed" -> "EngineFailed"
      [] OTHER -> "StoreClosed"

Admitting == lifecycle = "Open" /\ pc # "exited"

\* The minimum age of a cleanup is looked at once the store was seen open.
MayBeInvalid(r) == r \in Maintenances /\ lifecycle = "Open"

Submit(r) ==
    /\ r \notin Closes
    /\ handles
    /\ stage[r] = "new"
    /\ \/ Admitting /\ Admit(r)
       \/ /\ \/ ~Admitting /\ Answer(r, Refusal(r))
             \/ MayBeInvalid(r) /\ Answer(r, "InvalidCleanupAge")
          /\ UNCHANGED <<events, history>>
    /\ UNCHANGED <<lifecycle, handles, local, workers, pc>>

CloseOutcome(state) == IF state = "Closed" THEN "Ok" ELSE "ShutdownFailure"

\* With the receiver gone and the lifecycle still Open or Closing the call would
\* lock the lifecycle mutex a second time and hang: no step.
Close(c) ==
    /\ handles
    /\ stage[c] = "new"
    /\ IF lifecycle \in {"Open", "Closing"}
       THEN pc # "exited" /\ Admit(c)
       ELSE Answer(c, CloseOutcome(lifecycle)) /\ UNCHANGED <<events, history>>
    /\ UNCHANGED <<lifecycle, handles, local, workers, pc>>

DropHandles ==
    /\ handles
    /\ handles' = FALSE
    /\ UNCHANGED <<lifecycle, events, local, workers, pc, stage, reply, history>>

\* The reply sender of a close was dropped by an unwinding coordinator.
CloseWake(c) ==
    /\ stage[c] = "dropped"
    /\ Answer(c, IF lifecycle \in {"Open", "Closing"} THEN "EngineFailed"
                 ELSE CloseOutcome(lifecycle))
    /\ UNCHANGED <<lifecycle, handles, events, local, workers, pc, history>>

CanJoin == pc = "exited"

\* CoordinatorJoin::finish: every close caller joins the coordinator thread.
CloseReturn(c) ==
    /\ stage[c] = "done"
    /\ CanJoin
    /\ stage' = [stage EXCEPT ![c] = "joined"]
    /\ UNCHANGED <<lifecycle, handles, events, local, workers, pc, reply, history>>

----------------------------------------------------------------------------
(* The elastic worker pool.                                                *)

Target(required) == IF required < MaxConcurrent THEN required ELSE MaxConcurrent

\* Mutants: the spawn loop runs one turn too many; it runs one turn at most.
PrepareInclusive(required) ==
    workers' = IF workers <= required THEN required + 1 ELSE workers
PrepareOnce(required) == workers' = IF workers = 0 THEN 1 ELSE workers

Prepare(required) ==
    workers' = IF workers < Target(required) THEN Target(required) ELSE workers

PrepareFails(required) ==
    /\ WorkerFaults
    /\ workers < Target(required)
    /\ workers' \in workers..(Target(required) - 1)

StartJob(r) ==
    /\ stage[r] = "job"
    /\ Cardinality({q \in Requests : stage[q] = "running"}) < workers
    /\ stage' = [stage EXCEPT ![r] = "running"]
    /\ UNCHANGED <<lifecycle, handles, events, local, workers, pc, reply, history>>

FinishJob(r) ==
    /\ stage[r] = "running"
    /\ stage' = [stage EXCEPT ![r] = "completed"]
    /\ events' = Append(events, r)
    /\ UNCHANGED <<lifecycle, handles, local, workers, pc, reply, history>>

\* catch_unwind: unwinding drops the reply sender, the completion is still sent.
PanicJob(r) ==
    /\ WorkerFaults
    /\ stage[r] = "running"
    /\ stage' = [stage EXCEPT ![r] = "lost"]
    /\ reply' = [reply EXCEPT ![r] = "EngineFailed"]
    /\ events' = Append(events, r)
    /\ UNCHANGED <<lifecycle, handles, local, workers, pc, history>>

----------------------------------------------------------------------------
(* Dispatch.  The queues, active keys and registry are parameters because  *)
(* every caller updates some of them first.                                *)

\* Mutant: the active set is not consulted.
KeyNeverBusy(k, act) == FALSE

KeyBusy(k, act) == k \in act

AtCapacity(act) == Cardinality(act) >= MaxConcurrent

DispatchIfIdle(k, act, q, reg, st) ==
    IF KeyBusy(k, act) \/ AtCapacity(act) \/ q[k] = <<>>
    THEN /\ active' = act
         /\ queues' = q
         /\ registry' = reg
         /\ stage' = st
         /\ UNCHANGED <<workers, reply>>
    ELSE /\ queues' = [q EXCEPT ![k] = Tail(@)]
         /\ \/ /\ Prepare(Cardinality(act) + 1)
               /\ active' = act \cup {k}
               /\ registry' = reg
               /\ stage' = [st EXCEPT ![Head(q[k])] = "job"]
               /\ UNCHANGED reply
            \/ /\ PrepareFails(Cardinality(act) + 1)
               /\ active' = act
               /\ registry' = IF Tail(q[k]) = <<>> THEN reg \ {k} ELSE reg
               /\ stage' = [st EXCEPT ![Head(q[k])] = "done"]
               /\ reply' = [reply EXCEPT ![Head(q[k])] = "WorkerUnavailable"]

Eligible(k) == queues[k] # <<>> /\ k \notin active

\* One turn of dispatch_available; HashMap iteration order is arbitrary.
DispatchAvailable(k) ==
    /\ pc = "dispatch"
    /\ ~AtCapacity(active)
    /\ Eligible(k)
    /\ DispatchIfIdle(k, active, queues, registry, stage)
    /\ UNCHANGED <<lifecycle, handles, events, pending, maintenanceActive, pc, completing, history>>

DispatchDone ==
    /\ pc = "dispatch"
    /\ AtCapacity(active) \/ \A k \in Keys : ~Eligible(k)

----------------------------------------------------------------------------
(* The scheduler loop.                                                     *)

\* Mutant: operations already with the workers are forgotten.
IdleQueues == \A k \in Keys : queues[k] = <<>>

Idle == active = {} /\ \A k \in Keys : queues[k] = <<>>

FrontIn(kind) == pending # <<>> /\ Head(pending) \in kind

\* Mutant: shutdown starts before the work ahead of the close is drained.
ShutdownEager == FrontIn(Closes)

\* The test at the bottom of the loop.
ShutdownReady == FrontIn(Closes) /\ Idle /\ ~maintenanceActive

\* Mutant: the test at the bottom of the loop is missing.
NextPointOpen == "recv"

NextPoint == IF ShutdownReady THEN "shutdown" ELSE "recv"

Receive(r) ==
    /\ pc = "recv"
    /\ events # <<>>
    /\ r = Head(events)
    /\ events' = Tail(events)

\* Mutant: events behind a close are still accepted.
AcceptsClosing == lifecycle \in {"Open", "Closing"}

Accepts == lifecycle = "Open"

RejectLate(r) ==
    /\ r \notin Closes
    /\ Receive(r)
    /\ stage[r] = "channel"
    /\ ~Accepts
    /\ Answer(r, "StoreClosed")
    /\ UNCHANGED <<lifecycle, handles, local, workers, pc, history>>

\* Mutant: a submission overtakes the events waiting behind a barrier.
MustPostponeActive == maintenanceActive

MustPostpone == maintenanceActive \/ pending # <<>>

PostponeSubmission(o) ==
    /\ Receive(o)
    /\ stage[o] = "channel"
    /\ Accepts
    /\ MustPostpone
    /\ pending' = Append(pending, o)
    /\ stage' = [stage EXCEPT ![o] = "pending"]
    /\ UNCHANGED <<lifecycle, handles, queues, registry, active, maintenanceActive, workers, pc,
                   completing, reply, history>>

Enqueue(o) == [queues EXCEPT ![KeyOf[o]] = Append(@, o)]

QueueSubmission(o) ==
    /\ Receive(o)
    /\ stage[o] = "channel"
    /\ Accepts
    /\ ~MustPostpone
    /\ DispatchIfIdle(KeyOf[o], active, Enqueue(o), registry \cup {KeyOf[o]},
                      [stage EXCEPT ![o] = "queued"])
    /\ pc' = "dispatch"
    /\ UNCHANGED <<lifecycle, handles, pending, maintenanceActive, completing, history>>

FinishSubmission ==
    /\ DispatchDone
    /\ completing = None
    /\ pc' = NextPoint
    /\ UNCHANGED <<lifecycle, handles, events, local, workers, stage, reply, history>>

\* Mutant: a completion without outcome is delivered like any other.
CompletionAlwaysDelivered(s) == "delivering"

CompletionStage(s) == IF s = "completed" THEN "delivering" ELSE "done"

RecvCompletion(o) ==
    /\ Receive(o)
    /\ stage[o] \in {"completed", "lost"}
    /\ DispatchIfIdle(KeyOf[o], active \ {KeyOf[o]}, queues, registry,
                      [stage EXCEPT ![o] = CompletionStage(@)])
    /\ completing' = o
    /\ pc' = "dispatch"
    /\ UNCHANGED <<lifecycle, handles, pending, maintenanceActive, history>>

\* The completed key leaves the map when nothing of it is active or queued.
Unregister(k) ==
    IF k \notin active /\ queues[k] = <<>> THEN registry \ {k} ELSE registry

FinishCompletion ==
    /\ DispatchDone
    /\ completing # None
    /\ registry' = Unregister(KeyOf[completing])
    /\ IF stage[completing] = "delivering"
       THEN Answer(completing, "Ok")
       ELSE UNCHANGED <<stage, reply>>
    /\ completing' = None
    /\ pc' = "advance"
    /\ UNCHANGED <<lifecycle, handles, events, pending, queues, active, maintenanceActive, workers,
                   history>>

RecvBarrier(b) ==
    /\ Receive(b)
    /\ stage[b] = "channel"
    /\ Accepts
    /\ pending' = Append(pending, b)
    /\ stage' = [stage EXCEPT ![b] = "pending"]
    /\ pc' = "advance"
    /\ UNCHANGED <<lifecycle, handles, queues, registry, active, maintenanceActive, workers,
                   completing, reply, history>>

RecvMaintenanceCompletion(m) ==
    /\ Receive(m)
    /\ stage[m] \in {"completed", "lost"}
    /\ maintenanceActive' = FALSE
    /\ IF stage[m] = "completed"
       THEN Answer(m, "Ok")
       ELSE stage' = [stage EXCEPT ![m] = "done"] /\ UNCHANGED reply
    /\ pc' = "advance"
    /\ UNCHANGED <<lifecycle, handles, pending, queues, registry, active, workers, completing,
                   history>>

RecvClose(c) ==
    /\ Receive(c)
    /\ lifecycle' = IF lifecycle = "Open" THEN "Closing" ELSE lifecycle
    /\ IF lifecycle \in {"Open", "Closing"}
       THEN /\ pending' = Append(pending, c)
            /\ stage' = [stage EXCEPT ![c] = "pending"]
            /\ UNCHANGED reply
       ELSE Answer(c, CloseOutcome(lifecycle)) /\ UNCHANGED pending
    /\ pc' = "advance"
    /\ UNCHANGED <<handles, queues, registry, active, maintenanceActive, workers, completing, history>>

----------------------------------------------------------------------------
(* advance_pending_if_ready, one turn of its loop per step.                *)

Advancing(r) ==
    /\ pc = "advance"
    /\ ~maintenanceActive
    /\ pending # <<>>
    /\ r = Head(pending)
    /\ pending' = Tail(pending)

\* Mutant: the completion of a cleanup that got no worker is not sent.
SelfCompletionMissing(m) == events

SelfCompletion(m) == Append(events, m)

\* When no worker can be started the caller gets the error at once and the
\* coordinator sends itself the completion.
StartMaintenance(m) ==
    /\ Advancing(m)
    /\ Idle
    /\ maintenanceActive' = TRUE
    /\ \/ /\ Prepare(1)
          /\ stage' = [stage EXCEPT ![m] = "job"]
          /\ UNCHANGED <<events, reply>>
       \/ /\ PrepareFails(1)
          /\ stage' = [stage EXCEPT ![m] = "lost"]
          /\ reply' = [reply EXCEPT ![m] = "WorkerUnavailable"]
          /\ events' = SelfCompletion(m)
    /\ UNCHANGED <<lifecycle, handles, queues, registry, active, pc, completing, history>>

PromoteSubmission(o) ==
    /\ Advancing(o)
    /\ DispatchIfIdle(KeyOf[o], active, Enqueue(o), registry \cup {KeyOf[o]},
                      [stage EXCEPT ![o] = "queued"])
    /\ UNCHANGED <<lifecycle, handles, events, maintenanceActive, pc, completing, history>>

CompleteFlush(f) ==
    /\ Advancing(f)
    /\ Idle
    /\ Answer(f, "Ok")
    /\ UNCHANGED <<lifecycle, handles, events, queues, registry, active, maintenanceActive, workers,
                   pc, completing, history>>

AdvanceReturn ==
    /\ pc = "advance"
    /\ \/ maintenanceActive
       \/ pending = <<>>
       \/ FrontIn(Closes)
       \/ FrontIn(Maintenances \cup Flushes) /\ ~Idle
    /\ pc' = NextPoint
    /\ UNCHANGED <<lifecycle, handles, events, local, workers, stage, reply, history>>

----------------------------------------------------------------------------
(* Ordered shutdown.                                                       *)

\* Mutant: the worker threads are detached instead of joined.
WorkersDetached == TRUE

\* Joining the workers waits for every job handed to them.
WorkersJoined == \A r \in Requests : ~InFlight(r)

JoinOutcomes == IF WorkerFaults /\ workers > 0 THEN {"Closed", "ShutdownFailed"} ELSE {"Closed"}

ShutdownWorkers ==
    /\ pc = "shutdown"
    /\ WorkersJoined
    /\ workers' = 0
    /\ lifecycle' \in JoinOutcomes
    /\ pc' = "answer"
    /\ UNCHANGED <<handles, events, local, stage, reply, history>>

AnswerPendingClose(c) ==
    /\ pc = "answer"
    /\ pending # <<>>
    /\ c = Head(pending)
    /\ pending' = Tail(pending)
    /\ Answer(c, CloseOutcome(lifecycle))
    /\ UNCHANGED <<lifecycle, handles, events, queues, registry, active, maintenanceActive, workers,
                   pc, completing, history>>

\* Mutant: a drained close succeeds whatever the shutdown's outcome.
DrainReplyOk(r, closed, other) ==
    IF reply[r] # "none" THEN reply[r] ELSE IF r \in Closes THEN "Ok" ELSE other

\* What the final drains send for event r: a completion's result is discarded.
DrainReply(r, closed, other) ==
    IF reply[r] # "none" THEN reply[r] ELSE IF r \in Closes THEN closed ELSE other

DrainEvent(r) ==
    /\ pc = "answer"
    /\ ~FrontIn(Closes)
    /\ events # <<>>
    /\ r = Head(events)
    /\ events' = Tail(events)
    /\ Answer(r, DrainReply(r, CloseOutcome(lifecycle),
                            IF stage[r] = "channel" THEN "StoreClosed" ELSE "EngineFailed"))
    /\ UNCHANGED <<lifecycle, handles, local, workers, pc, history>>

\* Mutant: the coordinator returns without draining its channel.
ChannelIgnored == TRUE

ChannelDrained == events = <<>>

StopCoordinator ==
    /\ pc = "answer"
    /\ ~FrontIn(Closes)
    /\ ChannelDrained
    /\ pc' = "exited"
    /\ UNCHANGED <<lifecycle, handles, events, local, workers, stage, reply, history>>

\* Mutant: the coordinator keeps a sender of its own channel.
SenderKept == TRUE

\* recv fails once no handle and no request holds a sender of the channel.
SenderAlive ==
    \/ handles
    \/ \E r \in Ops \cup Maintenances : stage[r] \in {"channel", "pending", "queued", "job", "running"}

HandlesGone ==
    /\ pc = "recv"
    /\ events = <<>>
    /\ ~SenderAlive
    /\ workers' = 0
    /\ lifecycle' = "Closed"
    /\ pc' = "exited"
    /\ UNCHANGED <<handles, events, local, stage, reply, history>>

----------------------------------------------------------------------------
(* A panic of the coordinator, caught at the top of its thread.  Unwinding *)
(* drops the event in hand, the pending events and the queues with their   *)
(* reply senders, then joins the workers; only then is the engine Failed.  *)

InHand == IF pc = "recv" THEN {Head(events)} ELSE {}

Unwinding == InHand \cup {r \in Requests : stage[r] \in {"pending", "queued", "delivering"}}

CoordinatorPanic ==
    /\ CoordinatorFaults
    /\ pc \in {"recv", "dispatch", "advance", "answer"}
    /\ pc = "recv" => events # <<>>
    /\ events' = IF pc = "recv" THEN Tail(events) ELSE events
    /\ stage' = [r \in Requests |->
                    IF r \notin Unwinding THEN stage[r]
                    ELSE IF r \in Closes THEN "dropped" ELSE "done"]
    /\ reply' = [r \in Requests |->
                    IF r \in Unwinding \ Closes /\ reply[r] = "none" THEN "EngineFailed"
                    ELSE reply[r]]
    /\ pending' = <<>>
    /\ queues' = [k \in Keys |-> <<>>]
    /\ registry' = {}
    /\ active' = {}
    /\ maintenanceActive' = FALSE
    /\ completing' = None
    /\ pc' = "unwind"
    /\ UNCHANGED <<lifecycle, handles, workers, history>>

Unwound ==
    /\ pc = "unwind"
    /\ WorkersJoined
    /\ workers' = 0
    /\ lifecycle' = "Failed"
    /\ pc' = "faildrain"
    /\ UNCHANGED <<handles, events, local, stage, reply, history>>

FailQueued(r) ==
    /\ pc = "faildrain"
    /\ events # <<>>
    /\ r = Head(events)
    /\ events' = Tail(events)
    /\ Answer(r, DrainReply(r, "ShutdownFailure", "EngineFailed"))
    /\ UNCHANGED <<lifecycle, handles, local, workers, pc, history>>

FailExit ==
    /\ pc = "faildrain"
    /\ ChannelDrained
    /\ pc' = "exited"
    /\ UNCHANGED <<lifecycle, handles, events, local, workers, stage, reply, history>>

\* The engine has stopped and every call has returned.
Terminated ==
    /\ pc = "exited"
    /\ ~handles
    /\ \A r \in Requests : stage[r] \in {"new", IF r \in Closes THEN "joined" ELSE "done"}
    /\ UNCHANGED vars

----------------------------------------------------------------------------
Callers ==
    \/ \E r \in Ops \cup Maintenances \cup Flushes : Submit(r)
    \/ \E c \in Closes : Close(c) \/ CloseWake(c) \/ CloseReturn(c)
    \/ DropHandles

Workers ==
    \E r \in Ops \cup Maintenances : StartJob(r) \/ FinishJob(r) \/ PanicJob(r)

Scheduler ==
    \/ \E k \in Keys : DispatchAvailable(k)
    \/ \E o \in Ops : \/ PostponeSubmission(o)
                      \/ QueueSubmission(o)
                      \/ RecvCompletion(o)
                      \/ PromoteSubmission(o)
    \/ \E m \in Maintenances : RecvMaintenanceCompletion(m) \/ StartMaintenance(m)
    \/ \E f \in Flushes : CompleteFlush(f)
    \/ \E b \in Maintenances \cup Flushes : RecvBarrier(b)
    \/ \E r \in Ops \cup Maintenances \cup Flushes : RejectLate(r)
    \/ \E c \in Closes : RecvClose(c) \/ AnswerPendingClose(c)
    \/ \E r \in Requests : DrainEvent(r) \/ FailQueued(r)
    \/ FinishSubmission
    \/ FinishCompletion
    \/ AdvanceReturn
    \/ ShutdownWorkers
    \/ StopCoordinator
    \/ HandlesGone
    \/ Unwound
    \/ FailExit

Next == Callers \/ Workers \/ Scheduler \/ CoordinatorPanic \/ Terminated

Spec == Init /\ [][Next]_vars

\* The coordinator thread runs whenever it has something to do, a worker that
\* has a job starts it and every job ends (a streaming job ends because its
\* caller goes on or cancels), and a caller blocked in close runs when woken.
\* Nothing makes a caller submit, close or drop its handle, nor anything fail.
Fairness ==
    /\ WF_vars(Scheduler)
    /\ \A r \in Ops \cup Maintenances : WF_vars(StartJob(r)) /\ WF_vars(FinishJob(r))
    /\ \A c \in Closes : WF_vars(CloseWake(c)) /\ WF_vars(CloseReturn(c))

FairSpec == Spec /\ Fairness

----------------------------------------------------------------------------
(* Properties.                                                             *)

\* Every variable of the engine has its type; the pool never exceeds capacity.
TypeOK ==
    /\ lifecycle \in Lifecycles
    /\ handles \in BOOLEAN
    /\ events \in Seq(Requests)
    /\ pending \in Seq(Requests)
    /\ queues \in [Keys -> Seq(Ops)]
    /\ registry \subseteq Keys
    /\ active \subseteq Keys
    /\ maintenanceActive \in BOOLEAN
    /\ workers \in 0..MaxConcurrent
    /\ pc \in Points
    /\ completing \in Ops \cup {None}
    /\ stage \in [Requests -> Stages]
    /\ reply \in [Requests -> Replies]
    /\ sent \in Nat
    /\ ticket \in [Requests -> Nat]

\* Two operations on one key are never with the workers at the same time,
\* also while the coordinator unwinds from a panic.
PerKeyExclusion ==
    \A o, p \in Ops : InFlight(o) /\ InFlight(p) /\ KeyOf[o] = KeyOf[p] => o = p

Admitted(r) == ticket[r] > 0
Before(r, s) == Admitted(r) /\ ticket[r] < ticket[s]

\* Operations on one key execute in the order in which they were admitted: when
\* one has been dispatched, no earlier one on its key is waiting or executing,
\* whatever barriers, capacity limits and failed dispatches came in between.
PerKeyFIFO ==
    \A o, p \in Ops :
        Before(o, p) /\ KeyOf[o] = KeyOf[p] /\ Started(p)
            => stage[o] \in {"completed", "lost", "delivering", "done"}

\* Every dispatched job has a worker thread of its own, so a job never waits for
\* a stalled stream to give its worker back.
WorkerForEveryJob == Cardinality({r \in Requests : InFlight(r)}) <= workers

\* A cleanup never runs beside a blob operation.
MaintenanceExclusive ==
    \A m \in Maintenances, o \in Ops : ~(InFlight(m) /\ InFlight(o))

\* A flush that succeeded and a cleanup that was dispatched had all earlier
\* operations and cleanups answered; while a flush or cleanup is outstanding no
\* later operation has been dispatched.
BarrierOrder ==
    /\ \A f \in Flushes, r \in Ops \cup Maintenances :
          reply[f] = "Ok" /\ Before(r, f) => stage[r] = "done"
    /\ \A m \in Maintenances, r \in Ops : Started(m) /\ Before(r, m) => stage[r] = "done"
    /\ \A b \in Flushes \cup Maintenances, o \in Ops :
          Before(b, o) /\ (stage[b] \in {"channel", "pending"} \/ InFlight(b)) => ~Started(o)

\* Close is an ordered barrier: work admitted before it is not turned away, and
\* all of it has been answered when the close reports success; work admitted
\* after it never executes.  This holds through every fault.
CloseOrder ==
    \A r \in Requests \ Closes :
        /\ reply[r] = "StoreClosed" /\ Admitted(r) => \E c \in Closes : Before(c, r)
        /\ (\E c \in Closes : Before(c, r)) =>
               /\ stage[r] \in {"channel", "done"}
               /\ reply[r] \in {"none", "StoreClosed", "EngineFailed"}
        /\ \A c \in Closes : reply[c] = "Ok" /\ Before(r, c) => stage[r] = "done"

HasCompletion == \E i \in 1..Len(events) : stage[events[i]] \in {"completed", "lost"}

\* When the coordinator waits for an event although requests are queued or
\* pending, a job or a completion exists that will wake it, and no idle key
\* waits while a worker slot is free.
NoStall ==
    pc = "recv" =>
        /\ pending # <<>> \/ (\E k \in Keys : queues[k] # <<>>)
              => HasCompletion \/ \E r \in Requests : InFlight(r)
        /\ AtCapacity(active) \/ \A k \in Keys : ~Eligible(k)

\* A request is answered at most once: a second send on its one-slot reply
\* channel could block the coordinator for ever.
ReplyOnce ==
    [][\A r \in Requests : reply[r] # "none" => reply'[r] = reply[r]]_vars

\* Once the lifecycle is terminal all worker threads are gone and no job runs.
TerminalIsQuiescent ==
    lifecycle \in {"Closed", "ShutdownFailed", "Failed"} =>
        workers = 0 /\ \A r \in Requests : ~InFlight(r)

\* A stopped coordinator leaves a terminal lifecycle, an empty channel and no
\* request without an answer; so a returned close has drained everything.
ExitLeavesNothing ==
    pc = "exited" =>
        /\ lifecycle \in {"Closed", "ShutdownFailed", "Failed"}
        /\ events = <<>>
        /\ \A r \in Requests :
              stage[r] \in {"new", "done"} \cup (IF r \in Closes THEN {"dropped", "joined"} ELSE {})

\* Close callers share one outcome, whenever they called, unless the
\* coordinator itself panicked.
CloseAgreement ==
    \A c, d \in Closes :
        lifecycle # "Failed" /\ pc # "unwind" /\ reply[c] # "none" /\ reply[d] # "none"
            => reply[c] = reply[d]

\* Every admitted request is answered.
EveryRequestAnswered ==
    \A r \in Requests : Admitted(r) ~> reply[r] # "none"

\* Every close call returns after joining the coordinator.
EveryCloseReturns == \A c \in Closes : stage[c] # "new" ~> stage[c] = "joined"

\* Dropping the last handle stops the coordinator and its workers.
LastHandleStops == ~handles ~> pc = "exited" /\ workers = 0
=============================================================================
