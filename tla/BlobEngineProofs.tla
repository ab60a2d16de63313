-------------------------- MODULE BlobEngineProofs --------------------------
(***************************************************************************)
(* Theorems about the engine with blobs: what a load reads, and that the   *)
(* engine implements OrderedStore, for any number of keys, requests and    *)
(* workers, with and without faults.                                       *)
(***************************************************************************)
EXTENDS BlobEngine, CoordinatorProofs

----------------------------------------------------------------------------
(* The engine with blobs is the engine: a job's effect is no step of the   *)
(* coordinator's, and its worker's steps are.                              *)

LEMMA StoreStep == [StoreNext]_storeVars => [Next]_vars
BY DEF StoreNext, storeVars, Jobs, Perform, Work, Next, Workers

LEMMA StoreIsEngine == StoreSpec => Spec
<1>1. StoreInit => Init
  BY DEF StoreInit
<1> QED
  BY <1>1, StoreStep, PTL DEF StoreSpec, Spec

----------------------------------------------------------------------------
(* What loads read.  A job that had its effect is past its start, and so   *)
(* is everything before it on its key: the blob of a key is therefore the  *)
(* last save in the order of admission that took effect.                   *)

Past == {"completed", "lost", "delivering", "done"}

StoreType ==
    /\ blob \in [Keys -> Saves \cup {Absent}]
    /\ outcome \in [Jobs -> Requests \cup {Absent, "none", "failed"}]

\* A job has its effect while it runs.
WorkedInv ==
    \A r \in Jobs : outcome[r] # "none" => stage[r] \in Past \cup {"running"} /\ ticket[r] > 0

\* The operations before it on its key are over by then.
PassedInv ==
    \A o, p \in Ops : outcome[p] # "none" /\ KeyOf[o] = KeyOf[p] /\ Before(o, p) => stage[o] \in Past

Effective(k) == {s \in Saves : KeyOf[s] = k /\ outcome[s] = s}

IsLast(x, S, t) == IF S = {} THEN x = Absent ELSE x \in S /\ \A s \in S : t[s] <= t[x]

BlobInv == \A k \in Keys : IsLast(blob[k], Effective(k), ticket)

StoreInv == StoreType /\ WorkedInv /\ PassedInv /\ BlobInv /\ LoadsSeeLastSave

\* The jobs among the requests.
LEMMA JobFacts ==
    /\ Jobs \subseteq Requests /\ Saves \subseteq Ops /\ Loads \subseteq Ops /\ Ops \subseteq Jobs
    /\ Jobs \cap Closes = {} /\ Jobs \cap Flushes = {}
    /\ Maintenances \cap Ops = {} /\ Maintenances \subseteq Jobs
    /\ \A o \in Ops : KeyOf[o] \in Keys
BY KindsAssumption, KeysAssumption, SavesAssumption DEF Jobs, Loads, Requests

LEMMA StoreInvInit == StoreInit => StoreInv
<1> SUFFICES ASSUME StoreInit PROVE StoreInv
  OBVIOUS
<1>1. /\ blob = [k \in Keys |-> Absent] /\ outcome = [r \in Jobs |-> "none"]
  BY DEF StoreInit
<1>2. \A s \in Saves : outcome[s] # s
  BY <1>1, JobFacts, OutcomesAssumption
<1> QED
  BY <1>1, <1>2, JobFacts
     DEF StoreInv, StoreType, WorkedInv, PassedInv, BlobInv, IsLast, Effective, LoadsSeeLastSave

\* Steps without an effect keep what is known about the effects so far.
LEMMA StoreKept ==
    ASSUME EngineInv, StoreInv, [Next]_vars, UNCHANGED store
    PROVE  StoreInv'
<1> USE DEF StoreInv
<1>1. EngineInv' /\ Moves /\ OrderInv /\ TypeOK
  BY EngineNext DEF EngineInv, OrderInv
<1>2. blob' = blob /\ outcome' = outcome
  BY DEF store
<1>3. StoreType'
  BY <1>2 DEF StoreType
<1>4. ASSUME NEW r \in Jobs, stage[r] \in Past
      PROVE  stage'[r] \in Past
  <2>1. r \in Requests \ Closes
    BY JobFacts
  <2> QED
    BY <1>1, <1>4, <2>1 DEF Past, Moves, Moved, FromReceived
<1>5. ASSUME NEW r \in Jobs, outcome[r] # "none"
      PROVE  /\ stage'[r] \in Past \cup {"running"}
             /\ ticket'[r] = ticket[r] /\ ticket[r] > 0
  <2>1. r \in Requests /\ stage[r] \in Past \cup {"running"} /\ ticket[r] > 0
    BY <1>5, JobFacts DEF WorkedInv
  <2>2. stage'[r] \in Past \cup {"running"}
    <3>1. CASE stage[r] = "running"
      BY <1>1, <2>1, <3>1 DEF Moves, Moved, Past
    <3> QED
      BY <1>4, <2>1, <3>1
  <2>3. ticket'[r] = ticket[r]
    BY <1>1, <2>1, TicketKept DEF Past
  <2> QED
    BY <2>1, <2>2, <2>3
<1>6. WorkedInv'
  BY <1>2, <1>5 DEF WorkedInv
<1>7. PassedInv'
  <2> SUFFICES ASSUME NEW o \in Ops, NEW p \in Ops, outcome[p] # "none", KeyOf[o] = KeyOf[p], Before(o, p)'
               PROVE  stage'[o] \in Past
    BY <1>2 DEF PassedInv
  <2>1. o \in Requests /\ p \in Requests /\ o \in Jobs /\ p \in Jobs
    BY JobFacts
  <2>2. stage'[p] # "channel"
    BY <1>5, <2>1 DEF Past
  <2>3. Before(o, p)
    BY <1>1, <2>1, <2>2, BeforeKept
  <2> QED
    BY <1>4, <2>1, <2>3 DEF PassedInv
<1>8. \A s \in Saves : outcome[s] = s => ticket'[s] = ticket[s]
  BY <1>5, JobFacts, OutcomesAssumption
<1>9. BlobInv'
  <2> SUFFICES ASSUME NEW k \in Keys PROVE IsLast(blob[k], Effective(k), ticket')
    BY <1>2 DEF BlobInv, Effective
  <2>1. IsLast(blob[k], Effective(k), ticket)
    BY DEF BlobInv
  <2> QED
    BY <1>8, <2>1 DEF IsLast, Effective
<1>10. LoadsSeeLastSave'
  <2> SUFFICES ASSUME NEW o \in Loads, outcome[o] \notin {"none", "failed"}
               PROVE  LET before == {s \in Saves : KeyOf[s] = KeyOf[o] /\ Before(s, o)' /\ outcome[s] = s}
                      IN  IF before = {} THEN outcome[o] = Absent
                          ELSE outcome[o] \in before /\ \A s \in before : ticket'[s] <= ticket'[outcome[o]]
    BY <1>2 DEF LoadsSeeLastSave
  <2>1. ticket'[o] = ticket[o]
    BY <1>5, JobFacts
  <2>2. \A s \in Saves : outcome[s] = s => (Before(s, o)' <=> Before(s, o))
    BY <1>8, <2>1 DEF Before, Admitted
  <2> QED
    BY <1>8, <2>2 DEF LoadsSeeLastSave
<1> QED
  BY <1>3, <1>6, <1>7, <1>9, <1>10

\* Whatever had its effect on the key of a running operation came before it.
LEMMA EarlierOnKey ==
    ASSUME EngineInv, StoreInv, NEW r \in Ops, stage[r] = "running",
           NEW q \in Ops, q # r, KeyOf[q] = KeyOf[r], outcome[q] # "none"
    PROVE  Before(q, r)
<1>1. q \in Jobs /\ q \in Requests /\ r \in Requests
  BY JobFacts
<1>2. ticket[q] > 0 /\ ticket[r] > 0 /\ ticket[q] \in Nat /\ ticket[r] \in Nat /\ ticket[q] # ticket[r]
  BY <1>1 DEF StoreInv, WorkedInv, EngineInv, OrderInv, TicketInv, TypeOK
<1>3. ~Before(r, q)
  BY DEF StoreInv, PassedInv, Past
<1> QED
  BY <1>2, <1>3 DEF Before, Admitted

\* A job's effect.
LEMMA StorePerformed ==
    ASSUME EngineInv, PerKeyFIFO, StoreInv, NEW r \in Jobs, Perform(r)
    PROVE  StoreInv'
<1> USE DEF StoreInv
<1>1. /\ stage' = stage /\ ticket' = ticket /\ stage[r] = "running" /\ outcome[r] = "none"
      /\ r \in Requests
  BY JobFacts DEF Perform, vars, history
<1>2. PICK v : /\ outcome' = [outcome EXCEPT ![r] = v]
               /\ \/ v = "failed" /\ blob' = blob
                  \/ v = r /\ r \in Saves /\ blob' = [blob EXCEPT ![KeyOf[r]] = r]
                  \/ v = blob[KeyOf[r]] /\ r \in Loads /\ blob' = blob
                  \/ v = r /\ r \in Maintenances /\ blob' = blob
  BY DEF Perform
<1>3. StoreType'
  <2>1. v \in Requests \cup {Absent, "none", "failed"}
    <3>1. \A k \in Keys : blob[k] \in Saves \cup {Absent}
      BY DEF StoreType
    <3> QED
      BY <1>1, <1>2, <3>1, JobFacts
  <2>2. outcome' \in [Jobs -> Requests \cup {Absent, "none", "failed"}]
    BY <1>2, <2>1 DEF StoreType
  <2>3. blob' \in [Keys -> Saves \cup {Absent}]
    BY <1>2, JobFacts DEF StoreType
  <2> QED
    BY <2>2, <2>3 DEF StoreType
<1>4. /\ outcome'[r] = v /\ \A q \in Jobs : q # r => outcome'[q] = outcome[q]
  BY <1>2 DEF StoreType
<1>5. WorkedInv'
  <2>1. ticket[r] > 0
    BY <1>1 DEF EngineInv, OrderInv, TicketInv
  <2> QED
    BY <1>1, <1>4, <2>1 DEF WorkedInv
<1>6. PassedInv'
  <2> SUFFICES ASSUME NEW o \in Ops, NEW p \in Ops, outcome'[p] # "none", KeyOf[o] = KeyOf[p], Before(o, p)
               PROVE  stage[o] \in Past
    BY <1>1 DEF PassedInv, Before, Admitted
  <2>1. CASE p = r
    BY <1>1, <2>1 DEF PerKeyFIFO, Started, Past
  <2>2. CASE p # r
    BY <1>4, <2>2, JobFacts DEF PassedInv
  <2> QED
    BY <2>1, <2>2
<1>7. \A q \in Ops : r \in Ops /\ q # r /\ KeyOf[q] = KeyOf[r] /\ outcome[q] # "none" => Before(q, r)
  BY <1>1, EarlierOnKey
<1>8. \A s \in Saves : s # r /\ outcome[s] = s => outcome[s] # "none"
  BY JobFacts, OutcomesAssumption
<1>9. r \notin {"none", "failed"} /\ Absent \notin {"none", "failed"}
  BY <1>1, OutcomesAssumption
<1>10. CASE v = r /\ r \in Saves
  <2>1. r \in Ops /\ r \notin Loads /\ KeyOf[r] \in Keys /\ blob'[KeyOf[r]] = r
        /\ \A k \in Keys : k # KeyOf[r] => blob'[k] = blob[k]
    <3>1. r \in Ops /\ r \notin Loads /\ KeyOf[r] \in Keys
      BY <1>10, JobFacts DEF Loads
    <3>2. blob' = [blob EXCEPT ![KeyOf[r]] = r]
      BY <1>2, <1>9, <1>10, <3>1, JobFacts
    <3> QED
      BY <3>1, <3>2 DEF StoreType
  <2>2. \A s \in Saves : outcome'[s] = s <=> s = r \/ outcome[s] = s
    BY <1>4, <1>10, JobFacts
  <2>3. \A s \in Saves : outcome[s] = s /\ KeyOf[s] = KeyOf[r] => ticket[s] <= ticket[r]
    <3>1. \A s \in Ops : ticket[s] \in Nat
      BY JobFacts DEF EngineInv, OrderInv, TypeOK
    <3> QED
      BY <1>1, <1>7, <1>8, <2>1, <3>1, JobFacts DEF Before, Admitted
  <2>4. BlobInv'
    <3> SUFFICES ASSUME NEW k \in Keys PROVE IsLast(blob'[k], Effective(k)', ticket)
      BY <1>1 DEF BlobInv
    <3>1. CASE k = KeyOf[r]
      <4>1. Effective(k)' = Effective(k) \cup {r}
        BY <1>10, <2>2, <3>1 DEF Effective
      <4>2. \A s \in Effective(k) : ticket[s] <= ticket[r]
        BY <2>3, <3>1 DEF Effective
      <4>3. ticket[r] \in Nat
        BY <1>1 DEF EngineInv, OrderInv, TypeOK
      <4> QED
        BY <2>1, <3>1, <4>1, <4>2, <4>3 DEF IsLast
    <3>2. CASE k # KeyOf[r]
      <4>1. Effective(k)' = Effective(k)
        BY <2>2, <3>2 DEF Effective
      <4> QED
        BY <2>1, <3>2, <4>1 DEF BlobInv
    <3> QED
      BY <3>1, <3>2
  <2>5. LoadsSeeLastSave'
    <3>1. ASSUME NEW o \in Loads, outcome[o] \notin {"none", "failed"}, KeyOf[r] = KeyOf[o]
          PROVE  ~Before(r, o)
      <4>1. o \in Ops /\ o # r /\ Before(o, r)
        BY <1>7, <2>1, <3>1, JobFacts
      <4>2. ticket[o] \in Nat /\ ticket[r] \in Nat
        BY <1>1, <4>1, JobFacts DEF EngineInv, OrderInv, TypeOK
      <4> QED
        BY <4>1, <4>2 DEF Before, Admitted
    <3>2. \A o \in Loads : outcome'[o] = outcome[o]
      BY <1>4, <2>1, JobFacts
    <3>3. \A o \in Loads : outcome[o] \notin {"none", "failed"} =>
            {s \in Saves : KeyOf[s] = KeyOf[o] /\ Before(s, o) /\ outcome'[s] = s}
            = {s \in Saves : KeyOf[s] = KeyOf[o] /\ Before(s, o) /\ outcome[s] = s}
      BY <2>2, <3>1
    <3>4. \A s, o \in Ops : Before(s, o)' <=> Before(s, o)
      BY <1>1 DEF Before, Admitted
    <3> SUFFICES ASSUME NEW o \in Loads, outcome[o] \notin {"none", "failed"}
                 PROVE  LET before == {s \in Saves : KeyOf[s] = KeyOf[o] /\ Before(s, o) /\ outcome'[s] = s}
                        IN  IF before = {} THEN outcome[o] = Absent
                            ELSE outcome[o] \in before /\ \A s \in before : ticket[s] <= ticket[outcome[o]]
      BY <1>1, <3>2, <3>4, JobFacts DEF LoadsSeeLastSave
    <3> QED
      BY <3>3 DEF LoadsSeeLastSave
  <2> QED
    BY <1>3, <1>5, <1>6, <2>4, <2>5
<1>11. CASE ~(v = r /\ r \in Saves)
  <2>1. \A s \in Saves : outcome'[s] = s <=> outcome[s] = s
    BY <1>1, <1>4, <1>9, <1>11, JobFacts
  <2>2. blob' = blob
    BY <1>2, <1>11
  <2>3. \A k \in Keys : Effective(k)' = Effective(k)
    BY <2>1 DEF Effective
  <2>4. BlobInv'
    BY <1>1, <2>2, <2>3 DEF BlobInv
  <2>5. LoadsSeeLastSave'
    <3> DEFINE Behind(o) == {s \in Saves : KeyOf[s] = KeyOf[o] /\ Before(s, o) /\ outcome[s] = s}
    <3>1. \A o \in Loads : Behind(o)' = Behind(o)
      BY <1>1, <2>1 DEF Before, Admitted
    <3>2. ASSUME NEW o \in Loads, outcome'[o] \notin {"none", "failed"}
          PROVE  IsLast(outcome'[o], Behind(o), ticket)
      <4>1. CASE o # r
        BY <1>4, <3>2, <4>1, JobFacts DEF LoadsSeeLastSave, IsLast
      <4>2. CASE o = r
        <5>1. outcome'[o] = blob[KeyOf[r]] /\ r \in Ops /\ KeyOf[r] \in Keys /\ r \notin Saves /\ r \notin Maintenances
          BY <1>2, <1>4, <3>2, <4>2, JobFacts DEF Loads
        <5>2. Effective(KeyOf[r]) = Behind(r)
          BY <1>7, <1>8, <5>1, JobFacts DEF Effective
        <5> QED
          BY <4>2, <5>1, <5>2 DEF BlobInv
      <4> QED
        BY <4>1, <4>2
    <3> HIDE DEF Behind
    <3>3. ASSUME NEW o \in Loads, outcome'[o] \notin {"none", "failed"}
          PROVE  IF Behind(o)' = {} THEN outcome'[o] = Absent
                 ELSE outcome'[o] \in Behind(o)' /\ \A s \in Behind(o)' : ticket'[s] <= ticket'[outcome'[o]]
      BY <1>1, <3>1, <3>2, <3>3 DEF IsLast
    <3> USE DEF Behind
    <3> QED
      BY <3>3 DEF LoadsSeeLastSave
  <2> QED
    BY <1>3, <1>5, <1>6, <2>4, <2>5
<1> QED
  BY <1>10, <1>11

LEMMA StoreInvariant == StoreSpec => [](EngineInv /\ StoreInv)
<1>1. EngineInv /\ PerKeyFIFO /\ StoreInv /\ [StoreNext]_storeVars => StoreInv'
  <2> SUFFICES ASSUME EngineInv, PerKeyFIFO, StoreInv, [StoreNext]_storeVars PROVE StoreInv'
    OBVIOUS
  <2>1. CASE UNCHANGED store
    BY <2>1, StoreKept, StoreStep
  <2>2. CASE \E r \in Jobs : Perform(r)
    BY <2>2, StorePerformed
  <2> QED
    BY <2>1, <2>2 DEF StoreNext, storeVars
<1> QED
  BY <1>1, StoreInvInit, StoreIsEngine, EngineInvariant, KeysInOrder, PTL DEF StoreSpec

\* A load reads the last save admitted before it on its key that took effect, for
\* any number of keys, requests and workers, across failed jobs, panics and
\* barriers (dispatch_if_idle keeps the jobs of a key apart and in order).
THEOREM LoadsReadTheLastSave == StoreSpec => []LoadsSeeLastSave
<1>1. StoreInv => LoadsSeeLastSave
  BY DEF StoreInv
<1> QED
  BY <1>1, StoreInvariant, PTL

----------------------------------------------------------------------------
(* The engine implements the ordered store.  Of each request the ordered   *)
(* store sees whether it is new, whether its caller has been answered or   *)
(* has returned, and what its job did.                                     *)

\* An answer is there when the request is over, and a close returns from a
\* stopped coordinator.
AnsweredInv ==
    \A r \in Requests : /\ stage[r] \in {"lost", "done", "joined"} => reply[r] # "none"
                        /\ stage[r] = "joined" => pc = "exited"

\* A job that completed had its effect.
FinishedInv == \A r \in Jobs : stage[r] \in {"completed", "delivering"} => outcome[r] # "none"

LEMMA AnsweredNext == EngineInv /\ AnsweredInv /\ [Next]_vars => AnsweredInv'
<1> SUFFICES ASSUME EngineInv, AnsweredInv, [Next]_vars, NEW r \in Requests
             PROVE  /\ stage'[r] \in {"lost", "done", "joined"} => reply'[r] # "none"
                    /\ stage'[r] = "joined" => pc' = "exited"
  BY DEF AnsweredInv
<1>1. Moves
  BY EngineNext
<1>2. pc = "exited" => pc' = "exited"
  BY LifeStep DEF Turn, RecvClose, Receive, Stop, ShutdownWorkers, StopCoordinator, HandlesGone, Unwound,
                  FailExit, CoordinatorPanic
<1>3. CASE stage'[r] = stage[r] /\ Kept(r)
  BY <1>2, <1>3 DEF AnsweredInv, Kept
<1>4. CASE Moved(r)
  <2>1. reply'[r] # "none" \/ stage'[r] \notin {"lost", "done", "joined"}
    BY <1>4 DEF Moved, FromNew, FromChannel, FromPending, FromQueued, FromReceived, Kept, AnsweredInv, CloseOutcome
  <2>2. stage'[r] = "joined" => pc = "exited"
    BY <1>4 DEF Moved, FromNew, FromChannel, FromPending, FromQueued, FromReceived
  <2> QED
    BY <1>2, <2>1, <2>2
<1> QED
  BY <1>1, <1>3, <1>4 DEF Moves

\* What the ordered store does not see of a step.
Same(r) ==
    /\ stage'[r] = "new" <=> stage[r] = "new"
    /\ stage'[r] = "joined" <=> stage[r] = "joined"
    /\ Kept(r)

\* A move between the coordinator's places.
Inside(r) ==
    \/ stage'[r] = stage[r]
    \/ stage[r] \notin {"new", "joined"} /\ stage'[r] \notin {"new", "joined", "completed"}

\* The dispatch of an operation answers one request at most.
LEMMA DispatchInside ==
    ASSUME TypeOK, NEW st \in [Requests -> Stages], DispatchMoves(st),
           \A r \in Requests : \/ st[r] = stage[r]
                               \/ stage[r] \notin {"new", "joined"} /\ st[r] \notin {"new", "joined", "completed"}
    PROVE  /\ \A r \in Requests : Inside(r)
           /\ \E x : \A r \in Requests \ {x} : Kept(r)
<1>1. Ops \subseteq Requests /\ reply \in [Requests -> Replies]
  BY OpsAreRequests DEF TypeOK
<1>2. CASE stage' = st /\ reply' = reply
  BY <1>2 DEF Inside, Kept
<1>3. CASE \E h \in Ops : /\ st[h] = "queued"
                          /\ \/ stage' = [st EXCEPT ![h] = "job"] /\ reply' = reply
                             \/ stage' = [st EXCEPT ![h] = "done"] /\ reply' = [reply EXCEPT ![h] = "WorkerUnavailable"]
  <2>1. PICK h \in Ops :
            /\ st[h] = "queued"
            /\ \/ stage' = [st EXCEPT ![h] = "job"] /\ reply' = reply
               \/ stage' = [st EXCEPT ![h] = "done"] /\ reply' = [reply EXCEPT ![h] = "WorkerUnavailable"]
    BY <1>3
  <2>2. \A r \in Requests \ {h} : Kept(r) /\ stage'[r] = st[r]
    BY <1>1, <2>1 DEF Kept
  <2>3. stage'[h] \in {"job", "done"} /\ stage[h] \notin {"new", "joined"}
    BY <1>1, <2>1
  <2>4. \A r \in Requests : Inside(r)
    BY <2>2, <2>3 DEF Inside
  <2> QED
    BY <2>2, <2>4
<1> QED
  BY <1>2, <1>3 DEF DispatchMoves

\* So does a step that has one request in its hand.
LEMMA OneInside ==
    ASSUME TypeOK, NEW x \in Requests, stage[x] \notin {"new", "joined"},
           NEW s, s \notin {"new", "joined", "completed"}, stage' = [stage EXCEPT ![x] = s],
           reply' = reply \/ \E v : reply' = [reply EXCEPT ![x] = v]
    PROVE  /\ \A r \in Requests : Inside(r)
           /\ \E y : \A r \in Requests \ {y} : Kept(r)
<1>1. stage \in [Requests -> Stages] /\ reply \in [Requests -> Replies]
  BY DEF TypeOK
<1>2. \A r \in Requests \ {x} : Kept(r) /\ stage'[r] = stage[r]
  BY <1>1 DEF Kept
<1>3. stage'[x] = s
  BY <1>1
<1>4. \A r \in Requests : Inside(r)
  BY <1>2, <1>3 DEF Inside
<1> QED
  BY <1>2, <1>4

LEMMA SchedulerInside ==
    ASSUME OrderInv, Scheduler
    PROVE  /\ \A r \in Requests : Inside(r)
           /\ \E x : \A r \in Requests \ {x} : Kept(r)
<1> DEFINE P == (\A r \in Requests : Inside(r)) /\ \E x : \A r \in Requests \ {x} : Kept(r)
<1> USE DEF OrderInv
<1>1. /\ events \in Seq(Requests) /\ pending \in Seq(Requests) /\ queues \in [Keys -> Seq(Ops)] /\ TypeOK
      /\ stage \in [Requests -> Stages] /\ ticket \in [Requests -> Nat] /\ reply \in [Requests -> Replies]
      /\ Line(events, pending, queues, stage, ticket)
  BY DEF TypeOK, LineInv
<1>2. \A o \in Ops : o \in Requests /\ KeyOf[o] \in Keys
  BY OpsAreRequests, KeysAssumption
<1>3. events # <<>> => Head(events) \in Requests /\ stage[Head(events)] \in {"channel", "completed", "lost"}
  BY <1>1, TakeEvent DEF Line, InChannel
<1>4. pending # <<>> => Head(pending) \in Requests /\ stage[Head(pending)] = "pending"
  BY <1>1, TakePending DEF Line
<1> HIDE DEF OrderInv, P
<1>5. ASSUME NEW k \in Keys, DispatchAvailable(k) PROVE P
  <2>1. DispatchIfIdle(k, active, queues, registry, stage)
    BY <1>5 DEF DispatchAvailable
  <2>2. DispatchMoves(stage)
    BY <1>1, <2>1, DispatchDoes
  <2> QED
    BY <1>1, <2>2, DispatchInside DEF P
<1>6. ASSUME NEW o \in Ops, QueueSubmission(o) \/ PromoteSubmission(o) PROVE P
  <2> DEFINE st == [stage EXCEPT ![o] = "queued"]
  <2>1. /\ DispatchIfIdle(KeyOf[o], active, Enqueue(o), registry \cup {KeyOf[o]}, st)
        /\ \/ events # <<>> /\ o = Head(events) /\ stage[o] = "channel" /\ pending = <<>>
           \/ pending # <<>> /\ o = Head(pending)
    BY <1>6 DEF QueueSubmission, PromoteSubmission, Advancing, Receive, MustPostpone
  <2>2. \/ Line(Tail(events), pending, Enqueue(o), st, ticket) /\ Tail(events) \in Seq(Requests)
        \/ Line(events, Tail(pending), Enqueue(o), st, ticket)
    <3>1. CASE events # <<>> /\ o = Head(events) /\ stage[o] = "channel" /\ pending = <<>>
      <4>1. Line(Tail(events), pending, Enqueue(o), st, ticket)
        BY <1>1, <3>1, EventQueued DEF Enqueue
      <4>2. Tail(events) \in Seq(Requests)
        BY <1>1, <3>1
      <4> QED
        BY <4>1, <4>2
    <3>2. CASE pending # <<>> /\ o = Head(pending)
      BY <1>1, <3>2, PendingQueued DEF Enqueue
    <3> QED
      BY <2>1, <3>1, <3>2
  <2>3. /\ Enqueue(o) \in [Keys -> Seq(Ops)] /\ st \in [Requests -> Stages]
        /\ st[o] = "queued" /\ \A r \in Requests : r # o => st[r] = stage[r]
    BY <1>1, <1>2, EnqueueTyped DEF Stages
  <2>4. stage[o] \notin {"new", "joined"}
    BY <1>4, <2>1
  <2> HIDE DEF st
  <2>5. DispatchMoves(st)
    BY <1>1, <1>2, <2>1, <2>2, <2>3, DispatchDoes
  <2> QED
    BY <1>1, <2>3, <2>4, <2>5, DispatchInside DEF P
<1>7. ASSUME NEW o \in Ops, RecvCompletion(o) PROVE P
  <2> DEFINE s == CompletionStage(stage[o])
             st == [stage EXCEPT ![o] = s]
  <2>1. /\ DispatchIfIdle(KeyOf[o], active \ {KeyOf[o]}, queues, registry, st)
        /\ events # <<>> /\ o = Head(events) /\ stage[o] \in {"completed", "lost"}
    BY <1>7 DEF RecvCompletion, Receive
  <2>2. s \in {"done", "delivering"} /\ (s = "delivering" => stage[o] = "completed" /\ Single(stage))
    BY <2>1 DEF CompletionStage, ExclusionInv, OrderInv
  <2> HIDE DEF s
  <2>3. /\ st \in [Requests -> Stages] /\ Tail(events) \in Seq(Requests)
        /\ st[o] = s /\ \A r \in Requests : r # o => st[r] = stage[r]
    BY <1>1, <1>2, <2>1, <2>2 DEF Stages
  <2>4. Line(Tail(events), pending, queues, st, ticket)
    BY <1>1, <2>1, <2>2, EventOut
  <2> HIDE DEF st
  <2>5. DispatchMoves(st)
    BY <1>1, <1>2, <2>1, <2>3, <2>4, DispatchDoes
  <2> QED
    BY <1>1, <2>1, <2>2, <2>3, <2>5, DispatchInside DEF P
<1>8. ASSUME NEW r \in Requests,
             PostponeSubmission(r) \/ RecvBarrier(r) \/ RecvMaintenanceCompletion(r) \/ RejectLate(r) \/ RecvClose(r)
             \/ DrainEvent(r) \/ FailQueued(r)
      PROVE  P
  <2>1. events # <<>> /\ r = Head(events)
    BY <1>8 DEF PostponeSubmission, RecvBarrier, RecvMaintenanceCompletion, RejectLate, RecvClose, DrainEvent,
                FailQueued, Receive
  <2>2. \E s \in {"pending", "done"} : stage' = [stage EXCEPT ![r] = s]
    BY <1>8 DEF PostponeSubmission, RecvBarrier, RecvMaintenanceCompletion, RejectLate, RecvClose, DrainEvent,
                FailQueued, Answer
  <2>3. reply' = reply \/ \E v : reply' = [reply EXCEPT ![r] = v]
    BY <1>8 DEF PostponeSubmission, RecvBarrier, RecvMaintenanceCompletion, RejectLate, RecvClose, DrainEvent,
                FailQueued, Answer
  <2> QED
    BY <1>1, <1>3, <2>1, <2>2, <2>3, OneInside DEF P
<1>9. ASSUME NEW r \in Requests, StartMaintenance(r) \/ CompleteFlush(r) \/ AnswerPendingClose(r) PROVE P
  <2>1. pending # <<>> /\ r = Head(pending)
    BY <1>9 DEF StartMaintenance, CompleteFlush, AnswerPendingClose, Advancing
  <2>2. \E s \in {"job", "lost", "done"} : stage' = [stage EXCEPT ![r] = s]
    BY <1>9 DEF StartMaintenance, CompleteFlush, AnswerPendingClose, Answer
  <2>3. reply' = reply \/ \E v : reply' = [reply EXCEPT ![r] = v]
    BY <1>9 DEF StartMaintenance, CompleteFlush, AnswerPendingClose, Answer
  <2> QED
    BY <1>1, <1>4, <2>1, <2>2, <2>3, OneInside DEF P
<1>10. ASSUME FinishCompletion PROVE P
  <2>1. CASE stage[completing] = "delivering"
    <3>1. completing \in Requests /\ stage' = [stage EXCEPT ![completing] = "done"] /\ reply' = [reply EXCEPT ![completing] = "Ok"]
      BY <1>1, <1>2, <1>10, <2>1 DEF FinishCompletion, Answer, TypeOK
    <3> QED
      BY <1>1, <2>1, <3>1, OneInside DEF P
  <2>2. CASE stage[completing] # "delivering"
    BY <1>10, <2>2 DEF FinishCompletion, Inside, Kept, P
  <2> QED
    BY <2>1, <2>2
<1>11. ASSUME FinishSubmission \/ AdvanceReturn \/ ShutdownWorkers \/ StopCoordinator \/ HandlesGone \/ Unwound \/ FailExit
       PROVE  P
  BY <1>11 DEF FinishSubmission, AdvanceReturn, ShutdownWorkers, StopCoordinator, HandlesGone, Unwound, FailExit,
               Inside, Kept, P
<1>12. P
  BY <1>5, <1>6, <1>7, <1>8, <1>9, <1>10, <1>11 DEF Scheduler, Requests
<1> QED
  BY <1>12 DEF P

\* A completion comes from a worker whose job had its effect.
LEMMA FinishedNext ==
    ASSUME EngineInv, StoreInv, FinishedInv, [StoreNext]_storeVars
    PROVE  FinishedInv'
<1>1. stage \in [Requests -> Stages] /\ OrderInv /\ Jobs \subseteq Requests
  BY JobFacts DEF EngineInv, OrderInv, TypeOK
<1>2. ASSUME NEW r \in Jobs, Perform(r) PROVE FinishedInv'
  <2>1. stage' = stage /\ outcome[r] = "none" /\ \E v : outcome' = [outcome EXCEPT ![r] = v]
    BY <1>2 DEF Perform, vars
  <2>2. \A q \in Jobs : q # r => outcome'[q] = outcome[q]
    BY <2>1 DEF StoreInv, StoreType
  <2> QED
    BY <2>1, <2>2 DEF FinishedInv
<1>3. ASSUME UNCHANGED store, \A q \in Jobs : stage'[q] = "completed" => stage[q] = "completed" \/ outcome[q] # "none"
      PROVE  FinishedInv'
  <2>1. Moves /\ outcome' = outcome
    BY <1>3, StoreStep, EngineNext DEF store
  <2> SUFFICES ASSUME NEW q \in Jobs, stage'[q] \in {"completed", "delivering"} PROVE outcome[q] # "none"
    BY <2>1 DEF FinishedInv
  <2>2. stage'[q] = "delivering" => stage[q] \in {"completed", "delivering"}
    BY <1>1, <2>1 DEF Moves, Moved, FromNew, FromChannel, FromPending, FromQueued, FromReceived
  <2> QED
    BY <1>3, <2>2 DEF FinishedInv
<1>4. ASSUME Scheduler, NEW q \in Jobs PROVE stage'[q] = "completed" => stage[q] = "completed"
  BY <1>1, <1>4, SchedulerInside DEF Inside
<1>5. ASSUME CoordinatorPanic, NEW q \in Jobs PROVE stage'[q] = "completed" => stage[q] = "completed"
  BY <1>1, <1>5 DEF CoordinatorPanic
<1>6. ASSUME Callers, NEW q \in Jobs PROVE stage'[q] = "completed" => stage[q] = "completed"
  <2>1. stage' = stage \/ \E x \in Requests, s \in {"channel", "done", "joined"} : stage' = [stage EXCEPT ![x] = s]
    BY <1>6 DEF Callers, Submit, Close, CloseWake, CloseReturn, DropHandles, Admit, Answer, Requests
  <2> QED
    BY <1>1, <2>1
<1>7. ASSUME NEW r \in Jobs, Work(r), NEW q \in Jobs
      PROVE  stage'[q] = "completed" => stage[q] = "completed" \/ outcome[q] # "none"
  BY <1>1, <1>7 DEF Work, StartJob, FinishJob, PanicJob
<1>8. ASSUME Terminated \/ UNCHANGED vars PROVE stage' = stage
  BY <1>8 DEF Terminated, vars
<1>9. CASE UNCHANGED storeVars
  BY <1>3, <1>8, <1>9 DEF storeVars
<1> QED
  BY <1>2, <1>3, <1>4, <1>5, <1>6, <1>7, <1>8, <1>9 DEF StoreNext

\* Everything the refinement rests on.
EngineStoreInv ==
    EngineInv /\ StoreInv /\ AnsweredInv /\ FinishedInv /\ PerKeyFIFO /\ BarrierOrder /\ CloseOrder /\ ExitLeavesNothing

LEMMA EngineStoreInvariant == StoreSpec => []EngineStoreInv
<1>1. StoreInit => AnsweredInv /\ FinishedInv
  BY JobFacts DEF StoreInit, Init, AnsweredInv, FinishedInv
<1>2. EngineInv /\ AnsweredInv /\ [StoreNext]_storeVars => AnsweredInv'
  BY StoreStep, AnsweredNext
<1>3. EngineInv /\ StoreInv /\ FinishedInv /\ [StoreNext]_storeVars => FinishedInv'
  BY FinishedNext
<1>4. StoreSpec => [](AnsweredInv /\ FinishedInv)
  BY <1>1, <1>2, <1>3, StoreInvariant, PTL DEF StoreSpec
<1>5. EngineInv /\ StoreInv /\ AnsweredInv /\ FinishedInv /\ PerKeyFIFO /\ BarrierOrder /\ CloseOrder /\ ExitLeavesNothing
      => EngineStoreInv
  BY DEF EngineStoreInv
<1> QED
  BY <1>4, <1>5, StoreIsEngine, StoreInvariant, KeysInOrder, BarriersInOrder, ClosesInOrder, ExitIsClean, PTL

----------------------------------------------------------------------------
(* The steps of the refinement.                                            *)

LEMMA OrderedNames == Ordered!Requests = Requests /\ Ordered!Jobs = Jobs /\ Ordered!Loads = Loads
BY DEF Ordered!Requests, Ordered!Jobs, Ordered!Loads, Requests, Jobs, Loads

Status == [r \in Requests |-> StatusOf(r)]

\* A request that is done, or that lost its job, is over.
LEMMA OverWhenDone ==
    ASSUME AnsweredInv, NEW r \in Requests, stage[r] \in {"lost", "done"}
    PROVE  StatusOf(r) = "over"
BY DEF AnsweredInv, StatusOf

\* A job that runs and had no effect yet is due: everything that must be over
\* before it is, and no close is behind it.
LEMMA DueWhenRunning ==
    ASSUME EngineStoreInv, NEW r \in Jobs, stage[r] = "running", outcome[r] = "none"
    PROVE  Ordered!Due(r)
<1> USE DEF EngineStoreInv
<1>1. /\ r \in Requests \ Closes /\ ticket \in [Requests -> Nat] /\ stage \in [Requests -> Stages]
      /\ StageOrder(stage, ticket) /\ KindInv /\ ReplyInv /\ TicketInv /\ ExclusionInv
  BY JobFacts DEF EngineInv, OrderInv, TypeOK, LineInv, Line
<1>2. StatusOf(r) = "waiting"
  BY <1>1 DEF StatusOf, ReplyInv
<1>3. ASSUME NEW q \in Flushes \cup Maintenances, Before(q, r) PROVE StatusOf(q) = "over"
  <2>1. q \in Requests \ Closes /\ q \notin Ops /\ stage[q] \in Stages /\ ticket[q] > 0 /\ ~(ticket[r] < ticket[q]) /\ q # r
    BY <1>1, <1>3, KindsAssumption DEF Before, Admitted, Requests
  <2>2. stage[q] \notin {"new", "queued", "delivering", "dropped", "joined"}
    BY <1>1, <2>1 DEF KindInv, TicketInv
  <2>3. stage[q] \notin {"channel", "pending"}
    BY <1>1, <2>1 DEF StageOrder, Entered, Begun
  <2>4. ~Holding(stage, q)
    <3>1. Holding(stage, r) /\ r \in Ops \cup Maintenances
      BY DEF Holding, Jobs
    <3>2. CASE q \in Flushes
      BY <1>1, <3>2 DEF ExclusionInv
    <3>3. CASE q \in Maintenances
      BY <1>1, <2>1, <3>1, <3>3 DEF ExclusionInv, Alone
    <3> QED
      BY <3>2, <3>3
  <2>5. stage[q] = "done"
    BY <2>1, <2>2, <2>3, <2>4 DEF Holding, Stages
  <2> QED
    BY <2>1, <2>5, OverWhenDone
<1>4. ASSUME NEW q \in Ops, r \in Ops, Before(q, r), KeyOf[q] = KeyOf[r]
      PROVE  StatusOf(q) \in {"happened", "over"}
  <2>1. q \in Requests /\ q \in Jobs /\ stage[q] \in {"completed", "lost", "delivering", "done"}
    BY <1>4, JobFacts DEF PerKeyFIFO, Started
  <2>2. CASE stage[q] \in {"lost", "done"}
    BY <2>1, <2>2, OverWhenDone
  <2>3. CASE stage[q] \in {"completed", "delivering"}
    BY <1>1, <2>1, <2>3 DEF StatusOf, ReplyInv, FinishedInv
  <2> QED
    BY <2>1, <2>2, <2>3
<1>5. ASSUME NEW q \in Ops, r \in Maintenances, Before(q, r) PROVE StatusOf(q) = "over"
  <2>1. q \in Requests /\ stage[q] = "done"
    BY <1>5, JobFacts DEF BarrierOrder, Started
  <2> QED
    BY <2>1, OverWhenDone
<1>6. ASSUME NEW c \in Closes PROVE ~Before(c, r) /\ StatusOf(c) # "returned"
  <2>1. c \in Requests
    BY DEF Requests
  <2>2. ~Before(c, r)
    BY <1>1 DEF CloseOrder
  <2>3. stage[c] # "joined"
    BY <1>1, <2>1 DEF AnsweredInv, ExitLeavesNothing
  <2> QED
    BY <2>2, <2>3 DEF StatusOf
<1>7. \A q \in Requests : Status[q] = StatusOf(q)
  BY DEF Status
<1>8. \A q \in Requests : Ordered!Earlier(q, r) => Before(q, r)
  BY DEF Ordered!Earlier, Before, Admitted
<1>9. Ops \subseteq Requests /\ Maintenances \subseteq Requests /\ Flushes \subseteq Requests /\ Closes \subseteq Requests
  BY DEF Requests
<1>10. Status[r] = "waiting"
  BY <1>1, <1>2, <1>7
<1>11. \A q \in Flushes \cup Maintenances : Ordered!Earlier(q, r) => Status[q] = "over"
  BY <1>3, <1>7, <1>8, <1>9
<1>12. r \in Ops => \A q \in Ops : Ordered!Earlier(q, r) /\ KeyOf[q] = KeyOf[r] => Status[q] \in {"happened", "over"}
  BY <1>4, <1>7, <1>8, <1>9
<1>13. r \in Maintenances => \A q \in Ops : Ordered!Earlier(q, r) => Status[q] = "over"
  BY <1>5, <1>7, <1>8, <1>9
<1>14. \A c \in Closes : ~Ordered!Earlier(c, r) /\ Status[c] # "returned"
  BY <1>6, <1>7, <1>8, <1>9
<1> QED
  BY <1>10, <1>11, <1>12, <1>13, <1>14 DEF Ordered!Due, Ordered!Settled, Status

\* A job's effect is the instant at which it happens.
LEMMA PerformHappens ==
    ASSUME EngineStoreInv, NEW r \in Jobs, Perform(r)
    PROVE  Ordered!Happen(r)
<1>1. /\ stage' = stage /\ reply' = reply /\ ticket' = ticket /\ sent' = sent
      /\ stage[r] = "running" /\ outcome[r] = "none" /\ r \in Requests
  BY JobFacts DEF Perform, vars, history
<1>2. Ordered!Due(r)
  BY <1>1, DueWhenRunning
<1>3. PICK v : /\ outcome' = [outcome EXCEPT ![r] = v]
               /\ \/ v = "failed" /\ blob' = blob
                  \/ v = r /\ r \in Saves /\ blob' = [blob EXCEPT ![KeyOf[r]] = r]
                  \/ v = blob[KeyOf[r]] /\ r \in Loads /\ blob' = blob
                  \/ v = r /\ r \in Maintenances /\ blob' = blob
  BY DEF Perform
<1>4. v # "none"
  <2>1. \A k \in Keys : blob[k] \in Saves \cup {Absent}
    BY DEF EngineStoreInv, StoreInv, StoreType
  <2> QED
    BY <1>1, <1>3, <2>1, JobFacts, OutcomesAssumption
<1>5. outcome'[r] = v /\ \A q \in Jobs : q # r => outcome'[q] = outcome[q]
  BY <1>3 DEF EngineStoreInv, StoreInv, StoreType
<1>6. reply[r] = "none"
  BY <1>1 DEF EngineStoreInv, EngineInv, OrderInv, ReplyInv
<1>7. Status' = [Status EXCEPT ![r] = "happened"]
  <2>1. StatusOf(r)' = "happened"
    BY <1>1, <1>4, <1>5, <1>6 DEF StatusOf
  <2>2. \A q \in Requests : q # r => StatusOf(q)' = StatusOf(q)
    BY <1>1, <1>5 DEF StatusOf
  <2> QED
    BY <2>1, <2>2 DEF Status
<1>8. \/ outcome' = [outcome EXCEPT ![r] = "failed"] /\ blob' = blob
      \/ /\ r \in Saves
         /\ blob' = [blob EXCEPT ![KeyOf[r]] = r]
         /\ outcome' = [outcome EXCEPT ![r] = r]
      \/ r \in Loads /\ outcome' = [outcome EXCEPT ![r] = blob[KeyOf[r]]] /\ blob' = blob
      \/ r \in Maintenances /\ outcome' = [outcome EXCEPT ![r] = r] /\ blob' = blob
  BY <1>3
<1> QED
  BY <1>1, <1>2, <1>7, <1>8, OrderedNames DEF Ordered!Happen, Ordered!Failed, Status

\* The ordered store sees one request change.
LEMMA OneChanges ==
    ASSUME TypeOK, TypeOK', UNCHANGED store, NEW x \in Requests, \A r \in Requests \ {x} : Same(r)
    PROVE  /\ Status' = [Status EXCEPT ![x] = StatusOf(x)']
           /\ reply' = [reply EXCEPT ![x] = reply'[x]]
           /\ \A r \in Requests \ {x} : StatusOf(r)' = StatusOf(r)
<1>1. reply \in [Requests -> Replies] /\ reply' \in [Requests -> Replies] /\ outcome' = outcome
  BY DEF TypeOK, store
<1>2. \A r \in Requests \ {x} : StatusOf(r)' = StatusOf(r)
  BY <1>1 DEF StatusOf, Same, Kept
<1>3. Status' = [Status EXCEPT ![x] = StatusOf(x)']
  BY <1>2 DEF Status
<1>4. reply' = [reply EXCEPT ![x] = reply'[x]]
  BY <1>1 DEF Same, Kept
<1> QED
  BY <1>2, <1>3, <1>4

\* Or none.
LEMMA NoneChanges ==
    ASSUME TypeOK, TypeOK', UNCHANGED <<store, history>>, \A r \in Requests : Same(r)
    PROVE  UNCHANGED Ordered!vars
<1>1. reply \in [Requests -> Replies] /\ reply' \in [Requests -> Replies] /\ outcome' = outcome
  BY DEF TypeOK, store
<1>2. \A r \in Requests : StatusOf(r)' = StatusOf(r)
  BY <1>1 DEF StatusOf, Same, Kept
<1>3. Status' = Status
  BY <1>2 DEF Status
<1>4. reply' = reply
  BY <1>1 DEF Same, Kept
<1> QED
  BY <1>3, <1>4 DEF Ordered!vars, Status, store, history

\* The answer that a request gets after its admission, and when.
LEMMA AnswerGiven ==
    ASSUME EngineStoreInv, NEW x \in Requests, Moved(x), reply'[x] # reply[x], stage[x] # "new"
    PROVE  /\ reply[x] = "none" /\ stage[x] \notin {"done", "joined"} /\ stage'[x] \in {"lost", "done"}
           /\ x \in Closes => reply'[x] \in {"Ok", "ShutdownFailure", "EngineFailed"}
           /\ x \notin Closes => reply'[x] \in {"Ok", "StoreClosed", "EngineFailed", "WorkerUnavailable"}
           /\ x \in Jobs /\ reply'[x] = "Ok" => stage[x] \in {"completed", "delivering"}
           /\ stage[x] \in {"running", "completed", "delivering"} => reply'[x] \in {"Ok", "EngineFailed"}
<1>1. /\ ReplyInv /\ AnsweredInv /\ KindInv /\ ExclusionInv /\ stage[x] \in Stages
  BY DEF EngineStoreInv, EngineInv, OrderInv, TypeOK
<1>2. stage[x] # "joined" /\ stage[x] # "done" /\ stage[x] # "job"
  BY DEF Moved, Kept
<1>3. CASE stage[x] = "channel"
  BY <1>1, <1>3, JobFacts, KindsAssumption DEF Moved, FromChannel, Kept, CloseOutcome, ReplyInv
<1>4. CASE stage[x] = "pending"
  BY <1>1, <1>4, JobFacts, KindsAssumption DEF Moved, FromPending, Kept, CloseOutcome, ReplyInv
<1>5. CASE stage[x] = "queued"
  BY <1>1, <1>5, KindsAssumption DEF Moved, FromQueued, Kept, ReplyInv, KindInv, Requests
<1>6. CASE stage[x] \in {"running", "completed", "lost"}
  <2>1. x \notin Closes
    BY <1>1, <1>6 DEF ExclusionInv, Holding
  <2>2. stage[x] = "lost" => reply[x] # "none"
    BY <1>1 DEF AnsweredInv
  <2> QED
    BY <1>1, <1>6, <2>1, <2>2 DEF Moved, FromReceived, Kept, ReplyInv
<1>7. CASE stage[x] = "delivering"
  BY <1>1, <1>7, KindsAssumption DEF Moved, ReplyInv, KindInv, Requests
<1>8. CASE stage[x] = "dropped"
  BY <1>1, <1>8, JobFacts DEF Moved, CloseOutcome, ReplyInv
<1> QED
  BY <1>1, <1>2, <1>3, <1>4, <1>5, <1>6, <1>7, <1>8 DEF Stages

\* What precedes a flush or close that succeeds is over when it does.
LEMMA AheadOver ==
    ASSUME EngineStoreInv, EngineStoreInv', [Next]_vars, NEW x \in Requests, NEW q \in Requests \ Closes,
           q # x, Same(q), Before(q, x), reply'[x] = "Ok", x \in Closes \/ (x \in Flushes /\ q \in Jobs)
    PROVE  StatusOf(q) = "over"
<1>1. Before(q, x)'
  BY BeforeStays DEF EngineStoreInv, EngineInv
<1>2. stage'[q] = "done"
  BY <1>1 DEF EngineStoreInv, CloseOrder, BarrierOrder, Jobs
<1>3. reply'[q] # "none"
  BY <1>2 DEF EngineStoreInv, AnsweredInv
<1> QED
  BY <1>2, <1>3 DEF Same, Kept, StatusOf

\* A request that is answered after its admission.
LEMMA AnswerRefines ==
    ASSUME EngineStoreInv, EngineStoreInv', [Next]_vars, UNCHANGED <<store, history>>,
           NEW x \in Requests, \A r \in Requests \ {x} : Same(r), Moved(x), reply'[x] # reply[x], stage[x] # "new"
    PROVE  Ordered!Next
<1> DEFINE a == reply'[x]
<1>1. /\ reply[x] = "none" /\ stage[x] \notin {"new", "done", "joined"} /\ stage'[x] \in {"lost", "done"}
      /\ x \in Closes => a \in {"Ok", "ShutdownFailure", "EngineFailed"}
      /\ x \notin Closes => a \in {"Ok", "StoreClosed", "EngineFailed", "WorkerUnavailable"}
      /\ x \in Jobs /\ a = "Ok" => stage[x] \in {"completed", "delivering"}
      /\ stage[x] \in {"running", "completed", "delivering"} => a \in {"Ok", "EngineFailed"}
  BY AnswerGiven
<1> HIDE DEF a
<1>2. a # "none" /\ StatusOf(x)' = "over"
  BY <1>1 DEF a, StatusOf
<1>3. TypeOK /\ TypeOK'
  BY DEF EngineStoreInv, EngineInv, OrderInv
<1>4. Status' = [Status EXCEPT ![x] = "over"] /\ reply' = [reply EXCEPT ![x] = a]
  BY <1>2, <1>3, OneChanges DEF a
<1>5. Ordered!Become(x, "over", a) /\ UNCHANGED <<sent, ticket, blob, outcome>>
  BY <1>4 DEF Ordered!Become, Status, store, history
<1>6. \A q \in Requests : Status[q] = StatusOf(q)
  BY DEF Status
<1>7. \A q, r \in Requests : Ordered!Earlier(q, r) => Before(q, r)
  BY DEF Ordered!Earlier, Before, Admitted
<1>8. StatusOf(x) = IF x \in Jobs /\ outcome[x] # "none" THEN "happened" ELSE "waiting"
  BY <1>1 DEF StatusOf
<1>9. CASE x \in Closes
  <2>1. StatusOf(x) = "waiting"
    BY <1>8, <1>9, JobFacts
  <2>2. a = "Ok" => \A q \in Requests \ Closes : Ordered!Earlier(q, x) => Status[q] = "over"
    BY <1>6, <1>7, <1>9, AheadOver DEF a
  <2>3. Ordered!CompleteClose(x)
    BY <1>1, <1>5, <1>6, <1>9, <2>1, <2>2, OrderedNames DEF Ordered!CompleteClose, Ordered!Settled, Status
  <2> QED
    BY <1>9, <2>3 DEF Ordered!Next
<1>10. CASE x \in Flushes /\ a = "Ok"
  <2>1. StatusOf(x) = "waiting"
    BY <1>8, <1>10, JobFacts
  <2>2. \A q \in Jobs : Ordered!Earlier(q, x) => Status[q] = "over"
    BY <1>6, <1>7, <1>10, JobFacts, AheadOver DEF a
  <2>3. Ordered!CompleteFlush(x)
    BY <1>5, <1>6, <1>10, <2>1, <2>2, OrderedNames DEF Ordered!CompleteFlush, Ordered!Settled, Status
  <2> QED
    BY <1>10, <2>3 DEF Ordered!Next
<1>11. CASE x \in Jobs /\ a = "Ok"
  <2>1. StatusOf(x) = "happened"
    BY <1>1, <1>8, <1>11 DEF EngineStoreInv, FinishedInv
  <2>2. Ordered!Complete(x)
    BY <1>5, <1>6, <1>11, <2>1 DEF Ordered!Complete, Status
  <2> QED
    BY <1>11, <2>2, OrderedNames DEF Ordered!Next
<1>12. CASE x \notin Closes /\ a # "Ok" /\ StatusOf(x) = "waiting"
  <2>1. a = "StoreClosed" => \E c \in Closes : Ordered!Earlier(c, x)
    <3>1. ticket[x] > 0 /\ ticket' = ticket
      BY <1>1 DEF EngineStoreInv, EngineInv, OrderInv, TicketInv, history
    <3>2. a = "StoreClosed" => \E c \in Closes : Before(c, x)'
      BY <1>12, <3>1 DEF EngineStoreInv, CloseOrder, Admitted, a
    <3> QED
      BY <3>1, <3>2 DEF Before, Admitted, Ordered!Earlier
  <2>2. a \in Ordered!Errors
    BY <1>1, <1>12 DEF Ordered!Errors
  <2>3. Ordered!Reject(x)
    BY <1>5, <1>6, <1>12, <2>1, <2>2 DEF Ordered!Reject, Status
  <2> QED
    BY <2>3, OrderedNames DEF Ordered!Next
<1>13. CASE x \notin Closes /\ a # "Ok" /\ StatusOf(x) = "happened"
  <2>1. x \in Jobs /\ outcome[x] # "none"
    BY <1>8, <1>13
  <2>2. stage[x] \in {"running", "completed", "delivering", "lost"}
    BY <1>1, <2>1 DEF EngineStoreInv, StoreInv, WorkedInv, Past
  <2>3. stage[x] # "lost"
    BY <1>1 DEF EngineStoreInv, AnsweredInv
  <2>4. a = "EngineFailed"
    BY <1>1, <1>13, <2>2, <2>3
  <2>5. /\ Status' = [r \in Requests |-> IF r \in {x} THEN "over" ELSE Status[r]]
        /\ reply' = [r \in Requests |-> IF r \in {x} THEN "EngineFailed" ELSE reply[r]]
    BY <1>3, <1>4, <2>4 DEF Status, TypeOK
  <2>6. Ordered!Fail({x})
    BY <1>5, <1>6, <1>13, <2>5, OrderedNames DEF Ordered!Fail, Status
  <2>7. {x} \in SUBSET Requests
    OBVIOUS
  <2> QED
    BY <2>6, <2>7, OrderedNames DEF Ordered!Next
<1> QED
  BY <1>8, <1>9, <1>10, <1>11, <1>12, <1>13 DEF Requests, Jobs

\* An admission.
LEMMA AdmitRefines ==
    ASSUME EngineStoreInv, EngineStoreInv', UNCHANGED store, NEW x \in Requests, stage[x] = "new", Admit(x)
    PROVE  Ordered!Next
<1>1. TypeOK /\ TypeOK' /\ stage \in [Requests -> Stages]
  BY DEF EngineStoreInv, EngineInv, OrderInv, TypeOK
<1>2. /\ stage' = [stage EXCEPT ![x] = "channel"] /\ reply' = reply
      /\ sent' = sent + 1 /\ ticket' = [ticket EXCEPT ![x] = sent + 1]
  BY DEF Admit
<1>3. \A r \in Requests \ {x} : Same(r)
  BY <1>1, <1>2 DEF Same, Kept
<1>4. StatusOf(x) = "new" /\ StatusOf(x)' = "waiting" /\ reply'[x] = "none"
  <2>1. reply[x] = "none" /\ (x \in Jobs => outcome[x] = "none")
    BY DEF EngineStoreInv, EngineInv, OrderInv, ReplyInv, StoreInv, WorkedInv, Past
  <2> QED
    BY <1>1, <1>2, <2>1 DEF StatusOf, store
<1>5. Status' = [Status EXCEPT ![x] = "waiting"] /\ reply' = [reply EXCEPT ![x] = "none"]
  BY <1>1, <1>3, <1>4, OneChanges
<1>6. Status[x] = "new"
  BY <1>4 DEF Status
<1>7. Ordered!Admit(x)
  BY <1>2, <1>5, <1>6 DEF Ordered!Admit, Ordered!Become, Status, store
<1> QED
  BY <1>7, OrderedNames DEF Ordered!Next

\* A call that is not admitted.
LEMMA RefuseRefines ==
    ASSUME EngineStoreInv, EngineStoreInv', UNCHANGED <<store, history>>,
           NEW x \in Requests, \A r \in Requests \ {x} : Same(r), stage[x] = "new", Moved(x)
    PROVE  Ordered!Next
<1> DEFINE a == reply'[x]
<1>1. /\ TypeOK /\ TypeOK' /\ ticket[x] = 0 /\ ticket'[x] = 0 /\ sent \in Nat
  BY DEF EngineStoreInv, EngineInv, OrderInv, TypeOK, TicketInv, history
<1>2. stage'[x] # "channel"
  BY <1>1 DEF Moved, FromNew
<1>3. stage'[x] = "done" /\ a \in Ordered!Refusals(x)
  BY <1>2 DEF Moved, FromNew, CloseOutcome, Ordered!Refusals, Ordered!Errors
<1> HIDE DEF a
<1>4. a # "none"
  BY <1>3 DEF Ordered!Refusals, Ordered!Errors
<1>5. StatusOf(x) = "new" /\ StatusOf(x)' = "over"
  BY <1>3, <1>4 DEF StatusOf, a
<1>6. Status' = [Status EXCEPT ![x] = "over"] /\ reply' = [reply EXCEPT ![x] = a]
  BY <1>1, <1>5, OneChanges DEF a
<1>7. Status[x] = "new"
  BY <1>5 DEF Status
<1>8. Ordered!Refuse(x)
  BY <1>3, <1>6, <1>7 DEF Ordered!Refuse, Ordered!Become, Status, store, history
<1> QED
  BY <1>8, OrderedNames DEF Ordered!Next

\* A close that returns leaves nothing admitted behind.
LEMMA ReturnRefines ==
    ASSUME EngineStoreInv, EngineStoreInv', UNCHANGED <<store, history>>,
           NEW x \in Closes, \A r \in Requests \ {x} : Same(r),
           stage[x] = "done", stage'[x] = "joined", Kept(x), pc = "exited"
    PROVE  Ordered!Next
<1>1. TypeOK /\ TypeOK' /\ x \in Requests /\ AnsweredInv
  BY DEF EngineStoreInv, EngineInv, OrderInv, Requests
<1>2. StatusOf(x) = "over" /\ StatusOf(x)' = "returned"
  BY <1>1, OverWhenDone DEF StatusOf
<1>3. Status' = [Status EXCEPT ![x] = "returned"] /\ reply' = [reply EXCEPT ![x] = reply[x]]
  BY <1>1, <1>2, OneChanges DEF Kept
<1>4. reply' = reply
  BY <1>1, <1>3 DEF TypeOK
<1>5. ASSUME NEW r \in Requests \ Closes PROVE Status[r] \in {"new", "over"}
  <2>1. stage[r] \in {"new", "done"}
    BY <1>5 DEF EngineStoreInv, ExitLeavesNothing
  <2>2. StatusOf(r) \in {"new", "over"}
    BY <1>1, <1>5, <2>1, OverWhenDone DEF StatusOf
  <2> QED
    BY <2>2 DEF Status
<1>6. Status[x] = "over"
  BY <1>1, <1>2 DEF Status
<1>7. Ordered!ReturnClose(x)
  BY <1>3, <1>4, <1>5, <1>6, OrderedNames DEF Ordered!ReturnClose, Status, store, history
<1> QED
  BY <1>7 DEF Ordered!Next

\* A step in which one request changes.
LEMMA OneRefines ==
    ASSUME EngineStoreInv, EngineStoreInv', [Next]_vars, UNCHANGED store,
           NEW x, \A r \in Requests \ {x} : Same(r)
    PROVE  Ordered!Next \/ UNCHANGED Ordered!vars
<1>1. Moves /\ TypeOK /\ TypeOK'
  BY EngineNext DEF EngineStoreInv, EngineInv, OrderInv
<1>2. CASE \E r \in Requests : stage[r] = "new" /\ Admit(r)
  BY <1>2, AdmitRefines
<1>3. CASE UNCHANGED history /\ (x \notin Requests \/ Same(x))
  BY <1>1, <1>3, NoneChanges
<1>4. CASE UNCHANGED history /\ x \in Requests /\ ~Same(x)
  <2>1. Moved(x)
    BY <1>1, <1>4 DEF Moves, Same
  <2>2. CASE stage[x] = "new"
    BY <1>4, <2>1, <2>2, RefuseRefines
  <2>3. CASE stage[x] # "new" /\ reply'[x] # reply[x]
    BY <1>4, <2>1, <2>3, AnswerRefines
  <2>4. CASE stage[x] # "new" /\ Kept(x)
    <3>1. stage'[x] # "new" /\ (stage[x] = "joined" <=> stage'[x] # "joined")
      <4>1. stage'[x] # "new"
        BY <2>1 DEF Moved, FromNew, FromChannel, FromPending, FromQueued, FromReceived
      <4> QED
        BY <1>4, <2>4, <4>1 DEF Same
    <3>2. x \in Closes /\ stage[x] = "done" /\ stage'[x] = "joined" /\ pc = "exited"
      BY <2>1, <2>4, <3>1 DEF Moved, FromNew, FromChannel, FromPending, FromQueued, FromReceived
    <3> QED
      BY <1>4, <2>4, <3>2, ReturnRefines
  <2> QED
    BY <2>2, <2>3, <2>4 DEF Kept
<1> QED
  BY <1>2, <1>3, <1>4, TicketStep

\* A panic of the coordinator fails what it held.
LEMMA PanicRefines ==
    ASSUME EngineStoreInv, EngineStoreInv', CoordinatorPanic, UNCHANGED store
    PROVE  Ordered!Next
<1> DEFINE lost == {r \in Requests \ Closes : r \in Unwinding /\ reply[r] = "none"}
<1>1. /\ TypeOK /\ stage \in [Requests -> Stages] /\ events \in Seq(Requests)
      /\ Places(events, pending, queues, stage, None)
  BY DEF EngineStoreInv, EngineInv, OrderInv, TypeOK, LineInv, Line
<1>2. ASSUME NEW r \in Requests, r \in Unwinding PROVE stage[r] \notin {"new", "joined"}
  <2>1. CASE stage[r] \in {"pending", "queued", "delivering"}
    BY <2>1
  <2>2. CASE r \in InHand
    <3>1. events # <<>> /\ r = Head(events)
      BY <2>2 DEF InHand, CoordinatorPanic
    <3> QED
      BY <1>1, <3>1, TakeEvent DEF InChannel
  <2> QED
    BY <1>2, <2>1, <2>2 DEF Unwinding
<1>3. /\ \A r \in Requests : stage'[r] = IF r \notin Unwinding THEN stage[r]
                                         ELSE IF r \in Closes THEN "dropped" ELSE "done"
      /\ \A r \in Requests : reply'[r] = IF r \in lost THEN "EngineFailed" ELSE reply[r]
      /\ UNCHANGED history
  BY DEF CoordinatorPanic
<1>4. \A r \in lost : r \in Requests \ Closes /\ r \in Unwinding /\ reply[r] = "none"
  OBVIOUS
<1>5. \A r \in Requests : r \notin lost =>
        /\ stage'[r] = "new" <=> stage[r] = "new"
        /\ stage'[r] = "joined" <=> stage[r] = "joined"
        /\ reply'[r] = reply[r]
  BY <1>2, <1>3
<1> HIDE DEF lost
<1>6. \A r \in lost : StatusOf(r) \in {"waiting", "happened"} /\ StatusOf(r)' = "over"
  BY <1>2, <1>3, <1>4 DEF StatusOf
<1>7. \A r \in Requests : r \notin lost => StatusOf(r)' = StatusOf(r)
  BY <1>5 DEF StatusOf, store
<1>8. Status' = [r \in Requests |-> IF r \in lost THEN "over" ELSE Status[r]]
  BY <1>6, <1>7 DEF Status
<1>9. reply' = [r \in Requests |-> IF r \in lost THEN "EngineFailed" ELSE reply[r]]
  <2>1. reply' \in [Requests -> Replies]
    BY DEF EngineStoreInv, EngineInv, OrderInv, TypeOK
  <2> QED
    BY <1>3, <2>1
<1>10. \A r \in lost : r \notin Closes /\ Status[r] \in {"waiting", "happened"}
  BY <1>4, <1>6 DEF Status
<1>11. lost \in SUBSET Requests
  BY <1>4
<1>12. Ordered!Fail(lost)
  BY <1>3, <1>8, <1>9, <1>10, OrderedNames DEF Ordered!Fail, Status, store, history
<1> QED
  BY <1>11, <1>12, OrderedNames DEF Ordered!Next

\* Callers and workers change one request at a time.
LEMMA ClientsChangeOne ==
    ASSUME TypeOK, Callers \/ Workers
    PROVE  \E x : \A r \in Requests \ {x} : Same(r)
<1>1. stage \in [Requests -> Stages] /\ reply \in [Requests -> Replies]
  BY DEF TypeOK
<1>2. ASSUME NEW x, NEW s, stage' = [stage EXCEPT ![x] = s], reply' = reply \/ \E v : reply' = [reply EXCEPT ![x] = v]
      PROVE  \A r \in Requests \ {x} : Same(r)
  BY <1>1, <1>2 DEF Same, Kept
<1>3. CASE DropHandles
  BY <1>3 DEF DropHandles, Same, Kept
<1>4. ASSUME NEW x, Submit(x) \/ Close(x) \/ CloseWake(x) \/ CloseReturn(x)
      PROVE  \A r \in Requests \ {x} : Same(r)
  <2>1. \E s : stage' = [stage EXCEPT ![x] = s]
    BY <1>4 DEF Submit, Close, CloseWake, CloseReturn, Admit, Answer
  <2>2. reply' = reply \/ \E v : reply' = [reply EXCEPT ![x] = v]
    BY <1>4 DEF Submit, Close, CloseWake, CloseReturn, Admit, Answer
  <2> QED
    BY <1>2, <2>1, <2>2
<1>5. ASSUME NEW x, StartJob(x) \/ FinishJob(x) \/ PanicJob(x)
      PROVE  \A r \in Requests \ {x} : Same(r)
  <2>1. \E s : stage' = [stage EXCEPT ![x] = s]
    BY <1>5 DEF StartJob, FinishJob, PanicJob
  <2>2. reply' = reply \/ \E v : reply' = [reply EXCEPT ![x] = v]
    BY <1>5 DEF StartJob, FinishJob, PanicJob
  <2> QED
    BY <1>2, <2>1, <2>2
<1> QED
  BY <1>3, <1>4, <1>5 DEF Callers, Workers

\* Every step of the engine is one of the ordered store, or none.
LEMMA StoreRefines ==
    ASSUME EngineStoreInv, EngineStoreInv', [StoreNext]_storeVars
    PROVE  [Ordered!Next]_(Ordered!vars)
<1>1. OrderInv /\ TypeOK /\ [Next]_vars
  BY StoreStep DEF EngineStoreInv, EngineInv, OrderInv
<1>2. CASE \E r \in Jobs : Perform(r)
  BY <1>2, PerformHappens, OrderedNames DEF Ordered!Next
<1>3. ASSUME Callers \/ Workers, UNCHANGED store PROVE [Ordered!Next]_(Ordered!vars)
  BY <1>1, <1>3, ClientsChangeOne, OneRefines
<1>4. ASSUME Scheduler, UNCHANGED store PROVE [Ordered!Next]_(Ordered!vars)
  <2>1. /\ \A r \in Requests : Inside(r)
        /\ \E x : \A r \in Requests \ {x} : Kept(r)
    BY <1>1, <1>4, SchedulerInside
  <2>2. \E x : \A r \in Requests \ {x} : Same(r)
    BY <2>1 DEF Inside, Same
  <2> QED
    BY <1>1, <1>4, <2>2, OneRefines
<1>5. ASSUME CoordinatorPanic, UNCHANGED store PROVE [Ordered!Next]_(Ordered!vars)
  BY <1>5, PanicRefines
<1>6. ASSUME Terminated \/ UNCHANGED vars, UNCHANGED store PROVE [Ordered!Next]_(Ordered!vars)
  <2>1. stage' = stage /\ reply' = reply /\ UNCHANGED history /\ TypeOK'
    BY <1>6 DEF Terminated, vars, EngineStoreInv, EngineInv, OrderInv
  <2>2. \A r \in Requests : Same(r)
    BY <2>1 DEF Same, Kept
  <2> QED
    BY <1>1, <1>6, <2>1, <2>2, NoneChanges
<1>7. ASSUME \E r \in Jobs : Work(r) PROVE Workers
  BY <1>7 DEF Work, Workers, Jobs
<1> QED
  BY <1>2, <1>3, <1>4, <1>5, <1>6, <1>7 DEF StoreNext, storeVars

\* The engine implements the ordered store, for any number of keys, requests and
\* workers and through every fault: each request happens at most once, in its
\* turn, never after it was turned away or behind a close, and never once a close
\* has returned (EngineHandle, run_scheduler, WorkerPool and run_owned_operation together).
THEOREM EngineIsOrderedStore == StoreSpec => Implements
<1>1. StoreInit => Ordered!Init
  BY OrderedNames DEF StoreInit, Init, StatusOf, Ordered!Init, Ordered!NotYet
<1>2. EngineStoreInv /\ EngineStoreInv' /\ [StoreNext]_storeVars => [Ordered!Next]_(Ordered!vars)
  BY StoreRefines
<1> QED
  BY <1>1, <1>2, EngineStoreInvariant, PTL DEF StoreSpec, Implements, Ordered!Spec
=============================================================================
