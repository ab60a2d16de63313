--------------------------- MODULE OpeningProofs ---------------------------
(* Proofs about module Opening, for any number of callers of either facade, *)
(* on either platform, with and without faults.                            *)
EXTENDS Opening, TLAPS

Inspecting == {"validate", "root", "create", "inspect"}
Threads == Inspecting \cup {"none", "sync", "start", "reply", "sent"}
Answers ==
    {"none", "Ok", "InvalidNamespace", "InvalidMaximumBlobSize", "RootDoesNotExist", "RootIsNotDirectory",
     "NamespacePathIsNotDirectory", "Io", "SyncRootDirectory", "StartCoordinator", "StartInitialization",
     "EngineFailed"}

TypeOK ==
    /\ caller \in [Openers -> {"idle", "waiting", "opened", "failed", "dropped"}]
    /\ thread \in [Openers -> Threads]
    /\ args \in [Openers -> [namespace : Namespaces \cup {<<>>}, maximum : Nat]]
    /\ answer \in [Openers -> Answers]
    /\ handle \in [Openers -> {"none", "thread", "channel", "caller"}]
    /\ engine \in [Openers -> {"none", "running"}]
    /\ created \in [Openers -> BOOLEAN]
    /\ namespace \in Entries /\ durable \in BOOLEAN

Succeeded(o) == thread[o] \in {"reply", "sent"} /\ answer[o] = "Ok"

\* What the code that opens for o has found out about the file system, and still
\* holds whatever the others do.
Checked(o) ==
    /\ thread[o] \in {"create", "sync", "inspect", "start"} \/ engine[o] = "running" => root = "directory"
    /\ thread[o] \in {"sync", "start"} \/ engine[o] = "running" => namespace = "directory"
    /\ thread[o] \in {"root", "create", "sync", "inspect", "start"} \/ engine[o] = "running" =>
            ValidMaximum(args[o].maximum)

\* A namespace that this call created is safe before anybody is told.
Safe(o) ==
    /\ thread[o] \in Inspecting => ~created[o]
    /\ Platform = "unix" /\ created[o] /\ (thread[o] = "start" \/ Succeeded(o) \/ caller[o] = "opened")
            => durable

\* The handle of a running engine is on its way to the caller, or there.
Held(o) ==
    /\ Succeeded(o) => engine[o] = "running" /\ handle[o] \in {"thread", "channel"}
    /\ caller[o] = "opened" => engine[o] = "running" /\ handle[o] = "caller" /\ thread[o] = "none"

IInv == TypeOK /\ \A o \in Openers : Checked(o) /\ Safe(o) /\ Held(o)

\* Nothing is open at first, and a namespace lies in a root directory.
LEMMA InitInv == Init => IInv
<1> SUFFICES ASSUME Init PROVE IInv
  OBVIOUS
<1>1. TypeOK
  BY DEF Init, TypeOK, NoArgs, Entries, Threads, Answers
<1>2. \A o \in Openers : Checked(o) /\ Safe(o) /\ Held(o)
  BY DEF Init, Checked, Safe, Held, Succeeded, Inspecting
<1> QED
  BY <1>1, <1>2 DEF IInv

\* The steps of one opener leave the state of the others alone.
Others(o) ==
    \A p \in Openers \ {o} :
        /\ caller'[p] = caller[p] /\ thread'[p] = thread[p] /\ args'[p] = args[p]
        /\ answer'[p] = answer[p] /\ handle'[p] = handle[p] /\ engine'[p] = engine[p]
        /\ created'[p] = created[p]

\* A step that takes nothing from the file system preserves what the others found.
LEMMA OthersUndisturbed ==
    ASSUME IInv, NEW o \in Openers, Others(o), root' = root,
           namespace = "directory" => namespace' = "directory", durable => durable'
    PROVE  \A p \in Openers \ {o} : Checked(p)' /\ Safe(p)' /\ Held(p)'
BY DEF Others, IInv, Checked, Safe, Held, Succeeded, ValidMaximum

\* Every step of an opener preserves the invariant.
LEMMA OpenerStep ==
    ASSUME IInv, NEW o \in Openers,
           \/ \E n \in Namespaces, m \in Maximums : Call(o, n, m)
           \/ Step(o) \/ InitializationPanics(o) \/ DropFuture(o) \/ DropStore(o)
    PROVE  IInv'
<1> USE DEF Conclude, Fail, Goto, files
<1>1. TypeOK
  BY DEF IInv
<1>2. Checked(o) /\ Safe(o) /\ Held(o)
  BY DEF IInv
<1> DEFINE Good == /\ TypeOK' /\ Others(o) /\ Checked(o)' /\ Safe(o)' /\ Held(o)'
                   /\ root' = root /\ (namespace = "directory" => namespace' = "directory")
                   /\ (durable => durable')
<1>3. Good
  <2>3. ASSUME NEW n \in Namespaces, NEW m \in Maximums, Call(o, n, m)
        PROVE  Good
    <3>1. m \in Nat
      BY ArgumentsAssumption
    <3>2. TypeOK'
      BY <1>1, <2>3, <3>1, ZenonT(60) DEF Call, TypeOK, Threads, Inspecting, Answers
    <3>3. Others(o)
      BY <1>1, <2>3 DEF Call, TypeOK, Others
    <3>4. Checked(o)' /\ Safe(o)' /\ Held(o)'
      BY <1>1, <1>2, <2>3 DEF Call, TypeOK, Checked, Safe, Held, Succeeded, Inspecting
    <3> QED
      BY <2>3, <3>2, <3>3, <3>4 DEF Call
  <2>4. CASE Validate(o)
    <3>1. TypeOK'
      BY <1>1, <2>4, ZenonT(60) DEF Validate, TypeOK, Threads, Inspecting, Entries, Answers
    <3>2. Others(o)
      BY <1>1, <2>4 DEF Validate, TypeOK, Others
    <3>3. Checked(o)' /\ Safe(o)' /\ Held(o)'
      BY <1>1, <1>2, <2>4 DEF Validate, TypeOK, Checked, Safe, Held, Succeeded, Inspecting
    <3> QED
      BY <2>4, <3>1, <3>2, <3>3 DEF Validate
  <2>5. CASE InspectRoot(o)
    <3>1. TypeOK'
      BY <1>1, <2>5, ZenonT(60) DEF InspectRoot, TypeOK, Threads, Inspecting, Entries, Answers
    <3>2. Others(o)
      BY <1>1, <2>5 DEF InspectRoot, TypeOK, Others
    <3>3. Checked(o)' /\ Safe(o)' /\ Held(o)'
      BY <1>1, <1>2, <2>5 DEF InspectRoot, TypeOK, Checked, Safe, Held, Succeeded, Inspecting
    <3> QED
      BY <2>5, <3>1, <3>2, <3>3 DEF InspectRoot
  <2>6. CASE CreateNamespace(o)
    <3>1. TypeOK'
      BY <1>1, <2>6, ZenonT(60) DEF CreateNamespace, TypeOK, Threads, Inspecting, Entries, Answers
    <3>2. Others(o)
      BY <1>1, <2>6 DEF CreateNamespace, TypeOK, Others
    <3>3. Checked(o)' /\ Safe(o)' /\ Held(o)'
      BY <1>1, <1>2, <2>6, PlatformAssumption DEF CreateNamespace, TypeOK, Checked, Safe, Held, Succeeded, Inspecting
    <3> QED
      BY <2>6, <3>1, <3>2, <3>3 DEF CreateNamespace
  <2>7. CASE SyncRoot(o)
    <3>1. TypeOK'
      BY <1>1, <2>7, ZenonT(60) DEF SyncRoot, TypeOK, Threads, Inspecting, Entries, Answers
    <3>2. Others(o)
      BY <1>1, <2>7 DEF SyncRoot, TypeOK, Others
    <3>3. Checked(o)' /\ Safe(o)' /\ Held(o)'
      BY <1>1, <1>2, <2>7 DEF SyncRoot, TypeOK, Checked, Safe, Held, Succeeded, Inspecting
    <3> QED
      BY <2>7, <3>1, <3>2, <3>3 DEF SyncRoot
  <2>8. CASE InspectNamespace(o)
    <3>1. TypeOK'
      BY <1>1, <2>8, ZenonT(60) DEF InspectNamespace, TypeOK, Threads, Inspecting, Entries, Answers
    <3>2. Others(o)
      BY <1>1, <2>8 DEF InspectNamespace, TypeOK, Others
    <3>3. Checked(o)' /\ Safe(o)' /\ Held(o)'
      BY <1>1, <1>2, <2>8 DEF InspectNamespace, TypeOK, Checked, Safe, Held, Succeeded, Inspecting
    <3> QED
      BY <2>8, <3>1, <3>2, <3>3 DEF InspectNamespace
  <2>9. CASE StartCoordinator(o)
    <3>1. TypeOK'
      BY <1>1, <2>9, ZenonT(60) DEF StartCoordinator, TypeOK, Threads, Inspecting, Entries, Answers
    <3>2. Others(o)
      BY <1>1, <2>9 DEF StartCoordinator, TypeOK, Others
    <3>3. Checked(o)' /\ Safe(o)' /\ Held(o)'
      BY <1>1, <1>2, <2>9 DEF StartCoordinator, TypeOK, Checked, Safe, Held, Succeeded, Inspecting
    <3> QED
      BY <2>9, <3>1, <3>2, <3>3 DEF StartCoordinator
  <2>10. CASE BlockingReturn(o)
    <3>1. TypeOK'
      BY <1>1, <2>10 DEF BlockingReturn, TypeOK, Threads, Inspecting, Entries, Answers, Opened
    <3>2. Others(o)
      BY <1>1, <2>10 DEF BlockingReturn, TypeOK, Others
    <3>3. Checked(o)' /\ Safe(o)' /\ Held(o)'
      BY <1>1, <1>2, <2>10 DEF BlockingReturn, TypeOK, Checked, Safe, Held, Succeeded, Inspecting, Opened
    <3> QED
      BY <2>10, <3>1, <3>2, <3>3 DEF BlockingReturn
  <2>11. CASE SendResult(o)
    <3>1. TypeOK'
      BY <1>1, <2>11, ZenonT(60) DEF SendResult, TypeOK, Threads, Inspecting, Entries, Answers
    <3>2. Others(o)
      BY <1>1, <2>11 DEF SendResult, TypeOK, Others
    <3>3. Checked(o)' /\ Safe(o)' /\ Held(o)'
      BY <1>1, <1>2, <2>11 DEF SendResult, TypeOK, Checked, Safe, Held, Succeeded, Inspecting
    <3> QED
      BY <2>11, <3>1, <3>2, <3>3 DEF SendResult
  <2>12. CASE ReceiveResult(o)
    <3>1. TypeOK'
      BY <1>1, <2>12 DEF ReceiveResult, TypeOK, Threads, Inspecting, Entries, Answers, Opened
    <3>2. Others(o)
      BY <1>1, <2>12 DEF ReceiveResult, TypeOK, Others
    <3>3. Checked(o)' /\ Safe(o)' /\ Held(o)'
      BY <1>1, <1>2, <2>12 DEF ReceiveResult, TypeOK, Checked, Safe, Held, Succeeded, Inspecting, Opened
    <3> QED
      BY <2>12, <3>1, <3>2, <3>3 DEF ReceiveResult
  <2>13. CASE InitializationPanics(o)
    <3>1. TypeOK'
      BY <1>1, <2>13, ZenonT(60) DEF InitializationPanics, TypeOK, Threads, Inspecting, Entries, Answers
    <3>2. Others(o)
      BY <1>1, <2>13 DEF InitializationPanics, TypeOK, Others
    <3>3. Checked(o)' /\ Safe(o)' /\ Held(o)'
      BY <1>1, <1>2, <2>13 DEF InitializationPanics, TypeOK, Checked, Safe, Held, Succeeded, Inspecting
    <3> QED
      BY <2>13, <3>1, <3>2, <3>3 DEF InitializationPanics
  <2>14. CASE DropFuture(o)
    <3>1. TypeOK'
      BY <1>1, <2>14, ZenonT(60) DEF DropFuture, TypeOK, Threads, Inspecting, Entries, Answers
    <3>2. Others(o)
      BY <1>1, <2>14 DEF DropFuture, TypeOK, Others
    <3>3. Checked(o)' /\ Safe(o)' /\ Held(o)'
      BY <1>1, <1>2, <2>14 DEF DropFuture, TypeOK, Checked, Safe, Held, Succeeded, Inspecting
    <3> QED
      BY <2>14, <3>1, <3>2, <3>3 DEF DropFuture
  <2>15. CASE DropStore(o)
    <3>1. TypeOK'
      BY <1>1, <2>15 DEF DropStore, TypeOK, Threads, Inspecting, Entries, Answers
    <3>2. Others(o)
      BY <1>1, <2>15 DEF DropStore, TypeOK, Others
    <3>3. Checked(o)' /\ Safe(o)' /\ Held(o)'
      BY <1>1, <1>2, <2>15 DEF DropStore, TypeOK, Checked, Safe, Held, Succeeded, Inspecting
    <3> QED
      BY <2>15, <3>1, <3>2, <3>3 DEF DropStore
  <2>16. CASE StopEngine(o)
    <3>1. TypeOK'
      BY <1>1, <2>16 DEF StopEngine, TypeOK, Threads, Inspecting, Entries, Answers
    <3>2. Others(o)
      BY <1>1, <2>16 DEF StopEngine, TypeOK, Others
    <3>3. Checked(o)' /\ Safe(o)' /\ Held(o)'
      BY <1>1, <1>2, <2>16 DEF StopEngine, TypeOK, Checked, Safe, Held, Succeeded, Inspecting
    <3> QED
      BY <2>16, <3>1, <3>2, <3>3 DEF StopEngine
  <2> QED
    BY <2>3, <2>4, <2>5, <2>6, <2>7, <2>8, <2>9, <2>10, <2>11, <2>12, <2>13, <2>14, <2>15, <2>16 DEF Step
<1>4. \A p \in Openers \ {o} : Checked(p)' /\ Safe(p)' /\ Held(p)'
  <2> QED
    BY <1>3, OthersUndisturbed
<1> QED
  BY <1>3, <1>4 DEF IInv

\* A kill or a power loss ends every call.
LEMMA FaultStep ==
    ASSUME IInv, Kill \/ PowerLoss
    PROVE  IInv'
<1>1. TypeOK'
  <2>1. /\ caller' \in [Openers -> {"idle"}] /\ thread' \in [Openers -> {"none"}]
        /\ handle' \in [Openers -> {"none"}] /\ engine' \in [Openers -> {"none"}]
        /\ UNCHANGED <<args, answer>>
    BY DEF Kill, PowerLoss, Stop
  <2>2. created' \in [Openers -> BOOLEAN]
    BY DEF Kill, PowerLoss, Stop
  <2>3. namespace' \in Entries /\ durable' \in BOOLEAN
    BY DEF Kill, PowerLoss, files, IInv, TypeOK, Entries
  <2> QED
    BY <2>1, <2>2, <2>3 DEF IInv, TypeOK, Threads
<1>2. \A o \in Openers : Checked(o)' /\ Safe(o)' /\ Held(o)'
  BY DEF Kill, PowerLoss, Stop, Checked, Safe, Held, Succeeded, Inspecting
<1> QED
  BY <1>1, <1>2 DEF IInv

\* Whoever was given a store has a running engine behind it, on a directory, with
\* arguments that leave room for the envelope, and on Unix the namespace it
\* created survives a power loss, also when callers race to create it
\* (EngineHandle::open, initialize_platform).
THEOREM EnginesRunOnNamespaces == Spec => []EngineOnNamespace
<1>1. IInv /\ [Next]_vars => IInv'
  <2> SUFFICES ASSUME IInv, [Next]_vars PROVE IInv'
    OBVIOUS
  <2>1. CASE UNCHANGED vars
    BY <2>1 DEF vars, IInv, TypeOK, Checked, Safe, Held, Succeeded, ValidMaximum
  <2>2. CASE Next
    BY <2>2, OpenerStep, FaultStep DEF Next
  <2> QED
    BY <2>1, <2>2
<1>2. IInv => EngineOnNamespace
  BY DEF IInv, EngineOnNamespace, Checked, Safe, Held, ValidMaximum
<1> QED
  BY <1>1, <1>2, InitInv, PTL DEF Spec
=============================================================================
