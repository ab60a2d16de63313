------------------------------ MODULE Opening ------------------------------
(***************************************************************************)
(* Opening a store: validation, the namespace directory, and the threads   *)
(* that run the engine (EngineHandle::open, initialize_platform, and the   *)
(* open of either facade).                                                 *)
(*                                                                         *)
(* Callers in Openers open stores in the same namespace, concurrently and  *)
(* repeatedly.  A Tokio open runs on a thread of its own, and its future   *)
(* may be dropped meanwhile; the engine handle then travels through a      *)
(* channel nobody reads.  The process may be killed and the power may fail *)
(* at any time.                                                            *)
(***************************************************************************)
EXTENDS Integers, Sequences

CONSTANTS
    Platform,       \* "unix" or "windows"
    Openers,        \* callers of open
    TokioOpeners,   \* those that use the Tokio facade
    Namespaces,     \* namespace arguments: sequences of path components
    Maximums,       \* max_blob_size arguments
    Overhead,       \* HEADER_LEN + CHECKSUM_LEN
    Word,           \* the largest u64
    MaxAttempts,    \* bound: calls of open explored
    Faults          \* may the process be killed and the power fail?

ASSUME PlatformAssumption == Platform \in {"unix", "windows"}
ASSUME OpenersAssumption == TokioOpeners \subseteq Openers
ASSUME ArgumentsAssumption ==
    /\ Word \in Nat /\ Overhead \in Nat /\ Maximums \subseteq 0..Word
    /\ \A n \in Namespaces : n \in Seq({"normal", "parent", "current", "root"})
ASSUME BoundsAssumption == MaxAttempts \in Nat /\ Faults \in BOOLEAN

VARIABLES
    root,           \* what is at the configured root
    namespace,      \* what is at the namespace path
    durable,        \* is the namespace's entry in the root safe from a power loss?
    caller,         \* each opener's call
    thread,         \* the next step of the code that opens for it
    args,           \* the arguments of its call
    answer,         \* the error of its last call, or "Ok"
    handle,         \* who holds the engine handle
    engine,         \* the engine behind it
    created,        \* history: did this call create the namespace?
    attempts

vars == <<root, namespace, durable, caller, thread, args, answer, handle, engine, created, attempts>>
files == <<root, namespace, durable>>

Entries == {"absent", "directory", "file"}
NoArgs == [namespace |-> <<>>, maximum |-> 0]

Init ==
    /\ root \in Entries
    /\ namespace \in Entries
    /\ namespace # "absent" => root = "directory"
    /\ durable = (namespace # "absent")
    /\ caller = [o \in Openers |-> "idle"]
    /\ thread = [o \in Openers |-> "none"]
    /\ args = [o \in Openers |-> NoArgs]
    /\ answer = [o \in Openers |-> "none"]
    /\ handle = [o \in Openers |-> "none"]
    /\ engine = [o \in Openers |-> "none"]
    /\ created = [o \in Openers |-> FALSE]
    /\ attempts = 0

----------------------------------------------------------------------------
(* Validation.                                                             *)

ValidNamespace(components) == components = <<"normal">>

\* checked_add: room for the header and the checksum.
ValidMaximum(maximum) == maximum + Overhead <= Word

----------------------------------------------------------------------------
(* A call of open.                                                         *)

Goto(o, step) ==
    /\ thread' = [thread EXCEPT ![o] = step]
    /\ UNCHANGED <<caller, args, answer, handle, engine, attempts>>

\* open returns to its caller, or the thread is about to send what it returned.
Conclude(o, a) ==
    /\ answer' = [answer EXCEPT ![o] = a]
    /\ thread' = [thread EXCEPT ![o] = "reply"]
    /\ UNCHANGED <<caller, args, attempts>>

Fail(o, e) == Conclude(o, e) /\ UNCHANGED <<handle, engine>>

Call(o, n, m) ==
    /\ caller[o] \in {"idle", "failed", "dropped"}
    /\ thread[o] = "none" /\ engine[o] # "running"
    /\ attempts < MaxAttempts
    /\ attempts' = attempts + 1
    /\ args' = [args EXCEPT ![o] = [namespace |-> n, maximum |-> m]]
    /\ created' = [created EXCEPT ![o] = FALSE]
    /\ \/ /\ caller' = [caller EXCEPT ![o] = "waiting"]
          /\ thread' = [thread EXCEPT ![o] = "validate"]
          /\ answer' = [answer EXCEPT ![o] = "none"]
       \/ /\ o \in TokioOpeners
          /\ caller' = [caller EXCEPT ![o] = "failed"]
          /\ answer' = [answer EXCEPT ![o] = "StartInitialization"]
          /\ UNCHANGED thread
    /\ UNCHANGED <<files, handle, engine>>

Validate(o) ==
    /\ thread[o] = "validate"
    /\ \/ ~ValidNamespace(args[o].namespace) /\ Fail(o, "InvalidNamespace")
       \/ /\ ValidNamespace(args[o].namespace)
          /\ ~ValidMaximum(args[o].maximum)
          /\ Fail(o, "InvalidMaximumBlobSize")
       \/ /\ ValidNamespace(args[o].namespace)
          /\ ValidMaximum(args[o].maximum)
          /\ Goto(o, "root")
    /\ UNCHANGED <<files, created>>

InspectRoot(o) ==
    /\ thread[o] = "root"
    /\ \/ root = "absent" /\ Fail(o, "RootDoesNotExist")
       \/ root = "file" /\ Fail(o, "RootIsNotDirectory")
       \/ root = "directory" /\ Goto(o, "create")
       \/ Fail(o, "Io")
    /\ UNCHANGED <<files, created>>

\* create_dir succeeds, finds the name taken, or fails.
CreateNamespace(o) ==
    /\ thread[o] = "create"
    /\ \/ /\ namespace = "absent"
          /\ namespace' = "directory"
          /\ created' = [created EXCEPT ![o] = TRUE]
          /\ Goto(o, IF Platform = "unix" THEN "sync" ELSE "start")
       \/ /\ namespace # "absent"
          /\ Goto(o, "inspect")
          /\ UNCHANGED <<namespace, created>>
       \/ /\ Fail(o, "Io")
          /\ UNCHANGED <<namespace, created>>
    /\ UNCHANGED <<root, durable>>

\* Mutant: the root directory is not synchronized.
SyncNothing(o) ==
    /\ thread[o] = "sync"
    /\ Goto(o, "start")
    /\ UNCHANGED <<files, created>>

SyncRoot(o) ==
    /\ thread[o] = "sync"
    /\ \/ durable' = TRUE /\ Goto(o, "start")
       \/ Fail(o, "SyncRootDirectory") /\ UNCHANGED durable
    /\ UNCHANGED <<root, namespace, created>>

InspectNamespace(o) ==
    /\ thread[o] = "inspect"
    /\ \/ namespace = "directory" /\ Goto(o, "start")
       \/ namespace = "file" /\ Fail(o, "NamespacePathIsNotDirectory")
       \/ Fail(o, "Io")
    /\ UNCHANGED <<files, created>>

\* from_config: the coordinator thread starts, or the whole open fails.
StartCoordinator(o) ==
    /\ thread[o] = "start"
    /\ \/ /\ Conclude(o, "Ok")
          /\ engine' = [engine EXCEPT ![o] = "running"]
          /\ handle' = [handle EXCEPT ![o] = "thread"]
       \/ Fail(o, "StartCoordinator")
    /\ UNCHANGED <<files, created>>

Opened(o) == IF answer[o] = "Ok" THEN "opened" ELSE "failed"

BlockingReturn(o) ==
    /\ thread[o] = "reply"
    /\ o \notin TokioOpeners
    /\ thread' = [thread EXCEPT ![o] = "none"]
    /\ caller' = [caller EXCEPT ![o] = Opened(o)]
    /\ handle' = [handle EXCEPT ![o] = IF answer[o] = "Ok" THEN "caller" ELSE "none"]
    /\ UNCHANGED <<files, args, answer, engine, created, attempts>>

\* The result goes into the channel; a send to a dropped receiver gives it back
\* and drops it, and so does a channel whose two ends are gone.
SendResult(o) ==
    /\ thread[o] = "reply"
    /\ o \in TokioOpeners
    /\ IF caller[o] = "waiting"
       THEN /\ thread' = [thread EXCEPT ![o] = "sent"]
            /\ handle' = [handle EXCEPT ![o] = IF answer[o] = "Ok" THEN "channel" ELSE "none"]
       ELSE /\ thread' = [thread EXCEPT ![o] = "none"]
            /\ handle' = [handle EXCEPT ![o] = "none"]
    /\ UNCHANGED <<files, caller, args, answer, engine, created, attempts>>

ReceiveResult(o) ==
    /\ thread[o] = "sent"
    /\ caller[o] = "waiting"
    /\ thread' = [thread EXCEPT ![o] = "none"]
    /\ caller' = [caller EXCEPT ![o] = Opened(o)]
    /\ handle' = [handle EXCEPT ![o] = IF answer[o] = "Ok" THEN "caller" ELSE "none"]
    /\ UNCHANGED <<files, args, answer, engine, created, attempts>>

\* A panic drops the sender, which the future reports as EngineFailed.
InitializationPanics(o) ==
    /\ o \in TokioOpeners
    /\ thread[o] \in {"validate", "root", "create", "sync", "inspect", "start"}
    /\ thread' = [thread EXCEPT ![o] = "none"]
    /\ IF caller[o] = "waiting"
       THEN /\ caller' = [caller EXCEPT ![o] = "failed"]
            /\ answer' = [answer EXCEPT ![o] = "EngineFailed"]
       ELSE UNCHANGED <<caller, answer>>
    /\ UNCHANGED <<files, args, handle, engine, created, attempts>>

\* Mutant: a result nobody received stays in the channel.
DropFutureLeaky(o) ==
    /\ o \in TokioOpeners
    /\ caller[o] = "waiting"
    /\ caller' = [caller EXCEPT ![o] = "dropped"]
    /\ UNCHANGED <<files, thread, args, answer, handle, engine, created, attempts>>

DropFuture(o) ==
    /\ o \in TokioOpeners
    /\ caller[o] = "waiting"
    /\ caller' = [caller EXCEPT ![o] = "dropped"]
    /\ IF thread[o] = "sent"
       THEN /\ thread' = [thread EXCEPT ![o] = "none"]
            /\ handle' = [handle EXCEPT ![o] = "none"]
       ELSE UNCHANGED <<thread, handle>>
    /\ UNCHANGED <<files, args, answer, engine, created, attempts>>

DropStore(o) ==
    /\ caller[o] = "opened"
    /\ caller' = [caller EXCEPT ![o] = "idle"]
    /\ handle' = [handle EXCEPT ![o] = "none"]
    /\ UNCHANGED <<files, thread, args, answer, engine, created, attempts>>

\* Without handles the coordinator ends (Coordinator, LastHandleStops).
StopEngine(o) ==
    /\ engine[o] = "running"
    /\ handle[o] = "none"
    /\ engine' = [engine EXCEPT ![o] = "none"]
    /\ UNCHANGED <<files, caller, thread, args, answer, handle, created, attempts>>

----------------------------------------------------------------------------
Stop ==
    /\ Faults
    /\ caller' = [o \in Openers |-> "idle"]
    /\ thread' = [o \in Openers |-> "none"]
    /\ handle' = [o \in Openers |-> "none"]
    /\ engine' = [o \in Openers |-> "none"]
    /\ created' = [o \in Openers |-> FALSE]
    /\ UNCHANGED <<args, answer, attempts>>

Kill == Stop /\ UNCHANGED files

PowerLoss ==
    /\ Stop
    /\ ~durable
    /\ namespace' = "absent"
    /\ UNCHANGED <<root, durable>>

----------------------------------------------------------------------------
Step(o) ==
    Validate(o) \/ InspectRoot(o) \/ CreateNamespace(o) \/ SyncRoot(o) \/ InspectNamespace(o)
    \/ StartCoordinator(o) \/ BlockingReturn(o) \/ SendResult(o) \/ ReceiveResult(o) \/ StopEngine(o)

Next ==
    \/ \E o \in Openers :
        \/ \E n \in Namespaces, m \in Maximums : Call(o, n, m)
        \/ Step(o)
        \/ InitializationPanics(o)
        \/ DropFuture(o)
        \/ DropStore(o)
    \/ Kill \/ PowerLoss

Spec == Init /\ [][Next]_vars

(* Threads run on and futures are polled until they are dropped.           *)
Fairness == \A o \in Openers : WF_vars(Step(o))

FairSpec == Spec /\ Fairness

----------------------------------------------------------------------------
(* Properties.                                                             *)

\* An engine runs only on a directory, with arguments that leave room for the
\* envelope, also when two callers race to create the namespace; whoever was
\* given a store has an engine behind it; and on Unix a store whose own call
\* created the namespace keeps it through a power loss (initialize_platform).
EngineOnNamespace ==
    \A o \in Openers :
        /\ engine[o] = "running" =>
            /\ root = "directory" /\ namespace = "directory"
            /\ args[o].maximum + Overhead <= Word
        /\ caller[o] = "opened" => engine[o] = "running"
        /\ Platform = "unix" /\ created[o] /\ caller[o] = "opened" => durable

\* A call that did not hand over a store leaves no engine behind: whenever its
\* future was dropped, on whatever side of the channel the handle is, the
\* coordinator thread ends, and so does the thread that opened the store.
NoOrphanEngine ==
    \A o \in Openers :
        (caller[o] \in {"dropped", "failed", "idle"}) ~> (thread[o] = "none" /\ engine[o] = "none")
=============================================================================
