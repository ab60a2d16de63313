----------------------------- MODULE BlobFiles -----------------------------
(***************************************************************************)
(* What one operation does to the files of one key, system call by system  *)
(* call, on Unix and on Windows (src/filesystem/mod.rs).  Operations on    *)
(* one key, and cleanups, never overlap (module Coordinator), and distinct *)
(* keys have distinct file names, so one operation runs at a time; every   *)
(* system call may fail, and the process or the machine may stop between   *)
(* any two of them.                                                        *)
(*                                                                         *)
(* A file is a value with the number of envelope sections (header,         *)
(* payload, checksum) written so far.  `dir' is the namespace directory as *)
(* processes see it; `disks' are the directories a power loss may leave    *)
(* behind: the last synchronized one and every later one.                  *)
(***************************************************************************)
EXTENDS Integers, FiniteSets

CONSTANTS
    Platform,       \* "unix" or "windows"
    Values,         \* payloads
    Oversized,      \* the payloads above max_blob_size
    Ids,            \* random identifiers
    MinAge,         \* the cleanup's minimum_age
    MaxClock,       \* bound: clock ticks explored
    MaxOps,         \* bound: operations and corrections of the clock explored
    Absent          \* no file, no value

ASSUME PlatformAssumption == Platform \in {"unix", "windows"}
ASSUME ValuesAssumption == Oversized \subseteq Values /\ Absent \notin Values
ASSUME BoundsAssumption ==
    MinAge \in Nat \ {0} /\ MaxClock \in Nat /\ MaxOps \in Nat

VARIABLES
    namespace,      \* does the namespace directory exist?
    dir, disks,
    op,             \* the operation in progress
    pc,             \* its next system call; "idle", or "down" without process
    result,         \* what the last operation returned
    clock,
    ops,            \* number of operations and corrections of the clock
    durable         \* what may be at the canonical path after a power loss

vars == <<namespace, dir, disks, op, pc, result, clock, ops, durable>>

Sections == 3
Canonical == <<"canonical", "-">>
Staging == {"save", "clear"} \X Ids
Quarantined == {"quarantine"} \X Ids
Names == {Canonical} \cup Staging \cup Quarantined

\* `staged' is history: when the operation began that made this a staging file.
Files == [value : Values, sections : 0..Sections, synced : BOOLEAN, modified : Nat, staged : Nat]
Directories == [Names -> Files \cup {Absent}]

ASSUME AbsentAssumption == Absent \notin Files

NoName == <<"none", "-">>
NoOp == [kind |-> "none", value |-> Absent, name |-> NoName, began |-> 0, before |-> Absent,
         prior |-> {}, todo |-> {}, failures |-> FALSE]
NoResult == [kind |-> "none", status |-> "none", name |-> NoName, value |-> Absent,
             before |-> Absent]

ValueAt(d) == IF d[Canonical] = Absent THEN Absent ELSE d[Canonical].value
Windows == Platform = "windows"

Init ==
    /\ namespace = TRUE
    /\ dir = [n \in Names |-> Absent]
    /\ disks = {dir}
    /\ op = NoOp
    /\ pc = "idle"
    /\ result = NoResult
    /\ clock = 0
    /\ ops = 0
    /\ durable = {Absent}

----------------------------------------------------------------------------
(* System calls.                                                           *)

Change(d) == dir' = d /\ disks' = disks \cup {d}
Without(n) == [dir EXCEPT ![n] = Absent]

Renamed(from, to) == [dir EXCEPT ![to] = dir[from], ![from] = Absent]
NoChange == UNCHANGED <<dir, disks>>

\* Mutant: staging is committed without flushing it.
FlushSkipped(n) == UNCHANGED <<dir, disks>>

\* FlushFileBuffers or fsync of a staging file.
FlushFile(n) ==
    /\ dir' = [dir EXCEPT ![n].synced = TRUE]
    /\ disks' = {IF d[n] = Absent THEN d ELSE [d EXCEPT ![n] = dir'[n]] : d \in disks}

\* Mutant: CREATE_ALWAYS and MOVEFILE_REPLACE_EXISTING on a random name.
NameUsable(n) == TRUE

\* CREATE_NEW and no-replace renames fail on an existing name, and the loops
\* around them draw another identifier.
NameFree(n) == dir[n] = Absent

----------------------------------------------------------------------------
(* Starting and finishing an operation.  Return records what its result    *)
(* lets the caller conclude about the canonical path after a power loss.   *)

Target(o) == IF o.kind \in {"save", "stream"} THEN o.value ELSE Absent

Return(status, kept) ==
    /\ result' = [kind |-> op.kind, status |-> status, name |-> op.name, value |-> op.value,
                  before |-> op.before]
    /\ op' = NoOp
    /\ pc' = "idle"
    /\ durable' = kept

ReturnUnchanged(status) == Return(status, op.prior)
ReturnUnsynchronized(status) == Return(status, durable)
ReturnDurable(status) == Return(status, {Target(op)})

FirstStep(kind) ==
    CASE kind \in {"save", "stream"} -> "create"
      [] kind = "clear" -> IF Windows THEN "refresh" ELSE "unlink"
      [] kind = "quarantine" -> "detach"
      [] kind = "cleanup" -> "enumerate"

Begin(kind, v) ==
    /\ pc = "idle"
    /\ ops < MaxOps
    /\ ops' = ops + 1
    /\ op' = [NoOp EXCEPT !.kind = kind, !.value = v, !.began = clock, !.before = ValueAt(dir),
                          !.prior = durable]
    /\ pc' = FirstStep(kind)
    /\ result' = NoResult
    /\ durable' = IF kind = "cleanup" THEN durable ELSE durable \cup {Target(op')}
    /\ UNCHANGED <<namespace, dir, disks, clock>>

\* save and save_from.
BeginSave(v) == \E kind \in {"save", "stream"} : Begin(kind, v)
\* clear, quarantine and cleanup_stale_temporary_files.
BeginOther == \E kind \in {"clear", "quarantine", "cleanup"} : Begin(kind, Absent)

\* Mutant: a missing namespace is taken for a missing blob.
NamespaceAssumed == TRUE

NamespaceAvailable == namespace

Missing(status) ==
    IF NamespaceAvailable THEN Return(status, durable) ELSE ReturnUnchanged("Io")

\* load validates the envelope it finds; inspect stops at the metadata.
ReadOutcome(kind) ==
    IF dir[Canonical] = Absent THEN IF NamespaceAvailable THEN "Absent" ELSE "Io"
    ELSE IF kind = "load" /\ dir[Canonical].sections # Sections THEN "Corrupt" ELSE "Ok"

Read ==
    /\ pc = "idle"
    /\ \E kind \in {"load", "inspect"} : \E status \in {"Io", ReadOutcome(kind)} :
          result' = [NoResult EXCEPT !.kind = kind, !.status = status]
    /\ UNCHANGED <<namespace, dir, disks, op, pc, clock, ops, durable>>

----------------------------------------------------------------------------
(* Saving.                                                                 *)

\* Unix drops the writer and the Windows streaming save deletes its staging
\* file, both on a best-effort basis; the complete Windows save leaves it.
Discard(n) ==
    \/ NoChange
    \/ /\ op.kind = "stream" \/ ~Windows
       /\ Change(Without(n))

\* The length is checked first; only Windows draws the identifier of a save.
CreateErrors ==
    IF op.value \in Oversized THEN {"BlobTooLarge"}
    ELSE {"Io"} \cup (IF Windows THEN {"IdentifierGeneration"} ELSE {})

CreateStaging(id) ==
    /\ pc = "create"
    /\ \/ /\ namespace
          /\ op.value \notin Oversized
          /\ NameFree(<<"save", id>>)
          /\ Change([dir EXCEPT ![<<"save", id>>] =
                [value |-> op.value, sections |-> 0, synced |-> FALSE, modified |-> clock,
                 staged |-> op.began]])
          /\ op' = [op EXCEPT !.name = <<"save", id>>]
          /\ pc' = "write"
          /\ UNCHANGED <<result, durable>>
       \/ /\ \E status \in CreateErrors : ReturnUnchanged(status)
          /\ NoChange
    /\ UNCHANGED <<namespace, clock, ops>>

\* Mutant: the checksum section is not written.
SectionsShort == Sections - 1

SectionsToWrite == Sections

WriteSection ==
    /\ pc = "write"
    /\ \/ /\ Change([dir EXCEPT ![op.name].sections = @ + 1, ![op.name].modified = clock])
          /\ pc' = IF dir'[op.name].sections = SectionsToWrite THEN "flush" ELSE "write"
          /\ UNCHANGED <<op, result, durable>>
       \/ /\ ReturnUnchanged("Io")
          /\ Discard(op.name)
    /\ UNCHANGED <<namespace, clock, ops>>

\* On Unix the flush is the first half of AtomicWriteFile::commit.
FlushStaging ==
    /\ pc = "flush"
    /\ \/ /\ FlushFile(op.name)
          /\ pc' = "move"
          /\ UNCHANGED <<op, result, durable>>
       \/ /\ IF Windows THEN ReturnUnchanged("Io") ELSE ReturnUnsynchronized("AtomicCommit")
          /\ Discard(op.name)
    /\ UNCHANGED <<namespace, clock, ops>>

\* An error of the replacing system call does not tell whether it took effect.
CommitFails ==
    /\ ReturnUnsynchronized("AtomicCommit")
    /\ \/ NoChange
       \/ ~Windows /\ Change(Without(op.name))
       \/ Change(Renamed(op.name, Canonical))

\* On Windows the first move does not replace, and an existing destination
\* leads to a second call that does.  The directory may or may not have been
\* synchronized when AtomicWriteFile::commit succeeds on Unix.
MoveStaging ==
    /\ pc = "move"
    /\ \/ /\ Windows
          /\ IF dir[Canonical] # Absent
             THEN pc' = "replace" /\ NoChange
             ELSE pc' = "sync" /\ Change(Renamed(op.name, Canonical))
          /\ UNCHANGED <<op, result, durable>>
       \/ /\ ~Windows
          /\ ReturnUnsynchronized("Ok")
          /\ dir' = Renamed(op.name, Canonical)
          /\ disks' \in {{dir'}, disks \cup {dir'}}
       \/ CommitFails
    /\ UNCHANGED <<namespace, clock, ops>>

ReplaceCanonical ==
    /\ pc = "replace"
    /\ \/ /\ Change(Renamed(op.name, Canonical))
          /\ pc' = "sync"
          /\ UNCHANGED <<op, result, durable>>
       \/ CommitFails
    /\ UNCHANGED <<namespace, clock, ops>>

----------------------------------------------------------------------------
(* Clearing and quarantining.                                              *)

Unlink ==
    /\ pc = "unlink"
    /\ \/ /\ dir[Canonical] = Absent
          /\ Missing("Ok")
          /\ NoChange
       \/ /\ dir[Canonical] # Absent
          /\ Change(Without(Canonical))
          /\ pc' = "sync"
          /\ UNCHANGED <<op, result, durable>>
       \/ /\ ReturnUnchanged("Io")
          /\ NoChange
    /\ UNCHANGED <<namespace, clock, ops>>

\* Mutant: the blob keeps its age when it becomes a staging file.
AgeKept == UNCHANGED <<dir, disks>>

\* SetFileTime and FlushFileBuffers on the canonical file.
TouchCanonical == Change([dir EXCEPT ![Canonical].modified = clock])

RefreshAge ==
    /\ pc = "refresh"
    /\ \/ /\ dir[Canonical] = Absent
          /\ Missing("Ok")
          /\ NoChange
       \/ /\ dir[Canonical] # Absent
          /\ TouchCanonical
          /\ pc' = "detach"
          /\ UNCHANGED <<op, result, durable>>
       \/ /\ ReturnUnchanged("Io")
          /\ NoChange \/ (dir[Canonical] # Absent /\ TouchCanonical)
    /\ UNCHANGED <<namespace, clock, ops>>

\* Mutant: the new name is linked and the canonical one not unlinked.
DetachedByLink(to) == [dir EXCEPT ![to] = [dir[Canonical] EXCEPT !.staged = op.began]]

Detached(to) == [Renamed(Canonical, to) EXCEPT ![to].staged = op.began]

\* The no-replace rename of the canonical file, of a Windows clear to a staging
\* name and of a quarantine to a diagnostic name.
Detach(id) ==
    LET to == <<op.kind, id>> IN
    /\ pc = "detach"
    /\ \/ /\ dir[Canonical] = Absent
          /\ IF op.kind = "clear" THEN Missing("Ok")
             ELSE Missing("QuarantineSourceMissing")
          /\ NoChange
       \/ /\ dir[Canonical] # Absent
          /\ NameFree(to)
          /\ Change(Detached(to))
          /\ op' = [op EXCEPT !.name = to]
          /\ pc' = "sync"
          /\ UNCHANGED <<result, durable>>
       \/ /\ \/ ReturnUnchanged("IdentifierGeneration")
             \/ ReturnUnchanged(IF op.kind = "quarantine" THEN "QuarantineCommit" ELSE "Io")
          /\ NoChange
    /\ UNCHANGED <<namespace, clock, ops>>

\* Mutant: a failed directory sync is reported like an operation without effect.
SyncFailedQuietly == ReturnUnchanged("Io")

\* On Unix opening the directory is a step of its own for a clear.
SyncErrors ==
    IF op.kind = "quarantine" THEN {"QuarantineNamespaceSync"}
    ELSE {"SyncNamespaceDirectory"} \cup (IF Windows THEN {} ELSE {"OpenNamespaceDirectory"})

SyncFailed == \E status \in SyncErrors : ReturnUnsynchronized(status)

\* Mutant: the directory is not synchronized.
SyncOmitted == UNCHANGED <<dir, disks>>

SyncNamespace == dir' = dir /\ disks' = {dir}

\* Mutant: a quarantine moves the blob back and starts over when the sync fails.
SyncOrRollBack ==
    /\ pc = "sync"
    /\ \/ SyncNamespace /\ ReturnDurable("Ok")
       \/ /\ op.kind = "quarantine"
          /\ Change(Renamed(op.name, Canonical))
          /\ pc' = "detach"
          /\ UNCHANGED <<op, result, durable>>
    /\ UNCHANGED <<namespace, clock, ops>>

SyncDirectory ==
    /\ pc = "sync"
    /\ \/ /\ SyncNamespace
          /\ IF Windows /\ op.kind = "clear"
             THEN pc' = "delete" /\ UNCHANGED <<op, result, durable>>
             ELSE ReturnDurable("Ok")
       \/ /\ SyncFailed
          /\ NoChange
    /\ UNCHANGED <<namespace, clock, ops>>

DeleteCleared == ReturnDurable("Ok") /\ Change(Without(op.name))

DeleteStaging ==
    /\ pc = "delete"
    /\ \/ DeleteCleared
       \/ /\ ReturnDurable("RemoveTemporaryFile")
          /\ NoChange
    /\ UNCHANGED <<namespace, clock, ops>>

----------------------------------------------------------------------------
(* Cleanup of stale staging files, a Windows operation.                    *)

Enumerate ==
    /\ pc = "enumerate"
    /\ \/ /\ Windows
          /\ namespace
          /\ op' = [op EXCEPT !.began = clock, !.todo = {n \in Names : dir[n] # Absent}]
          /\ pc' = "sweep"
          /\ UNCHANGED <<result, durable>>
       \/ ReturnUnchanged(IF Windows THEN "Io" ELSE "CleanupUnsupported")
    /\ UNCHANGED <<namespace, dir, disks, clock, ops>>

\* Mutant: the name filter accepts diagnostic names.
IsDerivedFilename(n) == n # Canonical

IsOwnedTemporaryFilename(n) == n \in Staging

\* Mutants: a file of exactly the minimum age is skipped; a time stamp that lies
\* ahead counts as an age.
OlderThan(f) == f.modified <= op.began /\ op.began - f.modified > MinAge
FarEnough(f) ==
    \/ f.modified <= op.began /\ op.began - f.modified >= MinAge
    \/ f.modified > op.began /\ f.modified - op.began >= MinAge

\* duration_since has no answer for a time stamp ahead of the clock.
OldEnough(f) == f.modified <= op.began /\ op.began - f.modified >= MinAge

\* One directory entry: removed, skipped, or reported as a failure because reading
\* the entry, its metadata or deleting the file failed.
Sweep(n) ==
    /\ pc = "sweep"
    /\ n \in op.todo
    /\ \/ /\ op' = [op EXCEPT !.todo = @ \ {n}]
          /\ IF IsOwnedTemporaryFilename(n) /\ OldEnough(dir[n]) THEN Change(Without(n)) ELSE NoChange
       \/ /\ op' = [op EXCEPT !.todo = @ \ {n}, !.failures = TRUE]
          /\ NoChange
    /\ UNCHANGED <<namespace, pc, result, clock, ops, durable>>

\* The report is Ok in either case; "Failures" is one that lists some.
SweepDone ==
    /\ pc = "sweep"
    /\ op.todo = {}
    /\ ReturnUnchanged(IF op.failures THEN "Failures" ELSE "Ok")
    /\ UNCHANGED <<namespace, dir, disks, clock, ops>>

----------------------------------------------------------------------------
(* The environment.                                                        *)

Stop ==
    /\ op' = NoOp
    /\ pc' = "down"
    /\ result' = NoResult

\* The process is killed; an anonymous Unix temporary file goes with it.
Kill ==
    /\ pc # "down"
    /\ Stop
    /\ \/ NoChange
       \/ /\ ~Windows
          /\ pc \in {"write", "flush", "move"}
          /\ Change(Without(op.name))
    /\ UNCHANGED <<namespace, clock, ops, durable>>

Torn(d, cut) ==
    [n \in Names |->
        IF d[n] = Absent \/ (d[n] # Absent /\ d[n].synced) THEN d[n]
        ELSE [d[n] EXCEPT !.sections = IF cut < @ THEN cut ELSE @]]

\* The machine stops: unsynchronized directory changes and file contents may
\* be lost.
PowerLoss ==
    /\ Stop
    /\ \E d \in disks, cut \in 0..Sections : dir' = Torn(d, cut)
    /\ disks' = {dir'}
    /\ UNCHANGED <<namespace, clock, ops, durable>>

\* initialize_platform: opening a store creates a missing namespace.
Open ==
    /\ pc = "down"
    /\ namespace' = TRUE
    /\ pc' = "idle"
    /\ UNCHANGED <<dir, disks, op, result, clock, ops, durable>>

\* The application removes the namespace directory between two operations.
LoseNamespace ==
    /\ pc = "idle"
    /\ namespace
    /\ namespace' = FALSE
    /\ dir' = [n \in Names |-> Absent]
    /\ disks' = {dir'}
    /\ result' = NoResult
    /\ durable' = {Absent}
    /\ UNCHANGED <<op, pc, clock, ops>>

Tick ==
    /\ clock < MaxClock
    /\ clock' = clock + 1
    /\ UNCHANGED <<namespace, dir, disks, op, pc, result, ops, durable>>

\* The wall clock is set back while no operation runs.
SetBack ==
    /\ pc \in {"idle", "down"}
    /\ ops < MaxOps
    /\ ops' = ops + 1
    /\ clock' \in 0..(clock - 1)
    /\ UNCHANGED <<namespace, dir, disks, op, pc, result, durable>>

Next ==
    \/ \E v \in Values : BeginSave(v)
    \/ BeginOther
    \/ Read
    \/ \E id \in Ids : CreateStaging(id) \/ Detach(id)
    \/ WriteSection \/ FlushStaging \/ MoveStaging \/ ReplaceCanonical
    \/ Unlink \/ RefreshAge \/ SyncDirectory \/ DeleteStaging
    \/ Enumerate \/ SweepDone
    \/ \E n \in Names : Sweep(n)
    \/ Kill \/ PowerLoss \/ Open \/ LoseNamespace \/ Tick \/ SetBack

Spec == Init /\ [][Next]_vars

----------------------------------------------------------------------------
(* Properties.                                                             *)

Complete(f) == f # Absent => f.sections = Sections /\ f.synced

\* The canonical path never names a partial file, not even after a power loss
\* that keeps any prefix of the unsynchronized changes.
CanonicalComplete == \A d \in disks \cup {dir} : Complete(d[Canonical])

\* A save on Windows, a clear or a quarantine that synchronized the directory
\* survives a power loss; otherwise an earlier unsynchronized state may return.
DurableOutcome == \A d \in disks : ValueAt(d) \in durable

\* A quarantine that returned, or failed only to synchronize, has moved the
\* complete former blob to the name it reports.
QuarantineHolds ==
    result.kind = "quarantine" /\ result.status \in {"Ok", "QuarantineNamespaceSync"} =>
        /\ dir[Canonical] = Absent
        /\ dir[result.name] # Absent
        /\ dir[result.name].value = result.before

\* No operation touches a staging or quarantine file other than its own, except
\* a cleanup, which takes staging files only.
DerivedFilesKept ==
    [][pc' # "down" /\ namespace' =>
         \A n \in Staging \cup Quarantined :
            dir[n] # Absent /\ dir'[n] # dir[n] => n = op.name \/ (pc = "sweep" /\ n \in Staging)]_vars

\* A cleanup removes a staging file only when the operation that made it one had
\* begun at least the minimum age earlier, however old the blob itself was and also
\* if the clock was set back; and a report without failures means that no staging
\* file of that age is left.
CleanupRespectsAge ==
    [][pc = "sweep" =>
         /\ \A n \in Names : pc' = "sweep" /\ dir'[n] # dir[n] => op.began - dir[n].staged >= MinAge
         /\ result'.status = "Ok" =>
                \A n \in Staging : dir'[n] # Absent => op.began - dir'[n].modified < MinAge]_vars

\* "No blob" is only ever reported from an existing namespace.
AbsentIsGenuine ==
    <<result.kind, result.status>> \in
            {<<"load", "Absent">>, <<"inspect", "Absent">>, <<"clear", "Ok">>, <<"quarantine", "QuarantineSourceMissing">>}
        => namespace /\ dir[Canonical] = Absent

\* README: Unix "synchronizes directories after namespace creation and clear",
\* so no power loss would bring a blob back once its clear has succeeded.
ClearIsSynchronized ==
    result.kind = "clear" /\ result.status = "Ok" => \A d \in disks : d[Canonical] = Absent

----------------------------------------------------------------------------
(* The register these files implement.                                     *)

Writing == op.kind \in {"save", "stream", "clear", "quarantine"}

Told ==
    IF result.kind \notin {"save", "stream", "clear", "quarantine"} THEN "none"
    ELSE
    CASE result.status \in {"Ok", "OpenNamespaceDirectory", "SyncNamespaceDirectory",
                            "QuarantineNamespaceSync", "RemoveTemporaryFile"} -> "done"
      [] result.status = "AtomicCommit" -> "unknown"
      [] OTHER -> "refused"

Blob == INSTANCE AtomicBlob WITH
    value <- ValueAt(dir),
    recoverable <- {ValueAt(d) : d \in disks},
    target <- IF Writing THEN Target(op) ELSE Absent,
    effect <- IF ~Writing THEN "none" ELSE IF pc \in {"sync", "delete"} THEN "done" ELSE "pending",
    told <- Told

\* The files implement an atomic register: between its start and its answer an
\* operation changes the blob at most once, straight from the old value to its
\* target, no later step of it takes that back, and its answer tells the truth.
IsAtomic == Blob!Spec
=============================================================================
