-------------------------- MODULE BlobFilesProofs --------------------------
(***************************************************************************)
(* Proofs about module BlobFiles, on either platform, for any number of    *)
(* operations, values and identifiers, with failures of every system call, *)
(* kills and power losses.                                                 *)
(***************************************************************************)
EXTENDS BlobFiles, TLAPS

Maybe == Values \cup {Absent}
Kinds == {"none", "save", "stream", "clear", "quarantine", "cleanup"}
OpType == [kind : Kinds, value : Maybe, name : Names \cup {NoName}, began : Nat, before : Maybe,
           prior : SUBSET Maybe, todo : SUBSET Names, failures : BOOLEAN]

SaveSteps == {"create", "write", "flush", "move", "replace"}
PCs == SaveSteps \cup {"idle", "down", "unlink", "refresh", "detach", "sync", "delete", "enumerate", "sweep"}

TypeOK ==
    /\ namespace \in BOOLEAN
    /\ dir \in Directories
    /\ disks \subseteq Directories
    /\ op \in OpType
    /\ pc \in PCs
    /\ clock \in Nat
    /\ durable \subseteq Maybe

\* Which operation is at which step.
StepInv ==
    /\ pc \in SaveSteps => op.kind \in {"save", "stream"}
    /\ pc = "replace" => Windows
    /\ pc = "unlink" => op.kind = "clear" /\ ~Windows
    /\ pc = "refresh" => op.kind = "clear" /\ Windows
    /\ pc = "detach" => op.kind = "quarantine" \/ (op.kind = "clear" /\ Windows)
    /\ pc = "sync" => op.kind \in {"save", "stream", "clear", "quarantine"}
    /\ pc = "delete" => op.kind = "clear"
    /\ pc \in {"enumerate", "sweep"} => op.kind = "cleanup"
    /\ pc \in {"idle", "down"} => op = NoOp
    /\ pc # "idle" => result = NoResult
    /\ op.kind \in {"save", "stream"} => op.value \in Values

\* The staging file of a save.
StagingInv ==
    /\ pc \in {"write", "flush", "move", "replace"} =>
            /\ op.name \in {"save"} \X Ids
            /\ dir[op.name] # Absent /\ dir[op.name].value = op.value
    /\ pc = "write" => dir[op.name].sections < Sections
    /\ pc \in {"flush", "move", "replace"} => dir[op.name].sections = Sections
    /\ pc \in {"move", "replace"} => dir[op.name].synced

\* What may be on the disk.
DiskInv ==
    /\ dir \in disks
    /\ \A d \in disks : Complete(d[Canonical])
    /\ ~namespace => \A d \in disks, n \in Names : d[n] = Absent

\* What an operation has done to the blob, and what it may still report.
Pending == SaveSteps \cup {"unlink", "refresh", "detach", "enumerate", "sweep"}

EffectInv ==
    /\ \A d \in disks : ValueAt(d) \in durable
    /\ pc \notin {"idle", "down"} => op.prior \subseteq durable
    /\ pc \in Pending => \A d \in disks : ValueAt(d) \in op.prior
    /\ op.kind \in {"save", "stream", "clear", "quarantine"} => Target(op) \in durable
    /\ pc \in {"sync", "delete"} => ValueAt(dir) = Target(op)
    /\ pc = "delete" => op.name \in {"clear"} \X Ids /\ \A d \in disks : d[Canonical] = Absent
    /\ pc \in {"refresh", "detach"} => op.before = ValueAt(dir)
    /\ pc \in {"sync", "delete"} => namespace
    /\ pc = "sync" /\ op.kind = "quarantine" =>
            op.name \in Quarantined /\ dir[op.name] # Absent /\ dir[op.name].value = op.before
    /\ pc = "sync" /\ op.kind = "clear" /\ Windows => op.name \in {"clear"} \X Ids

\* A staging file looks no older than the operation that made it one: this holds
\* of what the clock said at the time, so setting it back does not disturb it.
Aged(n, f) == f # Absent /\ n \in Staging => f.staged <= f.modified

AgeInv ==
    /\ op.began <= clock
    /\ \A d \in disks, n \in Names : Aged(n, d[n])
    /\ pc = "write" => dir[op.name].staged = op.began
    /\ pc = "detach" /\ op.kind = "clear" /\ dir[Canonical] # Absent => op.began <= dir[Canonical].modified

\* A cleanup has left behind no old staging file that it neither lists as a
\* failure nor has still to visit.
SweepInv ==
    pc = "sweep" /\ ~op.failures =>
        \A n \in Staging \ op.todo : dir[n] # Absent => op.began - dir[n].modified < MinAge

IInv ==
    /\ TypeOK /\ StepInv /\ StagingInv /\ DiskInv /\ EffectInv /\ AgeInv /\ SweepInv
    /\ QuarantineHolds /\ AbsentIsGenuine

----------------------------------------------------------------------------
(* Names, and the directories that the system calls make.                  *)

\* The families of names are disjoint.
LEMMA NameFacts ==
    /\ Canonical \in Names /\ Canonical \notin Staging /\ Canonical \notin Quarantined
    /\ NoName \notin Names
    /\ Staging \subseteq Names /\ Quarantined \subseteq Names
    /\ Staging \cap Quarantined = {}
  BY DEF Canonical, NoName, Staging, Quarantined, Names

\* Identifiers make staging and quarantine names.
LEMMA FreshNames ==
    ASSUME NEW id \in Ids
    PROVE  /\ <<"save", id>> \in {"save"} \X Ids
           /\ <<"clear", id>> \in {"clear"} \X Ids
           /\ <<"quarantine", id>> \in Quarantined
           /\ {"save"} \X Ids \subseteq Staging /\ {"clear"} \X Ids \subseteq Staging
  BY DEF Staging, Quarantined

\* A directory with one entry changed.
LEMMA PutType ==
    ASSUME NEW d \in Directories, NEW n \in Names, NEW f \in Files \cup {Absent}
    PROVE  /\ [d EXCEPT ![n] = f] \in Directories
           /\ [d EXCEPT ![n] = f][n] = f
           /\ \A m \in Names \ {n} : [d EXCEPT ![n] = f][m] = d[m]
  BY DEF Directories

\* An entry that is present is a file.
LEMMA PresentIsFile ==
    ASSUME NEW d \in Directories, NEW n \in Names, d[n] # Absent
    PROVE  d[n] \in Files
  BY DEF Directories

\* The register value of a directory.
LEMMA ValueAtType ==
    ASSUME NEW d \in Directories
    PROVE  ValueAt(d) \in Maybe /\ (ValueAt(d) = Absent <=> d[Canonical] = Absent)
  BY NameFacts, ValuesAssumption DEF Directories, ValueAt, Maybe, Files

\* A rename moves the entry.
LEMMA RenamedIs ==
    ASSUME dir \in Directories, NEW from \in Names, NEW to \in Names, from # to
    PROVE  /\ Renamed(from, to) \in Directories
           /\ Renamed(from, to)[to] = dir[from]
           /\ Renamed(from, to)[from] = Absent
           /\ \A m \in Names \ {from, to} : Renamed(from, to)[m] = dir[m]
  BY DEF Directories, Renamed

\* An unlink removes the entry.
LEMMA WithoutIs ==
    ASSUME dir \in Directories, NEW n \in Names
    PROVE  /\ Without(n) \in Directories
           /\ Without(n)[n] = Absent
           /\ \A m \in Names \ {n} : Without(n)[m] = dir[m]
  BY DEF Directories, Without

\* Detaching the blob moves it and dates the operation that did.
LEMMA DetachedIs ==
    ASSUME dir \in Directories, op.began \in Nat, NEW to \in Names, to # Canonical, dir[Canonical] # Absent
    PROVE  /\ Detached(to) \in Directories
           /\ Detached(to)[Canonical] = Absent
           /\ Detached(to)[to] = [dir[Canonical] EXCEPT !.staged = op.began]
           /\ Detached(to)[to] \in Files
           /\ \A m \in Names \ {Canonical, to} : Detached(to)[m] = dir[m]
<1>1. Canonical \in Names /\ dir[Canonical] \in Files
  BY NameFacts, PresentIsFile
<1>2. [dir[Canonical] EXCEPT !.staged = op.began] \in Files
  BY <1>1 DEF Files
<1> DEFINE r == Renamed(Canonical, to)
<1>3. /\ r \in Directories /\ r[to] = dir[Canonical] /\ r[Canonical] = Absent
      /\ \A m \in Names \ {Canonical, to} : r[m] = dir[m]
  BY <1>1, RenamedIs
<1> DEFINE f == [dir[Canonical] EXCEPT !.staged = op.began]
<1>4. Detached(to) = [r EXCEPT ![to] = f]
  BY <1>3 DEF Detached
<1>5. f \in Files /\ f = [dir[Canonical] EXCEPT !.staged = op.began]
  BY <1>2
<1> HIDE DEF r, f
<1>6. /\ [r EXCEPT ![to] = f] \in Directories
      /\ [r EXCEPT ![to] = f][to] = f
      /\ \A m \in Names \ {to} : [r EXCEPT ![to] = f][m] = r[m]
  BY <1>3, <1>5, PutType
<1>7. QED
  BY <1>1, <1>3, <1>4, <1>5, <1>6

\* What a power loss leaves of a directory.
LEMMA TornIs ==
    ASSUME NEW d \in Directories, NEW cut \in 0..Sections
    PROVE  /\ Torn(d, cut) \in Directories
           /\ \A n \in Names :
                 /\ d[n] = Absent <=> Torn(d, cut)[n] = Absent
                 /\ d[n] # Absent => /\ Torn(d, cut)[n].value = d[n].value
                                     /\ Torn(d, cut)[n].synced = d[n].synced
                                     /\ Torn(d, cut)[n].modified = d[n].modified
                                     /\ Torn(d, cut)[n].staged = d[n].staged
                                     /\ d[n].synced => Torn(d, cut)[n] = d[n]
<1> SUFFICES ASSUME NEW n \in Names
             PROVE  /\ Torn(d, cut)[n] \in Files \cup {Absent}
                    /\ d[n] = Absent <=> Torn(d, cut)[n] = Absent
                    /\ d[n] # Absent => /\ Torn(d, cut)[n].value = d[n].value
                                        /\ Torn(d, cut)[n].synced = d[n].synced
                                        /\ Torn(d, cut)[n].modified = d[n].modified
                                        /\ Torn(d, cut)[n].staged = d[n].staged
                                        /\ d[n].synced => Torn(d, cut)[n] = d[n]
  BY DEF Torn, Directories
<1>1. CASE d[n] = Absent
  BY <1>1 DEF Torn
<1>2. CASE d[n] # Absent
  <2>1. d[n] \in Files
    BY <1>2, PresentIsFile
  <2>2. CASE d[n].synced
    BY <1>2, <2>1, <2>2 DEF Torn
  <2>3. CASE ~d[n].synced
    <3> DEFINE s == IF cut < d[n].sections THEN cut ELSE d[n].sections
    <3>1. Torn(d, cut)[n] = [d[n] EXCEPT !.sections = s]
      BY <1>2, <2>3 DEF Torn
    <3>2. s \in 0..Sections
      BY <2>1 DEF Files, Sections
    <3> HIDE DEF s
    <3>3. [d[n] EXCEPT !.sections = s] \in Files
      BY <2>1, <3>2 DEF Files
    <3>4. QED
      BY <1>2, <2>1, <2>3, <3>1, <3>3, AbsentAssumption DEF Files
  <2>4. QED
    BY <2>2, <2>3
<1>3. QED
  BY <1>1, <1>2

----------------------------------------------------------------------------
(* Types.                                                                  *)

LEMMA NoOpType ==
    /\ NoOp \in OpType /\ NoOp.kind = "none" /\ NoOp.value = Absent /\ NoOp.name = NoName
    /\ NoOp.began = 0 /\ NoOp.prior = {} /\ NoOp.todo = {} /\ NoOp.failures = FALSE
  BY DEF NoOp, OpType, Kinds, Maybe

\* The file that a save creates.
LEMMA NewFile ==
    ASSUME NEW v \in Values, NEW c \in Nat, NEW b \in Nat
    PROVE  [value |-> v, sections |-> 0, synced |-> FALSE, modified |-> c, staged |-> b] \in Files
  BY DEF Files, Sections

\* The staging file after one more section, and after the flush.
LEMMA WrittenIs ==
    ASSUME dir \in Directories, clock \in Nat, NEW n \in Names, dir[n] # Absent, dir[n].sections < Sections
    PROVE  LET d == [dir EXCEPT ![n].sections = @ + 1, ![n].modified = clock] IN
           /\ d \in Directories
           /\ d[n] \in Files
           /\ d[n] = [dir[n] EXCEPT !.sections = @ + 1, !.modified = clock]
           /\ d[n].sections = dir[n].sections + 1
           /\ \A m \in Names \ {n} : d[m] = dir[m]
<1> DEFINE f == [dir[n] EXCEPT !.sections = @ + 1, !.modified = clock]
           d == [dir EXCEPT ![n].sections = @ + 1, ![n].modified = clock]
<1>1. dir[n] \in Files
  BY PresentIsFile
<1> DEFINE k == dir[n].sections + 1
<1>a. k \in 0..Sections
  BY <1>1 DEF Files, Sections
<1>b. f = [dir[n] EXCEPT !.sections = k, !.modified = clock]
  OBVIOUS
<1>2. f \in Files /\ f.sections = k
  <2> HIDE DEF k, f
  <2>1. QED
    BY <1>1, <1>a, <1>b DEF Files
<1>3. d = [dir EXCEPT ![n] = f]
  BY <1>1 DEF Directories, Files
<1>4. f = [dir[n] EXCEPT !.sections = @ + 1, !.modified = clock]
  OBVIOUS
<1> HIDE DEF f
<1>5. [dir EXCEPT ![n] = f] \in Directories /\ [dir EXCEPT ![n] = f][n] = f
      /\ \A m \in Names \ {n} : [dir EXCEPT ![n] = f][m] = dir[m]
  BY <1>2, PutType
<1>6. QED
  BY <1>2, <1>3, <1>4, <1>5

LEMMA FlushedIs ==
    ASSUME dir \in Directories, NEW n \in Names, dir[n] # Absent
    PROVE  LET d == [dir EXCEPT ![n].synced = TRUE] IN
           /\ d \in Directories
           /\ d[n] \in Files
           /\ d[n] = [dir[n] EXCEPT !.synced = TRUE]
           /\ \A m \in Names \ {n} : d[m] = dir[m]
<1> DEFINE f == [dir[n] EXCEPT !.synced = TRUE]
           d == [dir EXCEPT ![n].synced = TRUE]
<1>1. f \in Files
  BY PresentIsFile DEF Files
<1>2. d = [dir EXCEPT ![n] = f]
  BY DEF Directories
<1>3. f = [dir[n] EXCEPT !.synced = TRUE]
  OBVIOUS
<1> HIDE DEF f
<1>4. [dir EXCEPT ![n] = f] \in Directories /\ [dir EXCEPT ![n] = f][n] = f
      /\ \A m \in Names \ {n} : [dir EXCEPT ![n] = f][m] = dir[m]
  BY <1>1, PutType
<1>5. QED
  BY <1>1, <1>2, <1>3, <1>4

\* Dating the blob.
LEMMA TouchedIs ==
    ASSUME dir \in Directories, clock \in Nat, dir[Canonical] # Absent
    PROVE  LET d == [dir EXCEPT ![Canonical].modified = clock] IN
           /\ d \in Directories
           /\ d[Canonical] \in Files
           /\ d[Canonical] = [dir[Canonical] EXCEPT !.modified = clock]
           /\ \A m \in Names \ {Canonical} : d[m] = dir[m]
<1> DEFINE f == [dir[Canonical] EXCEPT !.modified = clock]
           d == [dir EXCEPT ![Canonical].modified = clock]
<1>1. f \in Files /\ Canonical \in Names
  BY PresentIsFile, NameFacts DEF Files
<1>2. d = [dir EXCEPT ![Canonical] = f]
  BY DEF Directories
<1>3. f = [dir[Canonical] EXCEPT !.modified = clock]
  OBVIOUS
<1> HIDE DEF f
<1>4. [dir EXCEPT ![Canonical] = f] \in Directories /\ [dir EXCEPT ![Canonical] = f][Canonical] = f
      /\ \A m \in Names \ {Canonical} : [dir EXCEPT ![Canonical] = f][m] = dir[m]
  BY <1>1, PutType
<1>5. QED
  BY <1>1, <1>2, <1>3, <1>4

\* Every step preserves the types.
LEMMA TypeStep == IInv /\ [Next]_vars => TypeOK'
<1> SUFFICES ASSUME IInv, [Next]_vars PROVE TypeOK'
  OBVIOUS
<1> USE NoOpType, NameFacts
<1>0. TypeOK /\ StepInv /\ StagingInv /\ dir \in disks /\ (pc \notin {"idle", "down"} => op.prior \subseteq durable)
  BY DEF IInv, DiskInv, EffectInv
<1>a. /\ namespace \in BOOLEAN /\ dir \in Directories /\ disks \subseteq Directories /\ op \in OpType
      /\ pc \in PCs /\ clock \in Nat /\ durable \subseteq Maybe
  BY <1>0 DEF TypeOK
<1>b. op.prior \subseteq Maybe /\ Target(op) \in Maybe /\ op.began \in Nat
  BY <1>a DEF OpType, Maybe, Target
<1>c. pc \in {"write", "flush", "move", "replace"} => op.name \in Names /\ op.name # Canonical /\ dir[op.name] # Absent
  BY <1>0, FreshNames DEF StagingInv, Staging
<1>1. ASSUME NEW kind \in {"save", "stream"}, NEW v \in Values, Begin(kind, v) PROVE TypeOK'
  BY <1>1, <1>a, ValueAtType, FreshNames
     DEF Begin, TypeOK, OpType, NoOp, Kinds, Maybe, PCs, SaveSteps, FirstStep, Target
<1>2. ASSUME NEW kind \in {"clear", "quarantine", "cleanup"}, Begin(kind, Absent) PROVE TypeOK'
  BY <1>2, <1>a, ValueAtType
     DEF Begin, TypeOK, OpType, NoOp, Kinds, Maybe, PCs, SaveSteps, FirstStep, Target
<1>3. CASE Read
  BY <1>3, <1>a DEF Read, TypeOK
<1> DEFINE Returns(kept) == op' = NoOp /\ pc' = "idle" /\ durable' = kept
<1>d. ASSUME NEW kept \in SUBSET Maybe, Returns(kept), UNCHANGED <<namespace, clock>>,
             dir' \in Directories, disks' \subseteq Directories
      PROVE  TypeOK'
  BY <1>a, <1>d DEF TypeOK, PCs
<1>4. ASSUME NEW id \in Ids, CreateStaging(id) PROVE TypeOK'
  <2> DEFINE n == <<"save", id>>
             f == [value |-> op.value, sections |-> 0, synced |-> FALSE, modified |-> clock, staged |-> op.began]
  <2>1. n \in Names /\ op.value \in Values
    BY <1>0, <1>4, FreshNames DEF CreateStaging, StepInv, SaveSteps
  <2>2. f \in Files
    BY <2>1, <1>a, <1>b, NewFile
  <2>3. CASE Change([dir EXCEPT ![n] = f]) /\ op' = [op EXCEPT !.name = n] /\ pc' = "write"
             /\ UNCHANGED <<namespace, clock, durable>>
    <3> HIDE DEF n, f
    <3>0. [dir EXCEPT ![n] = f] \in Directories
      BY <2>1, <2>2, <1>a, PutType
    <3>1. dir' \in Directories /\ disks' \subseteq Directories
      BY <2>3, <3>0, <1>a DEF Change
    <3>2. op' \in OpType
      BY <2>1, <2>3, <1>a DEF OpType
    <3>3. QED
      BY <2>3, <3>1, <3>2, <1>a DEF TypeOK, PCs, SaveSteps
  <2>4. CASE Returns(op.prior) /\ NoChange /\ UNCHANGED <<namespace, clock>>
    BY <2>4, <1>a, <1>b, <1>d DEF NoChange
  <2>5. QED
    BY <1>4, <2>3, <2>4 DEF CreateStaging, ReturnUnchanged, Return
<1>5. ASSUME NEW n \in Names, Discard(n) PROVE dir' \in Directories /\ disks' \subseteq Directories
  BY <1>5, <1>a, WithoutIs DEF Discard, NoChange, Change
<1>6. CASE WriteSection
  <2>1. op.name \in Names /\ dir[op.name] # Absent /\ dir[op.name].sections < Sections
    BY <1>0, <1>6, <1>c DEF WriteSection, StagingInv
  <2> DEFINE d == [dir EXCEPT ![op.name].sections = @ + 1, ![op.name].modified = clock]
  <2>2. d \in Directories
    BY <2>1, <1>a, WrittenIs
  <2>3. CASE Change(d) /\ pc' \in {"flush", "write"} /\ UNCHANGED <<op, durable, namespace, clock>>
    <3> HIDE DEF d
    <3>1. QED
      BY <2>2, <2>3, <1>a DEF TypeOK, Change, PCs, SaveSteps
  <2>4. CASE Returns(op.prior) /\ Discard(op.name) /\ UNCHANGED <<namespace, clock>>
    BY <2>1, <2>4, <1>5, <1>b, <1>d
  <2>5. QED
    BY <1>6, <2>3, <2>4 DEF WriteSection, ReturnUnchanged, Return
<1>7. CASE FlushStaging
  <2>1. op.name \in Names /\ dir[op.name] # Absent
    BY <1>7, <1>c DEF FlushStaging
  <2>2. CASE FlushFile(op.name) /\ pc' = "move" /\ UNCHANGED <<op, durable, namespace, clock>>
    <3>1. dir' \in Directories
      BY <2>1, <2>2, <1>a, FlushedIs DEF FlushFile
    <3>2. dir'[op.name] \in Files \cup {Absent}
      BY <2>1, <3>1 DEF Directories
    <3> DEFINE f == dir'[op.name]
    <3>3. disks' = {IF d[op.name] = Absent THEN d ELSE [d EXCEPT ![op.name] = f] : d \in disks}
      BY <2>2 DEF FlushFile
    <3> HIDE DEF f
    <3>4. disks' \subseteq Directories
      BY <2>1, <3>2, <3>3, <1>a, PutType DEF f
    <3>5. QED
      BY <2>2, <3>1, <3>4, <1>a DEF TypeOK, PCs, SaveSteps
  <2>3. CASE Returns(op.prior) /\ Discard(op.name) /\ UNCHANGED <<namespace, clock>>
    BY <2>1, <2>3, <1>5, <1>b, <1>d
  <2>4. CASE Returns(durable) /\ Discard(op.name) /\ UNCHANGED <<namespace, clock>>
    BY <2>1, <2>4, <1>5, <1>a, <1>d
  <2>5. QED
    BY <1>7, <2>2, <2>3, <2>4 DEF FlushStaging, ReturnUnchanged, ReturnUnsynchronized, Return
<1>e. ASSUME pc \in {"write", "flush", "move", "replace"}
      PROVE  Renamed(op.name, Canonical) \in Directories /\ Without(op.name) \in Directories
  BY <1>a, <1>c, <1>e, RenamedIs, WithoutIs
<1>f. ASSUME pc \in {"move", "replace"}, CommitFails, UNCHANGED <<namespace, clock>>
      PROVE  TypeOK'
  <2>1. Returns(durable) /\ dir' \in Directories /\ disks' \subseteq Directories
    BY <1>a, <1>e, <1>f DEF CommitFails, ReturnUnsynchronized, Return, NoChange, Change
  <2>2. QED
    BY <2>1, <1>a, <1>d, <1>f
<1>8. CASE MoveStaging
  <2>1. Renamed(op.name, Canonical) \in Directories /\ UNCHANGED <<namespace, clock>>
    BY <1>8, <1>e DEF MoveStaging
  <2>2. CASE pc' \in {"replace", "sync"} /\ (NoChange \/ Change(Renamed(op.name, Canonical)))
             /\ UNCHANGED <<op, durable>>
    BY <2>1, <2>2, <1>a DEF TypeOK, NoChange, Change, PCs, SaveSteps
  <2>3. CASE Returns(durable) /\ dir' = Renamed(op.name, Canonical) /\ disks' \in {{dir'}, disks \cup {dir'}}
    BY <2>1, <2>3, <1>a, <1>d
  <2>4. CASE CommitFails
    BY <2>1, <2>4, <1>8, <1>f DEF MoveStaging
  <2>5. QED
    BY <1>8, <2>2, <2>3, <2>4 DEF MoveStaging, ReturnUnsynchronized, Return
<1>9. CASE ReplaceCanonical
  <2>1. Renamed(op.name, Canonical) \in Directories /\ UNCHANGED <<namespace, clock>>
    BY <1>9, <1>e DEF ReplaceCanonical
  <2>2. CASE pc' = "sync" /\ Change(Renamed(op.name, Canonical)) /\ UNCHANGED <<op, durable>>
    BY <2>1, <2>2, <1>a DEF TypeOK, Change, PCs
  <2>3. CASE CommitFails
    BY <2>1, <2>3, <1>9, <1>f DEF ReplaceCanonical
  <2>4. QED
    BY <1>9, <2>2, <2>3 DEF ReplaceCanonical
<1>10. CASE Unlink
  <2>1. CASE \E kept \in {durable, op.prior} : Returns(kept) /\ NoChange
    BY <2>1, <1>10, <1>a, <1>b, <1>d DEF Unlink, NoChange
  <2>2. CASE Change(Without(Canonical)) /\ pc' = "sync" /\ UNCHANGED <<op, durable>>
    BY <2>2, <1>10, <1>a, WithoutIs DEF Unlink, TypeOK, Change, PCs
  <2>3. QED
    BY <1>10, <2>1, <2>2 DEF Unlink, Missing, ReturnUnchanged, Return
<1>11. CASE RefreshAge
  <2>1. CASE \E kept \in {durable, op.prior} : Returns(kept) /\ NoChange
    BY <2>1, <1>11, <1>a, <1>b, <1>d DEF RefreshAge, NoChange
  <2>2. ASSUME dir[Canonical] # Absent, TouchCanonical
        PROVE  dir' \in Directories /\ disks' \subseteq Directories
    BY <2>2, <1>a, TouchedIs DEF TouchCanonical, Change
  <2>3. CASE dir[Canonical] # Absent /\ TouchCanonical /\ pc' = "detach" /\ UNCHANGED <<op, durable>>
    BY <2>2, <2>3, <1>11, <1>a DEF RefreshAge, TypeOK, PCs
  <2>4. CASE Returns(op.prior) /\ dir[Canonical] # Absent /\ TouchCanonical
    BY <2>2, <2>4, <1>11, <1>b, <1>d DEF RefreshAge
  <2>5. QED
    BY <1>11, <2>1, <2>3, <2>4 DEF RefreshAge, Missing, ReturnUnchanged, Return
<1>12. ASSUME NEW id \in Ids, Detach(id) PROVE TypeOK'
  <2> DEFINE to == <<op.kind, id>>
  <2>1. to \in Names /\ to # Canonical
    BY <1>0, <1>12 DEF Detach, StepInv, Names, Staging, Quarantined, Canonical
  <2> HIDE DEF to
  <2>2. CASE \E kept \in {durable, op.prior} : Returns(kept) /\ NoChange
    BY <2>2, <1>12, <1>a, <1>b, <1>d DEF Detach, NoChange
  <2>3. CASE dir[Canonical] # Absent /\ Change(Detached(to)) /\ op' = [op EXCEPT !.name = to] /\ pc' = "sync"
             /\ UNCHANGED durable
    <3>1. dir' \in Directories /\ disks' \subseteq Directories
      BY <2>1, <2>3, <1>a, <1>b, DetachedIs DEF Change
    <3>2. op' \in OpType
      BY <2>1, <2>3, <1>a DEF OpType
    <3>3. QED
      BY <2>3, <3>1, <3>2, <1>12, <1>a DEF Detach, TypeOK, PCs
  <2>4. QED
    BY <1>12, <2>2, <2>3 DEF Detach, Missing, ReturnUnchanged, Return, to
<1>13. CASE SyncDirectory
  <2>1. CASE \E kept \in {durable, {Target(op)}} : Returns(kept) /\ (SyncNamespace \/ NoChange)
    BY <2>1, <1>13, <1>a, <1>b, <1>d DEF SyncDirectory, SyncNamespace, NoChange
  <2>2. CASE SyncNamespace /\ pc' = "delete" /\ UNCHANGED <<op, durable>>
    BY <2>2, <1>13, <1>a DEF SyncDirectory, SyncNamespace, TypeOK, PCs
  <2>3. QED
    BY <1>13, <2>1, <2>2 DEF SyncDirectory, SyncFailed, ReturnDurable, ReturnUnsynchronized, Return
<1>14. CASE DeleteStaging
  <2>1. op.name \in Names
    BY <1>14, FreshNames DEF DeleteStaging, IInv, EffectInv
  <2>2. Returns({Target(op)}) /\ (NoChange \/ Change(Without(op.name))) /\ UNCHANGED <<namespace, clock>>
    BY <1>14 DEF DeleteStaging, DeleteCleared, ReturnDurable, Return
  <2>3. dir' \in Directories /\ disks' \subseteq Directories
    BY <2>1, <2>2, <1>a, WithoutIs DEF NoChange, Change
  <2>4. QED
    BY <2>2, <2>3, <1>b, <1>d
<1>15. CASE Enumerate
  <2>1. CASE \E todo \in SUBSET Names : op' = [op EXCEPT !.began = clock, !.todo = todo] /\ pc' = "sweep" /\ UNCHANGED durable
    <3>1. op' \in OpType
      BY <2>1, <1>a DEF OpType
    <3>2. QED
      BY <2>1, <3>1, <1>15, <1>a DEF Enumerate, TypeOK, PCs
  <2>2. CASE Returns(op.prior)
    BY <2>2, <1>15, <1>a, <1>b, <1>d DEF Enumerate
  <2>3. {n \in Names : dir[n] # Absent} \in SUBSET Names
    OBVIOUS
  <2>4. QED
    BY <1>15, <2>1, <2>2, <2>3 DEF Enumerate, ReturnUnchanged, Return
<1>16. ASSUME NEW n \in Names, Sweep(n) PROVE TypeOK'
  <2>1. /\ op' \in {[op EXCEPT !.todo = op.todo \ {n}], [op EXCEPT !.todo = op.todo \ {n}, !.failures = TRUE]}
        /\ UNCHANGED <<namespace, pc, clock, durable>>
    BY <1>16 DEF Sweep
  <2>2. op' \in OpType
    <3>1. CASE op' = [op EXCEPT !.todo = op.todo \ {n}]
      BY ZenonT(60), <3>1, <1>a DEF OpType
    <3>2. CASE op' = [op EXCEPT !.todo = op.todo \ {n}, !.failures = TRUE]
      BY ZenonT(60), <3>2, <1>a DEF OpType
    <3>3. QED
      BY <2>1, <3>1, <3>2
  <2>3. dir' \in Directories /\ disks' \subseteq Directories
    BY <1>16, <1>a, WithoutIs DEF Sweep, NoChange, Change
  <2>4. QED
    BY <2>1, <2>2, <2>3, <1>a DEF TypeOK
<1>17. CASE SweepDone
  BY <1>17, <1>a, <1>b, <1>d DEF SweepDone, ReturnUnchanged, Return
<1>18. CASE Kill
  <2>1. dir' \in Directories /\ disks' \subseteq Directories
    BY <1>18, <1>a, <1>e DEF Kill, NoChange, Change
  <2>2. QED
    BY <2>1, <1>18, <1>a DEF Kill, Stop, TypeOK, PCs
<1>19. CASE PowerLoss
  <2>1. dir' \in Directories /\ disks' \subseteq Directories
    BY <1>19, <1>a, TornIs DEF PowerLoss
  <2>2. QED
    BY <2>1, <1>19, <1>a DEF PowerLoss, Stop, TypeOK, PCs
<1>20. CASE Open
  BY <1>20, <1>a DEF Open, TypeOK, PCs
<1>21. CASE LoseNamespace
  BY <1>21, <1>a DEF LoseNamespace, TypeOK, Directories, Maybe
<1>22. CASE Tick \/ SetBack
  BY <1>22, <1>a DEF Tick, SetBack, TypeOK
<1>23. CASE UNCHANGED vars
  BY <1>23, <1>a DEF vars, TypeOK
<1>24. QED
  BY <1>1, <1>2, <1>3, <1>4, <1>6, <1>7, <1>8, <1>9, <1>10, <1>11, <1>12, <1>13, <1>14, <1>15, <1>16, <1>17,
     <1>18, <1>19, <1>20, <1>21, <1>22, <1>23 DEF Next, BeginSave, BeginOther

----------------------------------------------------------------------------
(* Which operation is at which step.                                       *)

Writes == {"save", "stream", "clear", "quarantine"}

\* An answer describes the operation and ends it.
LEMMA Returned ==
    ASSUME NEW status, NEW kept, Return(status, kept)
    PROVE  /\ op' = NoOp /\ pc' = "idle" /\ durable' = kept
           /\ result'.kind = op.kind /\ result'.status = status /\ result'.name = op.name
           /\ result'.value = op.value /\ result'.before = op.before
  BY DEF Return

\* What an operation starts with.
LEMMA Begun ==
    ASSUME IInv, NEW kind \in {"save", "stream", "clear", "quarantine", "cleanup"}, NEW v \in Maybe, Begin(kind, v)
    PROVE  /\ op'.kind = kind /\ op'.value = v /\ op'.name = NoName /\ op'.began = clock
           /\ op'.before = ValueAt(dir) /\ op'.prior = durable /\ op'.todo = {}
           /\ pc = "idle" /\ op = NoOp /\ result' = NoResult
           /\ pc' = FirstStep(kind)
           /\ durable' = IF kind = "cleanup" THEN durable ELSE durable \cup {Target(op')}
           /\ UNCHANGED <<namespace, dir, disks, clock>>
  BY DEF Begin, NoOp, IInv, StepInv

\* Every step keeps operation and step in agreement.
LEMMA StepInvStep == IInv /\ [Next]_vars => StepInv'
<1> SUFFICES ASSUME IInv, [Next]_vars PROVE StepInv'
  OBVIOUS
<1>0. StepInv
  BY DEF IInv
<1>b. ASSUME pc' \in {"idle", "down"}, op' = NoOp, pc' = "down" => result' = NoResult PROVE StepInv'
  BY <1>b, NoOpType DEF StepInv, SaveSteps
<1>c. ASSUME NEW status, NEW kept, Return(status, kept) PROVE StepInv'
  BY <1>b, <1>c, Returned
<1>1. ASSUME NEW kind \in {"save", "stream"}, NEW v \in Values, Begin(kind, v) PROVE StepInv'
  BY <1>1, Begun DEF StepInv, SaveSteps, FirstStep, Maybe
<1>2. ASSUME NEW kind \in {"clear", "quarantine", "cleanup"}, Begin(kind, Absent) PROVE StepInv'
  BY <1>2, Begun DEF StepInv, SaveSteps, FirstStep, Maybe
<1>3. CASE Read
  BY <1>0, <1>3 DEF Read, StepInv
<1>4. ASSUME NEW id \in Ids, CreateStaging(id) PROVE StepInv'
  <2>1. CASE op' = [op EXCEPT !.name = <<"save", id>>] /\ pc = "create" /\ pc' = "write" /\ UNCHANGED result
    <3>1. op'.kind = op.kind /\ op'.value = op.value
      BY <2>1 DEF IInv, TypeOK, OpType
    <3>2. QED
      BY <2>1, <3>1, <1>0 DEF StepInv, SaveSteps
  <2>2. QED
    BY <1>4, <2>1, <1>c DEF CreateStaging, ReturnUnchanged
<1>5. CASE WriteSection
  <2>1. CASE pc = "write" /\ pc' \in {"flush", "write"} /\ UNCHANGED <<op, result>>
    BY <2>1, <1>0 DEF StepInv, SaveSteps
  <2>2. QED
    BY <1>5, <2>1, <1>c DEF WriteSection, ReturnUnchanged
<1>6. CASE FlushStaging
  <2>1. CASE pc = "flush" /\ pc' = "move" /\ UNCHANGED <<op, result>>
    BY <2>1, <1>0 DEF StepInv, SaveSteps
  <2>2. QED
    BY <1>6, <2>1, <1>c DEF FlushStaging, ReturnUnchanged, ReturnUnsynchronized
<1>7. CASE MoveStaging
  <2>1. CASE pc = "move" /\ Windows /\ pc' \in {"replace", "sync"} /\ UNCHANGED <<op, result>>
    BY <2>1, <1>0 DEF StepInv, SaveSteps
  <2>2. QED
    BY <1>7, <2>1, <1>c DEF MoveStaging, ReturnUnsynchronized, CommitFails
<1>8. CASE ReplaceCanonical
  <2>1. CASE pc = "replace" /\ pc' = "sync" /\ UNCHANGED <<op, result>>
    BY <2>1, <1>0 DEF StepInv, SaveSteps
  <2>2. QED
    BY <1>8, <2>1, <1>c DEF ReplaceCanonical, ReturnUnsynchronized, CommitFails
<1>9. CASE Unlink
  <2>1. CASE pc = "unlink" /\ pc' = "sync" /\ UNCHANGED <<op, result>>
    BY <2>1, <1>0 DEF StepInv, SaveSteps
  <2>2. QED
    BY <1>9, <2>1, <1>c DEF Unlink, Missing, ReturnUnchanged
<1>10. CASE RefreshAge
  <2>1. CASE pc = "refresh" /\ pc' = "detach" /\ UNCHANGED <<op, result>>
    BY <2>1, <1>0 DEF StepInv, SaveSteps
  <2>2. QED
    BY <1>10, <2>1, <1>c DEF RefreshAge, Missing, ReturnUnchanged
<1>11. ASSUME NEW id \in Ids, Detach(id) PROVE StepInv'
  <2>1. CASE op' = [op EXCEPT !.name = <<op.kind, id>>] /\ pc = "detach" /\ pc' = "sync" /\ UNCHANGED result
    <3>1. op'.kind = op.kind /\ op'.value = op.value
      BY <2>1 DEF IInv, TypeOK, OpType
    <3>2. QED
      BY <2>1, <3>1, <1>0 DEF StepInv, SaveSteps
  <2>2. QED
    BY <1>11, <2>1, <1>c DEF Detach, Missing, ReturnUnchanged
<1>12. CASE SyncDirectory
  <2>1. CASE pc = "sync" /\ op.kind = "clear" /\ pc' = "delete" /\ UNCHANGED <<op, result>>
    BY <2>1, <1>0 DEF StepInv, SaveSteps
  <2>2. QED
    BY <1>12, <2>1, <1>c DEF SyncDirectory, SyncFailed, ReturnDurable, ReturnUnsynchronized
<1>13. CASE DeleteStaging
  BY <1>13, <1>c DEF DeleteStaging, DeleteCleared, ReturnDurable
<1>14. CASE Enumerate
  <2>1. CASE \E todo : op' = [op EXCEPT !.began = clock, !.todo = todo] /\ pc = "enumerate" /\ pc' = "sweep" /\ UNCHANGED result
    <3>1. op'.kind = op.kind /\ op'.value = op.value
      BY <2>1 DEF IInv, TypeOK, OpType
    <3>2. QED
      BY <2>1, <3>1, <1>0 DEF StepInv, SaveSteps
  <2>2. QED
    BY <1>14, <2>1, <1>c DEF Enumerate, ReturnUnchanged
<1>15. ASSUME NEW n \in Names, Sweep(n) PROVE StepInv'
  <2>1. /\ op' \in {[op EXCEPT !.todo = op.todo \ {n}], [op EXCEPT !.todo = op.todo \ {n}, !.failures = TRUE]}
        /\ pc = "sweep" /\ UNCHANGED <<pc, result>>
    BY <1>15 DEF Sweep
  <2>2. op'.kind = op.kind /\ op'.value = op.value
    BY <2>1 DEF IInv, TypeOK, OpType
  <2>3. QED
    BY <2>1, <2>2, <1>0 DEF StepInv, SaveSteps
<1>16. CASE SweepDone
  BY <1>16, <1>c DEF SweepDone, ReturnUnchanged
<1>17. CASE Kill \/ PowerLoss
  BY <1>17, <1>b DEF Kill, PowerLoss, Stop
<1>18. CASE Open
  BY <1>18, <1>0, <1>b DEF Open, StepInv
<1>19. CASE LoseNamespace
  BY <1>19, <1>0, <1>b DEF LoseNamespace, StepInv
<1>20. CASE Tick \/ SetBack \/ UNCHANGED vars
  BY <1>20, <1>0 DEF Tick, SetBack, vars, StepInv
<1>21. QED
  BY <1>1, <1>2, <1>3, <1>4, <1>5, <1>6, <1>7, <1>8, <1>9, <1>10, <1>11, <1>12, <1>13, <1>14, <1>15, <1>16,
     <1>17, <1>18, <1>19, <1>20 DEF Next, BeginSave, BeginOther

----------------------------------------------------------------------------
(* The staging file of a save.                                             *)

\* Where a save's staging file is.
LEMMA StagingName ==
    ASSUME IInv, pc \in {"write", "flush", "move", "replace"}
    PROVE  /\ op.name \in Names /\ op.name \in Staging /\ op.name # Canonical /\ op.name \notin Quarantined
           /\ dir[op.name] # Absent /\ dir[op.name] \in Files /\ dir[op.name].value = op.value
  BY NameFacts, FreshNames, PresentIsFile DEF IInv, StagingInv, TypeOK

StagingSteps == {"write", "flush", "move", "replace"}

\* Every step keeps the staging file of the save in progress.
LEMMA StagingStep == IInv /\ [Next]_vars => StagingInv'
<1> SUFFICES ASSUME IInv, [Next]_vars PROVE StagingInv'
  OBVIOUS
<1>0. TypeOK /\ StepInv /\ StagingInv
  BY DEF IInv
<1>a. dir \in Directories /\ op \in OpType /\ clock \in Nat
  BY <1>0 DEF TypeOK
<1>b. ASSUME pc' \notin StagingSteps PROVE StagingInv'
  BY <1>b DEF StagingInv, StagingSteps
<1>c. ASSUME NEW status, NEW kept, Return(status, kept) PROVE StagingInv'
  BY <1>b, <1>c, Returned DEF StagingSteps
<1>d. ASSUME UNCHANGED <<dir, op, pc>> PROVE StagingInv'
  BY <1>0, <1>d DEF StagingInv
<1>1. ASSUME NEW kind \in {"save", "stream", "clear", "quarantine", "cleanup"}, NEW v \in Maybe, Begin(kind, v)
      PROVE  StagingInv'
  BY <1>1, <1>b, Begun DEF FirstStep, StagingSteps
<1>2. ASSUME NEW id \in Ids, CreateStaging(id) PROVE StagingInv'
  <2> DEFINE n == <<"save", id>>
             f == [value |-> op.value, sections |-> 0, synced |-> FALSE, modified |-> clock, staged |-> op.began]
  <2>1. n \in {"save"} \X Ids /\ n \in Names /\ op.value \in Values
    BY <1>0, <1>2, NameFacts, FreshNames DEF CreateStaging, StepInv, SaveSteps
  <2>2. f \in Files /\ f.value = op.value /\ f.sections = 0
    BY <2>1, <1>a, NewFile DEF OpType
  <2>3. CASE Change([dir EXCEPT ![n] = f]) /\ op' = [op EXCEPT !.name = n] /\ pc' = "write"
    <3> HIDE DEF n, f
    <3>1. dir'[n] = f /\ op'.name = n /\ op'.value = op.value
      BY <2>1, <2>2, <2>3, <1>a, PutType DEF Change, OpType
    <3>2. QED
      BY <2>1, <2>2, <2>3, <3>1, AbsentAssumption DEF StagingInv, Sections
  <2>4. QED
    BY <1>2, <2>3, <1>c DEF CreateStaging, ReturnUnchanged
<1>3. CASE WriteSection
  <2>1. /\ op.name \in Names /\ dir[op.name] # Absent /\ dir[op.name] \in Files /\ dir[op.name].value = op.value
        /\ dir[op.name].sections < Sections /\ op.name \in {"save"} \X Ids
    BY <1>0, <1>3, StagingName DEF WriteSection, StagingInv
  <2> DEFINE d == [dir EXCEPT ![op.name].sections = @ + 1, ![op.name].modified = clock]
  <2>2. /\ d[op.name] \in Files /\ d[op.name].sections = dir[op.name].sections + 1
        /\ d[op.name] = [dir[op.name] EXCEPT !.sections = @ + 1, !.modified = clock]
    BY <2>1, <1>a, WrittenIs
  <2>3. d[op.name].value = op.value
    BY ZenonT(60), <2>1, <2>2 DEF Files
  <2> HIDE DEF d
  <2>4. CASE dir' = d /\ pc' = (IF dir'[op.name].sections = SectionsToWrite THEN "flush" ELSE "write") /\ UNCHANGED op
    <3>1. dir'[op.name].sections \in 0..Sections
      BY <2>2, <2>4 DEF Files
    <3>2. /\ pc' = "write" => dir'[op.name].sections < Sections
          /\ pc' = "flush" => dir'[op.name].sections = Sections
      BY <2>4, <3>1 DEF SectionsToWrite, Sections
    <3>3. dir'[op.name] # Absent /\ dir'[op.name].value = op.value /\ pc' \in {"write", "flush"} /\ op' = op
      BY <2>2, <2>3, <2>4, AbsentAssumption
    <3>4. QED
      BY <2>1, <3>2, <3>3 DEF StagingInv
  <2>5. QED
    BY <1>3, <2>4, <1>c DEF WriteSection, ReturnUnchanged, Change, d
<1>4. CASE FlushStaging
  <2>1. /\ op.name \in Names /\ dir[op.name] # Absent /\ dir[op.name] \in Files /\ dir[op.name].value = op.value
        /\ dir[op.name].sections = Sections /\ op.name \in {"save"} \X Ids
    BY <1>0, <1>4, StagingName DEF FlushStaging, StagingInv
  <2>2. CASE FlushFile(op.name) /\ pc' = "move" /\ UNCHANGED op
    <3>1. dir'[op.name] \in Files /\ dir'[op.name] = [dir[op.name] EXCEPT !.synced = TRUE]
      BY <2>1, <2>2, <1>a, FlushedIs DEF FlushFile
    <3>2. dir'[op.name].value = op.value /\ dir'[op.name].sections = Sections /\ dir'[op.name].synced
      BY <2>1, <3>1 DEF Files
    <3>3. QED
      BY <2>1, <2>2, <3>1, <3>2, AbsentAssumption DEF StagingInv
  <2>3. QED
    BY <1>4, <2>2, <1>c DEF FlushStaging, ReturnUnchanged, ReturnUnsynchronized
<1>5. CASE MoveStaging
  <2>1. CASE pc = "move" /\ pc' = "replace" /\ NoChange /\ UNCHANGED op
    BY <2>1, <1>0 DEF StagingInv, NoChange
  <2>2. CASE pc' = "sync"
    BY <2>2, <1>b DEF StagingSteps
  <2>3. QED
    BY <1>5, <2>1, <2>2, <1>c DEF MoveStaging, ReturnUnsynchronized, CommitFails
<1>6. CASE ReplaceCanonical \/ Unlink \/ RefreshAge \/ SyncDirectory \/ DeleteStaging
  BY <1>6, <1>b, <1>c
     DEF ReplaceCanonical, Unlink, RefreshAge, SyncDirectory, DeleteStaging, StagingSteps, CommitFails, Missing,
         ReturnUnchanged, ReturnUnsynchronized, ReturnDurable, SyncFailed, DeleteCleared
<1>7. ASSUME NEW id \in Ids, Detach(id) PROVE StagingInv'
  BY <1>7, <1>b, <1>c DEF Detach, Missing, ReturnUnchanged, StagingSteps
<1>8. CASE Enumerate \/ SweepDone \/ Kill \/ PowerLoss \/ Open \/ LoseNamespace
  BY <1>8, <1>b, <1>c
     DEF Enumerate, SweepDone, Kill, PowerLoss, Open, LoseNamespace, Stop, ReturnUnchanged, StagingSteps
<1>9. ASSUME NEW n \in Names, Sweep(n) PROVE StagingInv'
  BY <1>9, <1>b DEF Sweep, StagingSteps
<1>10. CASE Read \/ Tick \/ SetBack \/ UNCHANGED vars
  BY <1>10, <1>d DEF Read, Tick, SetBack, vars
<1>11. QED
  BY <1>1, <1>2, <1>3, <1>4, <1>5, <1>6, <1>7, <1>8, <1>9, <1>10 DEF Next, BeginSave, BeginOther, Maybe

----------------------------------------------------------------------------
(* What a step does to the blob and to what a power loss may leave of it.  *)

Recoverable(ds) == {ValueAt(d) : d \in ds}

KeepsBlob ==
    /\ dir' \in disks'
    /\ ValueAt(dir') = ValueAt(dir)
    /\ Recoverable(disks') = Recoverable(disks)
    /\ \A d \in disks' : Complete(d[Canonical])

SetsBlob(v) ==
    /\ dir' \in disks'
    /\ ValueAt(dir') = v
    /\ Recoverable(disks') \in {{v}, Recoverable(disks) \cup {v}}
    /\ \A d \in disks' : Complete(d[Canonical])

\* A change of another entry keeps the blob.
LEMMA ChangeKeeps ==
    ASSUME IInv, NEW d, Change(d), ValueAt(d) = ValueAt(dir), Complete(d[Canonical])
    PROVE  KeepsBlob
<1>1. dir \in disks /\ \A e \in disks : Complete(e[Canonical])
  BY DEF IInv, DiskInv
<1>2. QED
  BY <1>1 DEF KeepsBlob, Recoverable, Change

LEMMA ChangeSets ==
    ASSUME IInv, NEW d, Change(d), Complete(d[Canonical])
    PROVE  SetsBlob(ValueAt(d))
<1>1. \A e \in disks : Complete(e[Canonical])
  BY DEF IInv, DiskInv
<1>2. QED
  BY <1>1 DEF SetsBlob, Recoverable, Change

LEMMA UnchangedKeeps ==
    ASSUME IInv, UNCHANGED <<dir, disks>>
    PROVE  KeepsBlob
  BY DEF IInv, DiskInv, KeepsBlob

\* An entry other than the canonical one.
LEMMA DerivedChangeKeeps ==
    ASSUME IInv, NEW d, Change(d), d[Canonical] = dir[Canonical]
    PROVE  KeepsBlob
  BY ChangeKeeps DEF IInv, DiskInv, ValueAt

LEMMA WithoutKeeps ==
    ASSUME IInv, NEW n \in Names \ {Canonical}, Change(Without(n))
    PROVE  KeepsBlob
<1>1. Without(n)[Canonical] = dir[Canonical]
  BY NameFacts, WithoutIs DEF IInv, TypeOK
<1>2. QED
  BY <1>1, DerivedChangeKeeps

\* A directory without the blob.
LEMMA NoBlob ==
    ASSUME NEW d, d[Canonical] = Absent
    PROVE  ValueAt(d) = Absent /\ Complete(d[Canonical])
  BY DEF ValueAt, Complete

LEMMA DiscardKeeps ==
    ASSUME IInv, pc \in {"write", "flush", "move", "replace"}, Discard(op.name)
    PROVE  KeepsBlob
  BY StagingName, WithoutKeeps, UnchangedKeeps DEF Discard, NoChange

LEMMA FlushKeeps ==
    ASSUME IInv, pc \in {"write", "flush", "move", "replace"}, FlushFile(op.name)
    PROVE  KeepsBlob
<1> DEFINE n == op.name
           f == dir'[n]
           g(d) == IF d[n] = Absent THEN d ELSE [d EXCEPT ![n] = f]
<1>1. n \in Names /\ n # Canonical /\ dir[n] # Absent /\ Canonical \in Names
  BY StagingName, NameFacts
<1>2. dir \in Directories /\ disks \subseteq Directories /\ dir \in disks /\ \A d \in disks : Complete(d[Canonical])
  BY DEF IInv, TypeOK, DiskInv
<1>3. dir' = [dir EXCEPT ![n].synced = TRUE] /\ disks' = {g(d) : d \in disks}
  BY DEF FlushFile
<1>4. dir' \in Directories /\ f \in Files /\ f = [dir[n] EXCEPT !.synced = TRUE]
      /\ \A m \in Names \ {n} : dir'[m] = dir[m]
  BY <1>1, <1>2, <1>3, FlushedIs
<1>5. dir' = g(dir)
  BY <1>1, <1>2, <1>3, <1>4 DEF Directories
<1>6. \A d \in disks : g(d)[Canonical] = d[Canonical]
  <2> HIDE DEF n, f
  <2>1. \A d \in disks : [d EXCEPT ![n] = f][Canonical] = d[Canonical]
    BY <1>1, <1>2, <1>4, PutType
  <2>2. QED
    BY <2>1
<1> HIDE DEF g
<1>7. \A d \in disks : ValueAt(g(d)) = ValueAt(d)
  BY <1>6 DEF ValueAt
<1>8. Recoverable(disks') = Recoverable(disks)
  BY <1>3, <1>7 DEF Recoverable
<1>9. QED
  BY <1>2, <1>3, <1>5, <1>6, <1>7, <1>8 DEF KeepsBlob

\* The staging file takes the canonical name.
LEMMA RenameSets ==
    ASSUME IInv, pc \in {"move", "replace"}
    PROVE  LET d == Renamed(op.name, Canonical) IN
           d \in Directories /\ ValueAt(d) = op.value /\ Complete(d[Canonical]) /\ d[Canonical] # Absent
<1>1. /\ op.name \in Names /\ op.name # Canonical /\ dir[op.name] # Absent /\ Canonical \in Names
      /\ dir[op.name].value = op.value
  BY StagingName, NameFacts
<1>2. dir[op.name].sections = Sections /\ dir[op.name].synced /\ dir \in Directories
  BY DEF IInv, TypeOK, StagingInv
<1>3. Renamed(op.name, Canonical)[Canonical] = dir[op.name] /\ Renamed(op.name, Canonical) \in Directories
  BY <1>1, <1>2, RenamedIs
<1>4. QED
  BY <1>1, <1>2, <1>3 DEF ValueAt, Complete

----------------------------------------------------------------------------
(* Each operation's steps, by what they do to the blob: the operation goes *)
(* on, or it returns with a status and the values kept as recoverable.     *)

Continues ==
    /\ op'.kind = op.kind /\ op'.value = op.value /\ op'.prior = op.prior /\ op'.before = op.before
    /\ UNCHANGED <<namespace, result, durable>>

Returns(statuses, kept) == UNCHANGED namespace /\ \E status \in statuses : Return(status, kept)

\* The operation found no blob, or failed before it did anything.
Declines(status) ==
    \/ NoChange /\ dir[Canonical] = Absent /\ namespace /\ Returns({status}, durable)
    \/ Returns({"Io", "IdentifierGeneration", "QuarantineCommit"}, op.prior)

LEMMA CreateDoes ==
    ASSUME IInv, NEW id \in Ids, CreateStaging(id)
    PROVE  /\ KeepsBlob /\ pc = "create"
           /\ (Continues /\ pc' = "write") \/ Returns({"Io", "BlobTooLarge", "IdentifierGeneration"}, op.prior)
<1>1. ASSUME Change([dir EXCEPT ![<<"save", id>>] =
                [value |-> op.value, sections |-> 0, synced |-> FALSE, modified |-> clock, staged |-> op.began]])
      PROVE  KeepsBlob
  <2>1. <<"save", id>> \in Names /\ <<"save", id>> # Canonical /\ Canonical \in Names /\ dir \in Directories
    BY NameFacts, FreshNames DEF IInv, TypeOK
  <2>2. QED
    BY <1>1, <2>1, DerivedChangeKeeps DEF Directories
<1>2. KeepsBlob
  BY <1>1, UnchangedKeeps DEF CreateStaging, NoChange
<1>3. QED
  BY <1>2 DEF CreateStaging, CreateErrors, ReturnUnchanged, Returns, Continues, IInv, TypeOK, OpType

LEMMA WriteDoes ==
    ASSUME IInv, WriteSection
    PROVE  /\ KeepsBlob /\ pc = "write"
           /\ (Continues /\ pc' \in {"write", "flush"}) \/ Returns({"Io"}, op.prior)
<1>1. op.name \in Names /\ op.name # Canonical /\ Canonical \in Names /\ dir \in Directories /\ clock \in Nat
      /\ dir[op.name] # Absent /\ dir[op.name].sections < Sections
  BY NameFacts, StagingName DEF WriteSection, IInv, TypeOK, StagingInv
<1>2. [dir EXCEPT ![op.name].sections = @ + 1, ![op.name].modified = clock][Canonical] = dir[Canonical]
  BY <1>1, WrittenIs
<1>3. KeepsBlob
  BY <1>2, DerivedChangeKeeps, DiscardKeeps DEF WriteSection
<1>4. QED
  BY <1>3 DEF WriteSection, ReturnUnchanged, Returns, Continues

LEMMA FlushDoes ==
    ASSUME IInv, FlushStaging
    PROVE  /\ KeepsBlob /\ pc = "flush"
           /\ \/ Continues /\ pc' = "move"
              \/ Returns({"Io"}, op.prior)
              \/ Returns({"AtomicCommit"}, durable)
<1>1. KeepsBlob
  BY FlushKeeps, DiscardKeeps DEF FlushStaging
<1>2. QED
  BY <1>1 DEF FlushStaging, ReturnUnchanged, ReturnUnsynchronized, Returns, Continues

LEMMA CommitFailsDoes ==
    ASSUME IInv, pc \in {"move", "replace"}, CommitFails, UNCHANGED namespace
    PROVE  (KeepsBlob \/ SetsBlob(op.value)) /\ Returns({"AtomicCommit"}, durable)
<1>1. KeepsBlob \/ SetsBlob(op.value)
  BY StagingName, UnchangedKeeps, WithoutKeeps, RenameSets, ChangeSets DEF CommitFails, NoChange
<1>2. QED
  BY <1>1 DEF CommitFails, ReturnUnsynchronized, Returns

LEMMA MoveDoes ==
    ASSUME IInv, MoveStaging
    PROVE  /\ pc = "move"
           /\ \/ Continues /\ pc' = "replace" /\ KeepsBlob
              \/ Continues /\ pc' = "sync" /\ SetsBlob(op.value)
              \/ Returns({"Ok"}, durable) /\ SetsBlob(op.value)
              \/ Returns({"AtomicCommit"}, durable) /\ (KeepsBlob \/ SetsBlob(op.value))
<1>1. pc = "move" /\ UNCHANGED namespace
  BY DEF MoveStaging
<1>2. CASE Windows /\ dir[Canonical] # Absent /\ pc' = "replace" /\ NoChange /\ UNCHANGED <<op, result, durable>>
  BY <1>1, <1>2, UnchangedKeeps DEF NoChange, Continues
<1>3. CASE Windows /\ pc' = "sync" /\ Change(Renamed(op.name, Canonical)) /\ UNCHANGED <<op, result, durable>>
  BY <1>1, <1>3, RenameSets, ChangeSets DEF Continues
<1>4. CASE /\ ReturnUnsynchronized("Ok")
           /\ dir' = Renamed(op.name, Canonical)
           /\ disks' \in {{dir'}, disks \cup {dir'}}
  <2>1. ValueAt(dir') = op.value /\ Complete(dir'[Canonical])
    BY <1>1, <1>4, RenameSets
  <2>2. CASE disks' = disks \cup {dir'}
    BY <1>1, <1>4, <2>1, <2>2, ChangeSets DEF Change, ReturnUnsynchronized, Returns
  <2>3. CASE disks' = {dir'}
    <3>1. Recoverable(disks') = {op.value}
      BY <2>1, <2>3 DEF Recoverable
    <3>2. SetsBlob(op.value)
      BY <2>1, <2>3, <3>1 DEF SetsBlob
    <3>3. QED
      BY <1>1, <1>4, <3>2 DEF ReturnUnsynchronized, Returns
  <2>4. QED
    BY <1>4, <2>2, <2>3
<1>5. CASE CommitFails
  BY <1>1, <1>5, CommitFailsDoes
<1>6. QED
  BY <1>2, <1>3, <1>4, <1>5 DEF MoveStaging

LEMMA ReplaceDoes ==
    ASSUME IInv, ReplaceCanonical
    PROVE  /\ pc = "replace"
           /\ \/ Continues /\ pc' = "sync" /\ SetsBlob(op.value)
              \/ Returns({"AtomicCommit"}, durable) /\ (KeepsBlob \/ SetsBlob(op.value))
  BY RenameSets, ChangeSets, CommitFailsDoes DEF ReplaceCanonical, Continues

LEMMA UnlinkDoes ==
    ASSUME IInv, Unlink
    PROVE  /\ pc = "unlink"
           /\ \/ KeepsBlob /\ Declines("Ok")
              \/ Continues /\ pc' = "sync" /\ SetsBlob(Absent) /\ namespace
<1>1. CASE dir[Canonical] = Absent /\ Missing("Ok") /\ NoChange
  BY <1>1, UnchangedKeeps DEF Unlink, NoChange, Missing, NamespaceAvailable, ReturnUnchanged, Returns, Declines
<1>2. CASE dir[Canonical] # Absent /\ Change(Without(Canonical)) /\ pc' = "sync" /\ UNCHANGED <<op, result, durable>>
  <2>1. Without(Canonical)[Canonical] = Absent
    BY NameFacts, WithoutIs DEF IInv, TypeOK
  <2>2. SetsBlob(Absent)
    BY <1>2, <2>1, NoBlob, ChangeSets
  <2>3. namespace
    BY <1>2, NameFacts DEF IInv, DiskInv
  <2>4. QED
    BY <1>2, <2>2, <2>3 DEF Unlink, Continues
<1>3. CASE ReturnUnchanged("Io") /\ NoChange
  BY <1>3, UnchangedKeeps DEF Unlink, NoChange, ReturnUnchanged, Returns, Declines
<1>4. QED
  BY <1>1, <1>2, <1>3 DEF Unlink

LEMMA TouchKeeps ==
    ASSUME IInv, dir[Canonical] # Absent, TouchCanonical
    PROVE  KeepsBlob
<1> DEFINE d == [dir EXCEPT ![Canonical].modified = clock]
<1>1. dir \in Directories /\ clock \in Nat /\ dir[Canonical] \in Files /\ Complete(dir[Canonical])
  BY NameFacts, PresentIsFile DEF IInv, TypeOK, DiskInv
<1>2. d[Canonical] \in Files /\ d[Canonical] = [dir[Canonical] EXCEPT !.modified = clock]
  BY <1>1, TouchedIs
<1>3. /\ d[Canonical].value = dir[Canonical].value
      /\ d[Canonical].sections = dir[Canonical].sections
      /\ d[Canonical].synced = dir[Canonical].synced
  BY <1>1, <1>2 DEF Files
<1>4. Change(d)
  BY DEF TouchCanonical
<1> HIDE DEF d
<1>5. ValueAt(d) = ValueAt(dir) /\ Complete(d[Canonical])
  BY <1>1, <1>2, <1>3, AbsentAssumption DEF ValueAt, Complete
<1>6. QED
  BY <1>4, <1>5, ChangeKeeps

LEMMA RefreshDoes ==
    ASSUME IInv, RefreshAge
    PROVE  /\ KeepsBlob /\ pc = "refresh"
           /\ \/ Declines("Ok")
              \/ Continues /\ pc' = "detach" /\ UNCHANGED op
<1>1. KeepsBlob
  BY UnchangedKeeps, TouchKeeps DEF RefreshAge, NoChange
<1>2. QED
  BY <1>1 DEF RefreshAge, Missing, NamespaceAvailable, ReturnUnchanged, Returns, Declines, Continues

LEMMA DetachTo ==
    ASSUME IInv, NEW id \in Ids, pc = "detach"
    PROVE  LET to == <<op.kind, id>> IN
           /\ to \in Names /\ to # Canonical
           /\ op.kind = "quarantine" => to \in Quarantined
           /\ op.kind = "clear" => to \in {"clear"} \X Ids /\ to \in Staging
           /\ op.kind \in {"clear", "quarantine"}
  BY NameFacts, FreshNames DEF IInv, StepInv

LEMMA DetachDoes ==
    ASSUME IInv, NEW id \in Ids, Detach(id)
    PROVE  /\ pc = "detach"
           /\ \/ KeepsBlob /\ op.kind = "clear" /\ Declines("Ok")
              \/ KeepsBlob /\ op.kind = "quarantine" /\ Declines("QuarantineSourceMissing")
              \/ /\ Continues /\ pc' = "sync" /\ SetsBlob(Absent) /\ namespace
                 /\ op'.name = <<op.kind, id>>
                 /\ dir[Canonical] # Absent
                 /\ dir'[<<op.kind, id>>] # Absent
                 /\ dir'[<<op.kind, id>>].value = dir[Canonical].value
<1> DEFINE to == <<op.kind, id>>
<1>1. pc = "detach" /\ UNCHANGED namespace
  BY DEF Detach
<1>2. op.kind \in {"clear", "quarantine"}
  BY <1>1, DetachTo
<1>3. CASE /\ dir[Canonical] = Absent
           /\ IF op.kind = "clear" THEN Missing("Ok") ELSE Missing("QuarantineSourceMissing")
           /\ NoChange
  BY <1>1, <1>2, <1>3, UnchangedKeeps
     DEF NoChange, Missing, NamespaceAvailable, ReturnUnchanged, Returns, Declines
<1>4. CASE dir[Canonical] # Absent /\ Change(Detached(to)) /\ op' = [op EXCEPT !.name = to] /\ pc' = "sync"
           /\ UNCHANGED <<result, durable>>
  <2>1. to \in Names /\ to # Canonical /\ dir \in Directories /\ op.began \in Nat /\ op \in OpType
    BY <1>1, DetachTo DEF IInv, TypeOK, OpType
  <2>2. dir[Canonical] \in Files /\ namespace
    BY <1>4, <2>1, NameFacts, PresentIsFile DEF IInv, DiskInv
  <2>3. /\ Detached(to)[Canonical] = Absent
        /\ Detached(to)[to] = [dir[Canonical] EXCEPT !.staged = op.began]
        /\ Detached(to)[to] \in Files
    BY <1>4, <2>1, DetachedIs
  <2> HIDE DEF to
  <2>4. Detached(to)[to].value = dir[Canonical].value
    BY <2>2, <2>3 DEF Files
  <2>5. SetsBlob(Absent)
    BY <1>4, <2>3, NoBlob, ChangeSets
  <2>6. dir'[to] # Absent /\ dir'[to].value = dir[Canonical].value
    BY <1>4, <2>3, <2>4, AbsentAssumption DEF Change
  <2>7. Continues /\ op'.name = to
    BY <1>1, <1>4, <2>1 DEF Continues, OpType
  <2>8. QED
    BY <1>1, <1>4, <2>2, <2>5, <2>6, <2>7 DEF to
<1>5. CASE /\ \/ ReturnUnchanged("IdentifierGeneration")
              \/ ReturnUnchanged(IF op.kind = "quarantine" THEN "QuarantineCommit" ELSE "Io")
           /\ NoChange
  BY <1>1, <1>2, <1>5, UnchangedKeeps DEF NoChange, ReturnUnchanged, Returns, Declines
<1>6. QED
  BY <1>3, <1>4, <1>5 DEF Detach

LEMMA SyncDoes ==
    ASSUME IInv, SyncDirectory
    PROVE  /\ pc = "sync" /\ dir' = dir
           /\ \/ Continues /\ UNCHANGED op /\ pc' = "delete" /\ Windows /\ op.kind = "clear" /\ disks' = {dir}
              \/ Returns({"Ok"}, {Target(op)}) /\ disks' = {dir}
              \/ /\ Returns({"SyncNamespaceDirectory", "OpenNamespaceDirectory"}, durable) /\ op.kind # "quarantine"
                 /\ disks' = disks
              \/ Returns({"QuarantineNamespaceSync"}, durable) /\ op.kind = "quarantine" /\ disks' = disks
  BY DEF SyncDirectory, SyncNamespace, SyncFailed, SyncErrors, NoChange, ReturnDurable, ReturnUnsynchronized, Returns, Continues

LEMMA DeleteDoes ==
    ASSUME IInv, DeleteStaging
    PROVE  KeepsBlob /\ pc = "delete" /\ op.kind = "clear" /\ Returns({"Ok", "RemoveTemporaryFile"}, {Target(op)})
<1>1. pc = "delete" /\ op.name \in Names \ {Canonical} /\ op.kind = "clear"
  BY NameFacts, FreshNames DEF DeleteStaging, IInv, StepInv, EffectInv
<1>2. KeepsBlob
  BY <1>1, UnchangedKeeps, WithoutKeeps DEF DeleteStaging, DeleteCleared, NoChange
<1>3. QED
  BY <1>1, <1>2 DEF DeleteStaging, DeleteCleared, ReturnDurable, Returns

LEMMA EnumerateDoes ==
    ASSUME IInv, Enumerate
    PROVE  /\ KeepsBlob /\ pc = "enumerate"
           /\ \/ Continues /\ pc' = "sweep"
              \/ Returns({"Io", "CleanupUnsupported"}, op.prior)
<1>1. KeepsBlob
  BY UnchangedKeeps DEF Enumerate
<1>2. QED
  BY <1>1 DEF Enumerate, ReturnUnchanged, Returns, Continues, IInv, TypeOK, OpType

LEMMA SweepDoes ==
    ASSUME IInv, NEW n \in Names, Sweep(n)
    PROVE  KeepsBlob /\ pc = "sweep" /\ Continues /\ pc' = "sweep"
<1>1. KeepsBlob
  BY UnchangedKeeps, WithoutKeeps, NameFacts DEF Sweep, NoChange, IsOwnedTemporaryFilename
<1>2. op'.kind = op.kind /\ op'.value = op.value /\ op'.prior = op.prior /\ op'.before = op.before
  BY DEF Sweep, IInv, TypeOK, OpType
<1>3. QED
  BY <1>1, <1>2 DEF Sweep, Continues

LEMMA SweepDoneDoes ==
    ASSUME IInv, SweepDone
    PROVE  KeepsBlob /\ pc = "sweep" /\ Returns({"Ok", "Failures"}, op.prior)
  BY UnchangedKeeps DEF SweepDone, ReturnUnchanged, Returns

LEMMA KillDoes ==
    ASSUME IInv, Kill
    PROVE  KeepsBlob /\ Stop /\ UNCHANGED <<namespace, durable>>
<1>1. KeepsBlob
  BY UnchangedKeeps, WithoutKeeps, StagingName DEF Kill, NoChange
<1>2. QED
  BY <1>1 DEF Kill

\* A power loss leaves the blob of one of the possible directories.
LEMMA PowerLossDoes ==
    ASSUME IInv, PowerLoss
    PROVE  /\ Stop /\ UNCHANGED <<namespace, durable>>
           /\ dir' \in disks' /\ disks' = {dir'}
           /\ ValueAt(dir') \in Recoverable(disks)
           /\ Recoverable(disks') = {ValueAt(dir')}
           /\ Complete(dir'[Canonical])
           /\ \E d \in disks, cut \in 0..Sections : dir' = Torn(d, cut)
<1>1. PICK d \in disks, cut \in 0..Sections : dir' = Torn(d, cut)
  BY DEF PowerLoss
<1>2. d \in Directories /\ Complete(d[Canonical]) /\ Canonical \in Names
  BY NameFacts DEF IInv, TypeOK, DiskInv
<1>3. dir'[Canonical] = d[Canonical]
  BY <1>1, <1>2, TornIs DEF Complete
<1>4. ValueAt(dir') = ValueAt(d) /\ Complete(dir'[Canonical])
  BY <1>2, <1>3 DEF ValueAt
<1>5. disks' = {dir'} /\ Stop /\ UNCHANGED <<namespace, durable>>
  BY DEF PowerLoss
<1>6. QED
  BY <1>1, <1>4, <1>5 DEF Recoverable

----------------------------------------------------------------------------
(* What may be on the disk, and what an answer says of it.                 *)

\* A namespace that is gone has no files.
LEMMA NamespaceStep ==
    IInv /\ [Next]_vars => (~namespace' => \A d \in disks', n \in Names : d[n] = Absent)
<1> SUFFICES ASSUME IInv, [Next]_vars, ~namespace'
             PROVE  \A d \in disks', n \in Names : d[n] = Absent
  OBVIOUS
<1> DEFINE Empty(d) == \A n \in Names : d[n] = Absent
<1>0. dir \in Directories /\ disks \subseteq Directories /\ dir \in disks
  BY DEF IInv, TypeOK, DiskInv
<1>a. ~namespace => \A d \in disks : Empty(d)
  BY DEF IInv, DiskInv
<1>b. ASSUME NoChange, ~namespace PROVE \A d \in disks' : Empty(d)
  BY <1>a, <1>b DEF NoChange
<1>c. ASSUME NEW n \in Names, Change(Without(n)), ~namespace PROVE \A d \in disks' : Empty(d)
  <2>1. Empty(Without(n))
    BY <1>0, <1>a, <1>c, WithoutIs
  <2>2. QED
    BY <2>1, <1>a, <1>c DEF Change
<1>d. ~namespace => dir[Canonical] = Absent /\ pc \notin {"write", "flush", "move", "replace", "sync", "delete"}
  <2>1. ~namespace => dir[Canonical] = Absent
    BY <1>0, <1>a, NameFacts
  <2>2. ~namespace => pc \notin {"write", "flush", "move", "replace"}
    BY <1>0, <1>a, StagingName
  <2>3. ~namespace => pc \notin {"sync", "delete"}
    BY DEF IInv, EffectInv
  <2>4. QED
    BY <2>1, <2>2, <2>3
<1>1. ASSUME NEW kind, NEW v, Begin(kind, v) PROVE \A d \in disks' : Empty(d)
  BY <1>1, <1>a DEF Begin
<1>2. ASSUME NEW id \in Ids, CreateStaging(id) PROVE \A d \in disks' : Empty(d)
  <2>1. ~namespace
    BY <1>2 DEF CreateStaging
  <2>2. NoChange
    BY <1>2, <2>1 DEF CreateStaging
  <2>3. QED
    BY <2>1, <2>2, <1>b
<1>3. ASSUME WriteSection \/ FlushStaging \/ MoveStaging \/ ReplaceCanonical \/ SyncDirectory \/ DeleteStaging PROVE FALSE
  BY <1>3, <1>d DEF WriteSection, FlushStaging, MoveStaging, ReplaceCanonical, SyncDirectory, DeleteStaging
<1>4. CASE Unlink \/ RefreshAge
  BY <1>4, <1>b, <1>d DEF Unlink, RefreshAge
<1>5. ASSUME NEW id \in Ids, Detach(id) PROVE \A d \in disks' : Empty(d)
  BY <1>5, <1>b, <1>d DEF Detach
<1>6. ASSUME NEW n \in Names, Sweep(n) PROVE \A d \in disks' : Empty(d)
  BY <1>6, <1>b, <1>c DEF Sweep
<1>7. CASE Kill
  BY <1>7, <1>b, <1>d DEF Kill
<1>8. CASE PowerLoss
  <2>1. PICK d \in disks, cut \in 0..Sections : dir' = Torn(d, cut)
    BY <1>8 DEF PowerLoss
  <2>2. Empty(dir')
    BY <2>1, <1>0, <1>8, <1>a, TornIs DEF PowerLoss
  <2>3. QED
    BY <2>2, <1>8 DEF PowerLoss
<1>9. CASE Read \/ Enumerate \/ SweepDone \/ Tick \/ SetBack \/ UNCHANGED vars
  BY <1>9, <1>a DEF Read, Enumerate, SweepDone, Tick, SetBack, vars
<1>10. CASE LoseNamespace
  BY <1>10 DEF LoseNamespace
<1>11. ~Open
  BY DEF Open
<1>12. \A d \in disks' : Empty(d)
  BY <1>1, <1>2, <1>3, <1>4, <1>5, <1>6, <1>7, <1>8, <1>9, <1>10, <1>11 DEF Next, BeginSave, BeginOther
<1>13. QED
  BY <1>12

\* Every step keeps complete files at the canonical path.
LEMMA DiskStep == IInv /\ [Next]_vars => DiskInv'
<1> SUFFICES ASSUME IInv, [Next]_vars PROVE DiskInv'
  OBVIOUS
<1> DEFINE Goal == dir' \in disks' /\ \A d \in disks' : Complete(d[Canonical])
<1>0. dir \in disks /\ \A d \in disks : Complete(d[Canonical])
  BY DEF IInv, DiskInv
<1>a. ASSUME NEW v, KeepsBlob \/ SetsBlob(v) PROVE Goal
  BY <1>a DEF KeepsBlob, SetsBlob
<1>1. ASSUME NEW kind, NEW v, Begin(kind, v) PROVE Goal
  BY <1>1, <1>0 DEF Begin
<1>2. ASSUME NEW id \in Ids, CreateStaging(id) \/ Detach(id) PROVE Goal
  BY <1>2, <1>a, CreateDoes, DetachDoes
<1>3. ASSUME WriteSection \/ FlushStaging \/ MoveStaging \/ ReplaceCanonical PROVE Goal
  BY <1>3, <1>a, WriteDoes, FlushDoes, MoveDoes, ReplaceDoes
<1>4. ASSUME Unlink \/ RefreshAge \/ DeleteStaging PROVE Goal
  BY <1>4, <1>a, UnlinkDoes, RefreshDoes, DeleteDoes
<1>5. ASSUME SyncDirectory PROVE Goal
  BY <1>5, <1>0, SyncDoes
<1>6. ASSUME Read \/ Enumerate \/ SweepDone \/ Tick \/ SetBack \/ Open \/ UNCHANGED vars PROVE Goal
  BY <1>6, <1>0 DEF Read, Enumerate, SweepDone, Tick, SetBack, Open, vars
<1>7. ASSUME NEW n \in Names, Sweep(n) PROVE Goal
  BY <1>7, <1>a, SweepDoes
<1>8. ASSUME Kill PROVE Goal
  BY <1>8, <1>a, KillDoes
<1>9. ASSUME PowerLoss PROVE Goal
  BY <1>9, PowerLossDoes
<1>10. ASSUME LoseNamespace PROVE Goal
  BY <1>10, NameFacts DEF LoseNamespace, Complete
<1>11. Goal
  BY <1>1, <1>2, <1>3, <1>4, <1>5, <1>6, <1>7, <1>8, <1>9, <1>10 DEF Next, BeginSave, BeginOther
<1>12. QED
  BY <1>11, NamespaceStep DEF DiskInv

\* The register view of EffectInv.
LEMMA EffectFacts ==
    ASSUME IInv
    PROVE  /\ Recoverable(disks) \subseteq durable
           /\ ValueAt(dir) \in Recoverable(disks)
           /\ pc \notin {"idle", "down"} => op.prior \subseteq durable
           /\ pc \in Pending => Recoverable(disks) \subseteq op.prior
           /\ op.kind \in Writes => Target(op) \in durable
           /\ pc \in {"sync", "delete"} => ValueAt(dir) = Target(op)
  BY DEF IInv, DiskInv, EffectInv, Recoverable, Writes

\* A step that returns.
LEMMA ReturnEffect ==
    ASSUME NEW statuses, NEW kept, Returns(statuses, kept), Recoverable(disks') \subseteq kept
    PROVE  EffectInv'
<1>1. op' = NoOp /\ pc' = "idle" /\ durable' = kept
  BY Returned DEF Returns
<1>2. op'.kind = "none"
  BY <1>1, NoOpType
<1>3. \A d \in disks' : ValueAt(d) \in durable'
  BY <1>1 DEF Recoverable
<1>4. QED
  BY <1>1, <1>2, <1>3 DEF EffectInv, Pending, SaveSteps

\* A step that goes on before the effect.
LEMMA PendingEffect ==
    ASSUME IInv, Continues, KeepsBlob, pc \in Pending, pc' \in Pending,
           pc' \in {"refresh", "detach"} => pc = "refresh"
    PROVE  EffectInv'
<1>1. Target(op') = Target(op)
  BY DEF Continues, Target
<1>2. \A d \in disks' : ValueAt(d) \in durable'
  BY EffectFacts DEF Continues, KeepsBlob, Recoverable
<1>3. \A d \in disks' : ValueAt(d) \in op'.prior
  BY EffectFacts DEF Continues, KeepsBlob, Recoverable
<1>4. op'.prior \subseteq durable' /\ (op'.kind \in Writes => Target(op') \in durable')
  BY <1>1, EffectFacts DEF Continues, Pending, SaveSteps
<1>5. pc' \in {"refresh", "detach"} => op'.before = ValueAt(dir')
  BY DEF IInv, EffectInv, Continues, KeepsBlob
<1>6. pc' \notin {"sync", "delete", "idle", "down"}
  BY DEF Pending, SaveSteps
<1>7. QED
  BY <1>2, <1>3, <1>4, <1>5, <1>6 DEF EffectInv, Writes

\* The step that has the effect, when a synchronization follows.
LEMMA HappenEffect ==
    ASSUME IInv, Continues, SetsBlob(Target(op)), pc \in Pending, pc' = "sync", namespace, op.kind \in Writes,
           op.kind = "quarantine" =>
               op'.name \in Quarantined /\ dir'[op'.name] # Absent /\ dir'[op'.name].value = op'.before,
           op.kind = "clear" /\ Windows => op'.name \in {"clear"} \X Ids
    PROVE  EffectInv'
<1>1. Target(op') = Target(op)
  BY DEF Continues, Target
<1>2. Target(op) \in durable /\ op.prior \subseteq durable
  BY EffectFacts DEF Pending, SaveSteps
<1>3. \A d \in disks' : ValueAt(d) \in durable'
  BY <1>2, EffectFacts DEF Continues, SetsBlob, Recoverable
<1>4. pc' \notin Pending /\ pc' # "delete"
  BY DEF Pending, SaveSteps
<1>5. QED
  BY <1>1, <1>2, <1>3, <1>4 DEF EffectInv, Continues, SetsBlob

\* The answers before the effect, and with it.
LEMMA DeclineEffect ==
    ASSUME IInv, KeepsBlob, pc \in Pending, NEW status, Declines(status)
    PROVE  EffectInv'
  BY EffectFacts, ReturnEffect DEF KeepsBlob, Declines

LEMMA UncertainEffect ==
    ASSUME IInv, KeepsBlob \/ SetsBlob(op.value), op.kind \in {"save", "stream"}, NEW statuses, Returns(statuses, durable)
    PROVE  EffectInv'
<1>1. op.value \in durable
  BY EffectFacts DEF Target, Writes
<1>2. Recoverable(disks') \subseteq durable
  BY <1>1, EffectFacts DEF KeepsBlob, SetsBlob
<1>3. QED
  BY <1>2, ReturnEffect

\* Every step keeps the blob within what its answer will say.
LEMMA EffectStep == IInv /\ [Next]_vars => EffectInv'
<1> SUFFICES ASSUME IInv, [Next]_vars PROVE EffectInv'
  OBVIOUS
<1>0. StepInv /\ EffectInv
  BY DEF IInv
<1>1. ASSUME NEW kind \in {"save", "stream", "clear", "quarantine", "cleanup"}, NEW v \in Maybe, Begin(kind, v)
      PROVE  EffectInv'
  <2>1. /\ op'.kind = kind /\ op'.prior = durable /\ op'.before = ValueAt(dir) /\ pc' = FirstStep(kind)
        /\ durable' = IF kind = "cleanup" THEN durable ELSE durable \cup {Target(op')}
        /\ dir' = dir /\ disks' = disks
    BY <1>1, Begun
  <2>2. pc' \in Pending
    BY <2>1 DEF FirstStep, Pending, SaveSteps
  <2>3. pc' \notin {"sync", "delete"}
    BY <2>2 DEF Pending, SaveSteps
  <2>4. QED
    BY <2>1, <2>2, <2>3, <1>0 DEF EffectInv
<1>2. ASSUME NEW id \in Ids, CreateStaging(id) PROVE EffectInv'
  BY <1>2, CreateDoes, PendingEffect, ReturnEffect, EffectFacts DEF Pending, SaveSteps, KeepsBlob
<1>3. CASE WriteSection
  BY <1>3, WriteDoes, PendingEffect, ReturnEffect, EffectFacts DEF Pending, SaveSteps, KeepsBlob
<1>4. CASE FlushStaging
  BY <1>4, FlushDoes, PendingEffect, ReturnEffect, EffectFacts DEF Pending, SaveSteps, KeepsBlob
<1>5. ASSUME pc \in {"move", "replace"} 
      PROVE  op.kind \in {"save", "stream"} /\ Target(op) = op.value /\ namespace /\ pc \in Pending /\ op.kind \in Writes
  <2>1. op.kind \in {"save", "stream"}
    BY <1>0, <1>5 DEF StepInv, SaveSteps
  <2>2. dir[op.name] # Absent /\ op.name \in Names
    BY <1>5, StagingName
  <2>3. namespace
    BY <2>2 DEF IInv, DiskInv
  <2>4. QED
    BY <2>1, <2>3, <1>5 DEF Target, Pending, SaveSteps, Writes
<1>6. CASE MoveStaging
  BY <1>5, <1>6, MoveDoes, PendingEffect, HappenEffect, UncertainEffect DEF Pending, SaveSteps
<1>7. CASE ReplaceCanonical
  BY <1>5, <1>7, ReplaceDoes, HappenEffect, UncertainEffect
<1>8. CASE Unlink
  <2>1. op.kind = "clear" /\ ~Windows /\ pc \in Pending /\ Target(op) = Absent /\ op.kind \in Writes
    BY <1>0, <1>8 DEF Unlink, StepInv, Pending, Target, Writes
  <2>2. QED
    BY <2>1, <1>8, UnlinkDoes, DeclineEffect, HappenEffect
<1>9. CASE RefreshAge
  BY <1>9, RefreshDoes, DeclineEffect, PendingEffect DEF Pending
<1>10. ASSUME NEW id \in Ids, Detach(id) PROVE EffectInv'
  <2>1. pc = "detach" /\ pc \in Pending /\ op.kind \in {"clear", "quarantine"} /\ Target(op) = Absent /\ op.kind \in Writes
    BY <1>10, DetachTo DEF Detach, Pending, Target, Writes
  <2>2. CASE KeepsBlob /\ \E status : Declines(status)
    BY <2>1, <2>2, DeclineEffect
  <2>3. CASE /\ Continues /\ pc' = "sync" /\ SetsBlob(Absent) /\ namespace
             /\ op'.name = <<op.kind, id>> /\ dir[Canonical] # Absent
             /\ dir'[<<op.kind, id>>] # Absent /\ dir'[<<op.kind, id>>].value = dir[Canonical].value
    <3>1. op'.before = dir[Canonical].value
      BY <2>1, <2>3, <1>0 DEF EffectInv, ValueAt, Continues
    <3>2. /\ op.kind = "quarantine" => op'.name \in Quarantined
          /\ op.kind = "clear" => op'.name \in {"clear"} \X Ids
      BY <2>1, <2>3, DetachTo
    <3>3. QED
      BY <2>1, <2>3, <3>1, <3>2, HappenEffect
  <2>4. QED
    BY <1>10, <2>2, <2>3, DetachDoes
<1>11. CASE SyncDirectory
  <2>1. pc = "sync" /\ dir' = dir /\ ValueAt(dir) = Target(op) /\ op.kind \in Writes /\ Target(op) \in durable
    BY <1>0, <1>11, SyncDoes, EffectFacts DEF StepInv, Writes
  <2>2. CASE Continues /\ UNCHANGED op /\ pc' = "delete" /\ Windows /\ op.kind = "clear" /\ disks' = {dir}
    <3>1. dir[Canonical] = Absent
      BY <2>1, <2>2, ValueAtType DEF IInv, TypeOK, Target
    <3>2. QED
      BY <2>1, <2>2, <3>1, <1>0 DEF EffectInv, Continues, Pending, SaveSteps
  <2>3. CASE Returns({"Ok"}, {Target(op)}) /\ disks' = {dir}
    BY <2>1, <2>3, ReturnEffect DEF Recoverable
  <2>4. CASE disks' = disks /\ \E statuses : Returns(statuses, durable)
    BY <2>1, <2>4, ReturnEffect, EffectFacts
  <2>5. QED
    BY <1>11, <2>2, <2>3, <2>4, SyncDoes
<1>12. CASE DeleteStaging
  <2>1. Target(op) = Absent /\ \A d \in disks : ValueAt(d) = Absent
    BY <1>0, <1>12, DeleteDoes, NoBlob DEF EffectInv, Target
  <2>2. Recoverable(disks') \subseteq {Target(op)}
    BY <2>1, <1>12, DeleteDoes DEF KeepsBlob, Recoverable
  <2>3. QED
    BY <2>2, <1>12, DeleteDoes, ReturnEffect
<1>13. CASE Enumerate
  BY <1>13, EnumerateDoes, PendingEffect, ReturnEffect, EffectFacts DEF Pending, KeepsBlob
<1>14. ASSUME NEW n \in Names, Sweep(n) PROVE EffectInv'
  BY <1>14, SweepDoes, PendingEffect DEF Pending
<1>15. CASE SweepDone
  BY <1>15, SweepDoneDoes, ReturnEffect, EffectFacts DEF Pending, KeepsBlob
<1>16. CASE Kill \/ PowerLoss
  <2>1. Stop /\ durable' = durable /\ Recoverable(disks') \subseteq Recoverable(disks)
    BY <1>16, KillDoes, PowerLossDoes DEF KeepsBlob
  <2>2. \A d \in disks' : ValueAt(d) \in durable'
    BY <2>1, EffectFacts DEF Recoverable
  <2>3. QED
    BY <2>1, <2>2, NoOpType DEF Stop, EffectInv, Pending, SaveSteps
<1>17. CASE LoseNamespace
  <2>1. dir'[Canonical] = Absent /\ disks' = {dir'} /\ durable' = {Absent} /\ op' = NoOp /\ pc' = "idle"
    BY <1>0, <1>17, NameFacts DEF LoseNamespace, StepInv
  <2>2. QED
    BY <2>1, NoOpType, NoBlob DEF EffectInv, Pending, SaveSteps
<1>18. CASE Open
  <2>1. op' = NoOp /\ pc' = "idle" /\ UNCHANGED <<disks, durable>>
    BY <1>0, <1>18 DEF Open, StepInv
  <2>2. QED
    BY <2>1, <1>0, NoOpType DEF EffectInv, Pending, SaveSteps
<1>19. CASE Read \/ Tick \/ SetBack \/ UNCHANGED vars
  BY <1>0, <1>19 DEF Read, Tick, SetBack, vars, EffectInv
<1>20. QED
  BY <1>1, <1>2, <1>3, <1>4, <1>6, <1>7, <1>8, <1>9, <1>10, <1>11, <1>12, <1>13, <1>14, <1>15, <1>16,
     <1>17, <1>18, <1>19 DEF Next, BeginSave, BeginOther, Maybe

----------------------------------------------------------------------------
(* The age of staging files.                                               *)

\* A directory that a system call makes from aged entries is aged.
LEMMA ChangeAged ==
    ASSUME IInv, NEW d, NEW n \in Names, Change(d), Aged(n, d[n]),
           \A m \in Names \ {n} : d[m] = Absent \/ d[m] = dir[m]
    PROVE  \A e \in disks', m \in Names : Aged(m, e[m])
  BY DEF Change, Aged, IInv, AgeInv, DiskInv

\* Every step keeps the ages in order.
LEMMA AgeStep == IInv /\ [Next]_vars => AgeInv'
<1> SUFFICES ASSUME IInv, [Next]_vars PROVE AgeInv'
  OBVIOUS
<1> DEFINE AllAged == \A d \in disks', n \in Names : Aged(n, d[n])
<1>0. AgeInv /\ StepInv /\ dir \in Directories /\ disks \subseteq Directories /\ dir \in disks /\ clock \in Nat /\ op \in OpType
  BY DEF IInv, TypeOK, DiskInv
<1>a. op.began \in Nat /\ op.began <= clock /\ \A n \in Names : Aged(n, dir[n])
  BY <1>0 DEF AgeInv, OpType
<1>b. ASSUME NEW statuses, NEW kept, Returns(statuses, kept), AllAged, clock' = clock PROVE AgeInv'
  BY <1>0, <1>b, Returned, NoOpType DEF Returns, AgeInv
<1>c. ASSUME op'.began = op.began \/ op'.began = clock, pc' \notin {"write", "detach"}, AllAged, clock' = clock
      PROVE  AgeInv'
  BY <1>0, <1>a, <1>c DEF AgeInv
<1>d. ASSUME NoChange PROVE AllAged
  BY <1>0, <1>d DEF NoChange, AgeInv
<1>e. ASSUME NEW n \in Names, Change(Without(n)) PROVE AllAged
  <2>1. Without(n)[n] = Absent /\ \A m \in Names \ {n} : Without(n)[m] = dir[m]
    BY <1>0, WithoutIs
  <2>2. Aged(n, Without(n)[n])
    BY <2>1 DEF Aged
  <2>3. QED
    BY <1>e, <2>1, <2>2, ChangeAged
<1>f. ASSUME pc \in StagingSteps PROVE op.name \in Names /\ op.name # Canonical /\ dir[op.name] # Absent
             /\ dir[op.name] \in Files /\ op.name \in Staging
  BY <1>f, StagingName DEF StagingSteps
<1>g. ASSUME pc \in StagingSteps, Discard(op.name) PROVE AllAged
  BY <1>d, <1>e, <1>f, <1>g DEF Discard
<1>h. ASSUME pc \in StagingSteps, NEW d, d = Renamed(op.name, Canonical)
      PROVE  Aged(Canonical, d[Canonical]) /\ \A m \in Names \ {Canonical} : d[m] = Absent \/ d[m] = dir[m]
  <2>1. /\ d[Canonical] = dir[op.name] /\ d[op.name] = Absent
        /\ \A m \in Names \ {op.name, Canonical} : d[m] = dir[m]
    BY <1>0, <1>f, <1>h, NameFacts, RenamedIs
  <2>2. Aged(op.name, dir[op.name])
    BY <1>a, <1>f, <1>h
  <2>3. Aged(Canonical, d[Canonical])
    BY <2>1, <2>2, NameFacts DEF Aged
  <2>4. QED
    BY <2>1, <2>3
<1>i. ASSUME pc \in StagingSteps, Change(Renamed(op.name, Canonical)) PROVE AllAged
  BY <1>h, <1>i, NameFacts, ChangeAged
<1>1. ASSUME NEW kind \in {"save", "stream", "clear", "quarantine", "cleanup"}, NEW v \in Maybe, Begin(kind, v)
      PROVE  AgeInv'
  <2>1. op'.kind = kind /\ op'.began = clock /\ pc' = FirstStep(kind) /\ UNCHANGED <<dir, disks, clock>>
    BY <1>1, Begun
  <2>2. (pc' = "detach" => op'.kind = "quarantine") /\ pc' # "write"
    BY <2>1 DEF FirstStep
  <2>3. QED
    BY <2>1, <2>2, <1>0 DEF AgeInv
<1>2. ASSUME NEW id \in Ids, CreateStaging(id) PROVE AgeInv'
  <2> DEFINE n == <<"save", id>>
             f == [value |-> op.value, sections |-> 0, synced |-> FALSE, modified |-> clock, staged |-> op.began]
             d == [dir EXCEPT ![n] = f]
  <2>1. n \in Names
    BY NameFacts, FreshNames
  <2>2. CASE Change(d) /\ op' = [op EXCEPT !.name = n] /\ pc' = "write" /\ clock' = clock
    <3>1. d[n] = f /\ \A m \in Names \ {n} : d[m] = dir[m]
      BY <2>1, <1>0 DEF Directories
    <3>2. Aged(n, d[n])
      BY <3>1, <1>0, <1>a DEF Aged
    <3>3. op'.began = op.began /\ op'.name = n /\ f.staged = op.began
      BY <2>2, <1>0 DEF OpType
    <3> HIDE DEF d, n, f
    <3>4. AllAged
      BY <2>1, <2>2, <3>1, <3>2, ChangeAged
    <3>5. dir'[op'.name].staged = op'.began
      BY <2>2, <3>1, <3>3 DEF Change
    <3>6. QED
      BY <2>2, <3>3, <3>4, <3>5, <1>a DEF AgeInv
  <2>3. CASE (\E status \in CreateErrors : ReturnUnchanged(status)) /\ NoChange /\ UNCHANGED <<namespace, clock>>
    BY <2>3, <1>b, <1>d DEF ReturnUnchanged, Returns
  <2>4. QED
    BY <1>2, <2>2, <2>3 DEF CreateStaging
<1>3. CASE WriteSection
  <2> DEFINE d == [dir EXCEPT ![op.name].sections = @ + 1, ![op.name].modified = clock]
  <2>1. pc \in StagingSteps /\ dir[op.name].sections < Sections
    BY <1>3 DEF WriteSection, StagingSteps, IInv, StagingInv
  <2>2. CASE Change(d) /\ pc' \in {"flush", "write"} /\ UNCHANGED <<op, clock>>
    <3>1. /\ d[op.name] = [dir[op.name] EXCEPT !.sections = @ + 1, !.modified = clock] /\ d[op.name] \in Files
          /\ \A m \in Names \ {op.name} : d[m] = dir[m]
      BY <2>1, <1>0, <1>f, WrittenIs
    <3>2. d[op.name].modified = clock /\ d[op.name].staged = dir[op.name].staged
      BY <2>1, <3>1, <1>f DEF Files
    <3>3. dir[op.name].staged = op.began
      BY <1>3, <1>0 DEF WriteSection, AgeInv
    <3>4. Aged(op.name, d[op.name])
      BY <3>2, <3>3, <1>a DEF Aged
    <3> HIDE DEF d
    <3>5. AllAged
      BY <2>1, <2>2, <3>1, <3>4, <1>f, ChangeAged
    <3>6. dir'[op'.name].staged = op'.began
      BY <2>2, <3>2, <3>3 DEF Change
    <3>7. QED
      BY <2>2, <3>5, <3>6, <1>a DEF AgeInv
  <2>3. CASE ReturnUnchanged("Io") /\ Discard(op.name) /\ UNCHANGED <<namespace, clock>>
    BY <2>1, <2>3, <1>b, <1>g DEF ReturnUnchanged, Returns
  <2>4. QED
    BY <1>3, <2>2, <2>3 DEF WriteSection
<1>4. CASE FlushStaging
  <2>1. pc \in StagingSteps
    BY <1>4 DEF FlushStaging, StagingSteps
  <2>2. CASE FlushFile(op.name) /\ pc' = "move" /\ UNCHANGED <<op, clock>>
    <3> DEFINE n == op.name
               f == dir'[n]
    <3>1. f = [dir[n] EXCEPT !.synced = TRUE] /\ f \in Files
      BY <2>1, <2>2, <1>0, <1>f, FlushedIs DEF FlushFile
    <3>2. f.modified = dir[n].modified /\ f.staged = dir[n].staged
      BY <2>1, <3>1, <1>f DEF Files
    <3>3. Aged(n, f) /\ n \in Names
      BY <2>1, <3>2, <1>a, <1>f DEF Aged
    <3>4. disks' = {IF d[n] = Absent THEN d ELSE [d EXCEPT ![n] = f] : d \in disks}
      BY <2>2 DEF FlushFile
    <3> HIDE DEF n, f
    <3>5. ASSUME NEW d \in disks, NEW m \in Names PROVE Aged(m, [d EXCEPT ![n] = f][m])
      BY <3>3, <1>0 DEF AgeInv, Directories
    <3>6. \A d \in disks, m \in Names : Aged(m, d[m])
      BY <1>0 DEF AgeInv
    <3>7. AllAged
      BY <3>4, <3>5, <3>6
    <3>8. QED
      BY <2>2, <3>7, <1>c
  <2>3. CASE Discard(op.name) /\ \E statuses, kept : Returns(statuses, kept) /\ clock' = clock
    BY <2>1, <2>3, <1>b, <1>g
  <2>4. QED
    BY <1>4, <2>2, <2>3 DEF FlushStaging, ReturnUnchanged, ReturnUnsynchronized, Returns
<1>5. CASE MoveStaging \/ ReplaceCanonical
  <2>1. pc \in StagingSteps /\ UNCHANGED <<namespace, clock>>
    BY <1>5 DEF MoveStaging, ReplaceCanonical, StagingSteps
  <2>2. CASE (NoChange \/ Change(Renamed(op.name, Canonical))) /\ pc' \in {"replace", "sync"} /\ UNCHANGED op
    BY <2>1, <2>2, <1>c, <1>d, <1>i
  <2>3. CASE CommitFails
    <3>1. AllAged
      BY <2>1, <2>3, <1>d, <1>e, <1>f, <1>i DEF CommitFails
    <3>2. QED
      BY <2>1, <2>3, <3>1, <1>b DEF CommitFails, ReturnUnsynchronized, Returns
  <2>4. CASE ReturnUnsynchronized("Ok") /\ dir' = Renamed(op.name, Canonical) /\ disks' \in {{dir'}, disks \cup {dir'}}
    <3>1. \A m \in Names : Aged(m, dir'[m])
      BY <2>1, <2>4, <1>a, <1>h DEF Aged
    <3>2. AllAged
      BY <2>4, <3>1, <1>0 DEF AgeInv
    <3>3. QED
      BY <2>1, <2>4, <3>2, <1>b DEF ReturnUnsynchronized, Returns
  <2>5. QED
    BY <1>5, <2>2, <2>3, <2>4 DEF MoveStaging, ReplaceCanonical
<1>6. CASE Unlink
  <2>1. CASE Change(Without(Canonical)) /\ pc' = "sync" /\ UNCHANGED <<op, clock>>
    BY <2>1, <1>c, <1>e, NameFacts
  <2>2. CASE NoChange /\ \E statuses, kept : Returns(statuses, kept) /\ clock' = clock
    BY <2>2, <1>b, <1>d
  <2>3. QED
    BY <1>6, <2>1, <2>2 DEF Unlink, Missing, ReturnUnchanged, Returns
<1>7. CASE RefreshAge
  <2>1. ASSUME dir[Canonical] # Absent, TouchCanonical
        PROVE  AllAged /\ dir'[Canonical].modified = clock
    <3> DEFINE d == [dir EXCEPT ![Canonical].modified = clock]
    <3>1. dir[Canonical] \in Files /\ Canonical \in Names
      BY <2>1, <1>0, NameFacts, PresentIsFile
    <3>2. /\ d[Canonical] = [dir[Canonical] EXCEPT !.modified = clock]
          /\ \A m \in Names \ {Canonical} : d[m] = dir[m]
      BY <2>1, <1>0, TouchedIs
    <3>3. d[Canonical].modified = clock /\ Aged(Canonical, d[Canonical])
      BY <3>1, <3>2, <1>0, NameFacts DEF Files, Aged
    <3>4. Change(d)
      BY <2>1 DEF TouchCanonical
    <3> HIDE DEF d
    <3>5. QED
      BY <3>1, <3>2, <3>3, <3>4, ChangeAged DEF Change
  <2>2. CASE dir[Canonical] # Absent /\ TouchCanonical /\ pc' = "detach" /\ UNCHANGED <<op, clock>>
    BY <2>1, <2>2, <1>0, <1>a DEF AgeInv
  <2>3. CASE AllAged /\ \E statuses, kept : Returns(statuses, kept) /\ clock' = clock
    BY <2>3, <1>b
  <2>4. QED
    BY <1>7, <2>1, <2>2, <2>3, <1>d DEF RefreshAge, Missing, ReturnUnchanged, Returns
<1>8. ASSUME NEW id \in Ids, Detach(id) PROVE AgeInv'
  <2> DEFINE to == <<op.kind, id>>
  <2>1. CASE NoChange /\ \E statuses, kept : Returns(statuses, kept) /\ clock' = clock
    BY <2>1, <1>b, <1>d
  <2>2. CASE dir[Canonical] # Absent /\ Change(Detached(to)) /\ op' = [op EXCEPT !.name = to] /\ pc' = "sync"
             /\ clock' = clock
    <3>1. to \in Names /\ to # Canonical /\ pc = "detach" /\ (to \in Staging => op.kind = "clear")
      BY <1>8, DetachTo, NameFacts DEF Detach
    <3>2. dir[Canonical] \in Files /\ Aged(Canonical, dir[Canonical])
      BY <2>2, <1>0, <1>a, NameFacts, PresentIsFile
    <3>3. /\ Detached(to)[Canonical] = Absent
          /\ Detached(to)[to] = [dir[Canonical] EXCEPT !.staged = op.began]
          /\ \A m \in Names \ {Canonical, to} : Detached(to)[m] = dir[m]
      BY <2>2, <3>1, <1>0, <1>a, DetachedIs
    <3> HIDE DEF to
    <3>4. Detached(to)[to].modified = dir[Canonical].modified /\ Detached(to)[to].staged = op.began
      BY <3>2, <3>3 DEF Files
    <3>5. to \in Staging => op.began <= dir[Canonical].modified
      BY <2>2, <3>1, <1>0 DEF AgeInv
    <3>6. Aged(to, Detached(to)[to])
      BY <2>2, <3>2, <3>4, <3>5 DEF Aged
    <3>7. AllAged
      BY <2>2, <3>1, <3>3, <3>6, ChangeAged
    <3>8. op'.began = op.began
      BY <2>2, <1>0 DEF OpType
    <3>9. QED
      BY <2>2, <3>7, <3>8, <1>c
  <2>3. QED
    BY <1>8, <2>1, <2>2 DEF Detach, Missing, ReturnUnchanged, Returns
<1>9. CASE SyncDirectory
  <2>1. AllAged /\ UNCHANGED clock
    BY <1>9, <1>0, SyncDoes DEF AgeInv, SyncDirectory
  <2>2. QED
    BY <1>9, <2>1, <1>b, <1>c, SyncDoes
<1>10. CASE DeleteStaging
  <2>1. op.name \in Names /\ UNCHANGED clock
    BY <1>10, NameFacts, FreshNames DEF DeleteStaging, IInv, EffectInv
  <2>2. AllAged
    BY <1>10, <2>1, <1>d, <1>e DEF DeleteStaging, DeleteCleared
  <2>3. QED
    BY <1>10, <2>1, <2>2, <1>b, DeleteDoes
<1>11. CASE Enumerate
  <2>1. AllAged /\ UNCHANGED clock
    BY <1>11, <1>0 DEF Enumerate, AgeInv
  <2>2. CASE \E todo : op' = [op EXCEPT !.began = clock, !.todo = todo] /\ pc' = "sweep"
    <3>1. op'.began = clock
      BY <2>2, <1>0 DEF OpType
    <3>2. QED
      BY <2>1, <2>2, <3>1, <1>c
  <2>3. QED
    BY <1>11, <2>1, <2>2, <1>b DEF Enumerate, ReturnUnchanged, Returns
<1>12. ASSUME NEW n \in Names, Sweep(n) PROVE AgeInv'
  <2>1. AllAged
    BY <1>12, <1>d, <1>e DEF Sweep
  <2>2. op'.began = op.began /\ pc' = "sweep" /\ clock' = clock
    BY <1>12, <1>0 DEF Sweep, OpType
  <2>3. QED
    BY <2>1, <2>2, <1>c
<1>13. CASE SweepDone
  <2>1. AllAged /\ UNCHANGED clock
    BY <1>13, <1>0 DEF SweepDone, AgeInv
  <2>2. QED
    BY <1>13, <2>1, <1>b, SweepDoneDoes
<1>14. CASE Kill
  <2>1. AllAged
    BY <1>14, <1>d, <1>e, <1>f DEF Kill, StagingSteps
  <2>2. QED
    BY <1>14, <2>1, <1>0, NoOpType DEF Kill, Stop, AgeInv
<1>15. CASE PowerLoss
  <2>1. PICK d \in disks, cut \in 0..Sections : dir' = Torn(d, cut)
    BY <1>15 DEF PowerLoss
  <2>2. \A n \in Names : Aged(n, d[n])
    BY <1>0 DEF AgeInv
  <2>3. \A n \in Names : Aged(n, dir'[n])
    BY <2>1, <2>2, <1>0, TornIs DEF Aged
  <2>4. QED
    BY <1>15, <2>3, <1>0, NoOpType DEF PowerLoss, Stop, AgeInv
<1>16. CASE LoseNamespace
  BY <1>16, <1>0 DEF LoseNamespace, AgeInv, Aged
<1>17. CASE Tick
  BY <1>17, <1>0, <1>a DEF Tick, AgeInv
<1>18. CASE Read \/ Open \/ UNCHANGED vars
  BY <1>18, <1>0 DEF Read, Open, vars, AgeInv
<1>19. CASE SetBack
  <2>1. op' = NoOp /\ pc' = pc /\ pc \in {"idle", "down"} /\ clock' \in Nat /\ UNCHANGED <<dir, disks>>
    BY <1>19, <1>0 DEF SetBack, StepInv
  <2>2. QED
    BY <2>1, <1>0, NoOpType DEF AgeInv
<1>20. QED
  BY <1>1, <1>2, <1>3, <1>4, <1>5, <1>6, <1>7, <1>8, <1>9, <1>10, <1>11, <1>12, <1>13, <1>14, <1>15, <1>16,
     <1>17, <1>18, <1>19 DEF Next, BeginSave, BeginOther, Maybe

\* Every step of a cleanup leaves no old staging file unreported.
LEMMA SweepStep == IInv /\ [Next]_vars => SweepInv'
<1> SUFFICES ASSUME IInv, [Next]_vars, pc' = "sweep", ~op'.failures,
                    NEW m \in Staging \ op'.todo, dir'[m] # Absent
             PROVE  op'.began - dir'[m].modified < MinAge
  BY DEF SweepInv
<1>0. dir \in Directories /\ op \in OpType /\ m \in Names
  BY NameFacts DEF IInv, TypeOK
<1>1. Enumerate \/ (\E n \in Names : Sweep(n)) \/ (pc = "sweep" /\ UNCHANGED <<dir, op>>)
  <2>1. ~\E kind \in {"save", "stream", "clear", "quarantine", "cleanup"} : \E v : Begin(kind, v)
    BY DEF Begin, FirstStep
  <2>2. ~\E id \in Ids : CreateStaging(id) \/ Detach(id)
    BY DEF CreateStaging, Detach, Missing, ReturnUnchanged, Return
  <2>3. ~(WriteSection \/ FlushStaging \/ MoveStaging \/ ReplaceCanonical)
    BY DEF WriteSection, FlushStaging, MoveStaging, CommitFails, ReplaceCanonical, ReturnUnchanged,
           ReturnUnsynchronized, Return
  <2>4. ~(Unlink \/ RefreshAge \/ SyncDirectory \/ DeleteStaging \/ SweepDone)
    BY DEF Unlink, RefreshAge, Missing, SyncDirectory, SyncFailed, DeleteStaging, DeleteCleared, SweepDone,
           ReturnUnchanged, ReturnUnsynchronized, ReturnDurable, Return
  <2>5. ~(Read \/ Kill \/ PowerLoss \/ Open \/ LoseNamespace \/ SetBack)
    BY DEF Read, Kill, PowerLoss, Stop, Open, LoseNamespace, SetBack
  <2>6. Tick \/ UNCHANGED vars => pc = "sweep" /\ UNCHANGED <<dir, op>>
    BY DEF Tick, vars
  <2>7. QED
    BY <2>1, <2>2, <2>3, <2>4, <2>5, <2>6 DEF Next, BeginSave, BeginOther
<1>2. ~Enumerate
  <2>1. ASSUME Enumerate PROVE op'.todo = {n \in Names : dir[n] # Absent} /\ dir' = dir
    BY <2>1, <1>0 DEF Enumerate, ReturnUnchanged, Return, OpType
  <2>2. QED
    BY <2>1, <1>0
<1>3. CASE pc = "sweep" /\ UNCHANGED <<dir, op>>
  BY <1>3 DEF IInv, SweepInv
<1>4. ASSUME NEW n \in Names, Sweep(n) PROVE op'.began - dir'[m].modified < MinAge
  <2>1. ~(op' = [op EXCEPT !.todo = op.todo \ {n}, !.failures = TRUE])
    BY ZenonT(60), <1>0 DEF OpType
  <2>2. op'.todo = op.todo \ {n} /\ op'.began = op.began /\ op'.failures = op.failures /\ op.began \in Nat
    BY <1>4, <2>1, <1>0 DEF Sweep, OpType
  <2>3. /\ pc = "sweep"
        /\ dir' = IF IsOwnedTemporaryFilename(n) /\ OldEnough(dir[n]) THEN Without(n) ELSE dir
    BY <1>4, <2>1 DEF Sweep, Change, NoChange
  <2>4. dir'[m] = dir[m]
    BY <2>3, <1>0, WithoutIs
  <2>5. CASE m # n
    BY <2>2, <2>3, <2>4, <2>5 DEF IInv, SweepInv
  <2>6. CASE m = n
    <3>1. ~OldEnough(dir[n])
      BY <2>3, <2>6, <1>0, WithoutIs DEF IsOwnedTemporaryFilename
    <3>2. dir[n] \in Files
      BY <2>4, <2>6, <1>0, PresentIsFile
    <3>3. QED
      BY <2>2, <2>4, <2>6, <3>1, <3>2, BoundsAssumption DEF OldEnough, Files
  <2>7. QED
    BY <2>5, <2>6
<1>5. QED
  BY <1>1, <1>2, <1>3, <1>4

----------------------------------------------------------------------------
(* What the answers say.                                                   *)

LEMMA NoResultIs == NoResult.kind = "none" /\ NoResult.status = "none"
  BY DEF NoResult

\* The answers that tell of a quarantined and of a missing blob.
SaysQuarantined(status) == op.kind = "quarantine" /\ status \in {"Ok", "QuarantineNamespaceSync"}
SaysAbsent(status) ==
    \/ op.kind = "clear" /\ status = "Ok"
    \/ op.kind = "quarantine" /\ status = "QuarantineSourceMissing"

\* The answer of an operation: its kind, its status and what the status implies.
LEMMA Answers ==
    ASSUME IInv, [Next]_vars
    PROVE  \/ result' = NoResult
           \/ UNCHANGED <<result, dir, namespace>>
           \/ Read
           \/ \E status : /\ Return(status, durable') /\ UNCHANGED namespace
                          /\ pc \notin {"idle", "down"}
                          /\ SaysQuarantined(status) => pc = "sync" /\ dir' = dir
                          /\ SaysAbsent(status) => namespace /\ dir'[Canonical] = Absent
<1>0. StepInv /\ dir \in Directories
  BY DEF IInv, TypeOK
<1> DEFINE Goal(status) ==
              /\ Return(status, durable') /\ UNCHANGED namespace
              /\ pc \notin {"idle", "down"}
              /\ SaysQuarantined(status) => pc = "sync" /\ dir' = dir
              /\ SaysAbsent(status) => namespace /\ dir'[Canonical] = Absent
           Silent == result' = NoResult
<1>a. ASSUME pc # "idle", Continues PROVE Silent
  BY <1>0, <1>a DEF Continues, StepInv
<1>b. ASSUME NEW statuses, NEW kept, Returns(statuses, kept)
      PROVE  \E status \in statuses : Return(status, durable') /\ UNCHANGED namespace
  BY <1>b, Returned DEF Returns
<1>c. ASSUME NEW statuses, NEW kept, Returns(statuses, kept), pc \notin {"idle", "down"},
             op.kind \in {"clear", "quarantine"} =>
                statuses \cap {"Ok", "QuarantineNamespaceSync", "QuarantineSourceMissing"} = {}
      PROVE  \E status : Goal(status)
  BY <1>b, <1>c DEF SaysQuarantined, SaysAbsent
<1>d. ASSUME NEW status \in {"Ok", "QuarantineSourceMissing"}, Declines(status), pc \notin {"idle", "down", "sync"},
             SaysAbsent(status)
      PROVE  \E s : Goal(s)
  <2>1. CASE NoChange /\ dir[Canonical] = Absent /\ namespace /\ Returns({status}, durable)
    <3>1. \E s \in {status} : Return(s, durable') /\ UNCHANGED namespace
      BY <2>1, <1>b
    <3>2. ~SaysQuarantined(status)
      BY <1>d DEF SaysAbsent, SaysQuarantined
    <3>3. QED
      BY <2>1, <3>1, <3>2, <1>d DEF NoChange
  <2>2. CASE Returns({"Io", "IdentifierGeneration", "QuarantineCommit"}, op.prior)
    BY <2>2, <1>c, <1>d
  <2>3. QED
    BY <1>d, <2>1, <2>2 DEF Declines
<1>e. op.kind = "clear" => SaysAbsent("Ok")
  BY DEF SaysAbsent
<1>f. op.kind = "quarantine" => SaysAbsent("QuarantineSourceMissing")
  BY DEF SaysAbsent
<1>1. ASSUME NEW kind \in {"save", "stream", "clear", "quarantine", "cleanup"}, NEW v \in Maybe, Begin(kind, v)
      PROVE  Silent
  BY <1>1, Begun
<1>2. ASSUME NEW id \in Ids, CreateStaging(id) PROVE Silent \/ \E status : Goal(status)
  BY <1>0, <1>2, <1>a, <1>c, CreateDoes DEF StepInv, SaveSteps
<1>3. ASSUME WriteSection PROVE Silent \/ \E status : Goal(status)
  BY <1>0, <1>3, <1>a, <1>c, WriteDoes DEF StepInv, SaveSteps
<1>4. ASSUME FlushStaging PROVE Silent \/ \E status : Goal(status)
  BY <1>0, <1>4, <1>a, <1>c, FlushDoes DEF StepInv, SaveSteps
<1>5. ASSUME MoveStaging PROVE Silent \/ \E status : Goal(status)
  BY <1>0, <1>5, <1>a, <1>c, MoveDoes DEF StepInv, SaveSteps
<1>6. ASSUME ReplaceCanonical PROVE Silent \/ \E status : Goal(status)
  BY <1>0, <1>6, <1>a, <1>c, ReplaceDoes DEF StepInv, SaveSteps
<1>7. ASSUME Unlink PROVE Silent \/ \E status : Goal(status)
  BY <1>0, <1>7, <1>a, <1>d, <1>e, UnlinkDoes DEF StepInv
<1>8. ASSUME RefreshAge PROVE Silent \/ \E status : Goal(status)
  BY <1>0, <1>8, <1>a, <1>d, <1>e, RefreshDoes DEF StepInv
<1>9. ASSUME NEW id \in Ids, Detach(id) PROVE Silent \/ \E status : Goal(status)
  BY <1>9, <1>a, <1>d, <1>e, <1>f, DetachDoes
<1>10. ASSUME SyncDirectory PROVE Silent \/ \E status : Goal(status)
  <2>1. pc = "sync" /\ dir' = dir /\ namespace /\ (op.kind = "clear" => dir[Canonical] = Absent)
    BY <1>0, <1>10, SyncDoes, EffectFacts, ValueAtType DEF Target, IInv, EffectInv
  <2>2. CASE Continues
    BY <2>1, <2>2, <1>a
  <2>3. CASE \E kept : Returns({"Ok"}, kept)
    <3>1. Return("Ok", durable') /\ UNCHANGED namespace
      BY <2>3, <1>b
    <3>2. QED
      BY <2>1, <3>1 DEF SaysAbsent
  <2>4. CASE \E kept : Returns({"SyncNamespaceDirectory", "OpenNamespaceDirectory"}, kept)
    BY <2>1, <2>4, <1>c
  <2>5. CASE \E kept : Returns({"QuarantineNamespaceSync"}, kept)
    <3>1. Return("QuarantineNamespaceSync", durable') /\ UNCHANGED namespace
      BY <2>5, <1>b
    <3>2. QED
      BY <2>1, <3>1 DEF SaysAbsent
  <2>6. QED
    BY <1>10, <2>2, <2>3, <2>4, <2>5, SyncDoes
<1>11. ASSUME DeleteStaging PROVE \E status : Goal(status)
  <2>1. pc = "delete" /\ op.kind = "clear" /\ namespace /\ ValueAt(dir') = Absent
        /\ \E kept : Returns({"Ok", "RemoveTemporaryFile"}, kept)
    BY <1>11, DeleteDoes, EffectFacts DEF KeepsBlob, Target, IInv, EffectInv
  <2>2. dir' \in Directories
    BY TypeStep DEF TypeOK
  <2>3. dir'[Canonical] = Absent
    BY <2>1, <2>2, ValueAtType
  <2>4. QED
    BY <2>1, <2>3, <1>b DEF SaysQuarantined
<1>12. ASSUME Enumerate PROVE Silent \/ \E status : Goal(status)
  BY <1>0, <1>12, <1>a, <1>c, EnumerateDoes DEF StepInv
<1>13. ASSUME NEW n \in Names, Sweep(n) PROVE Silent
  BY <1>13, <1>a, SweepDoes
<1>14. ASSUME SweepDone PROVE \E status : Goal(status)
  BY <1>0, <1>14, <1>c, SweepDoneDoes DEF StepInv
<1>15. ASSUME Kill \/ PowerLoss \/ LoseNamespace \/ Open PROVE Silent
  BY <1>0, <1>15 DEF Kill, PowerLoss, LoseNamespace, Open, Stop, StepInv
<1>16. ASSUME Tick \/ SetBack \/ UNCHANGED vars PROVE UNCHANGED <<result, dir, namespace>>
  BY <1>16 DEF Tick, SetBack, vars
<1>17. QED
  BY <1>1, <1>2, <1>3, <1>4, <1>5, <1>6, <1>7, <1>8, <1>9, <1>10, <1>11, <1>12, <1>13, <1>14, <1>15, <1>16
     DEF Next, BeginSave, BeginOther, Maybe

\* Every step keeps what its answer says of a quarantine and of a missing blob.
LEMMA AnswerStep == IInv /\ [Next]_vars => QuarantineHolds' /\ AbsentIsGenuine'
<1> SUFFICES ASSUME IInv, [Next]_vars PROVE QuarantineHolds' /\ AbsentIsGenuine'
  OBVIOUS
<1>1. CASE result' = NoResult
  BY <1>1, NoResultIs DEF QuarantineHolds, AbsentIsGenuine
<1>2. CASE UNCHANGED <<result, dir, namespace>>
  BY <1>2 DEF IInv, QuarantineHolds, AbsentIsGenuine
<1>3. CASE Read
  <2>1. PICK kind \in {"load", "inspect"} : \E status \in {"Io", ReadOutcome(kind)} :
            result' = [NoResult EXCEPT !.kind = kind, !.status = status]
    BY <1>3 DEF Read
  <2>2. result'.kind = kind /\ result'.status \in {"Io", ReadOutcome(kind)} /\ UNCHANGED <<dir, namespace>>
    BY <1>3, <2>1 DEF NoResult, Read
  <2>3. ReadOutcome(kind) = "Absent" => namespace /\ dir[Canonical] = Absent
    BY DEF ReadOutcome, NamespaceAvailable
  <2>4. QED
    BY <2>2, <2>3 DEF QuarantineHolds, AbsentIsGenuine
<1>4. ASSUME NEW status, Return(status, durable'), UNCHANGED namespace,
             SaysQuarantined(status) => pc = "sync" /\ dir' = dir,
             SaysAbsent(status) => namespace /\ dir'[Canonical] = Absent
      PROVE  QuarantineHolds' /\ AbsentIsGenuine'
  <2>1. result'.kind = op.kind /\ result'.status = status /\ result'.name = op.name /\ result'.before = op.before
    BY <1>4, Returned
  <2>2. op.kind \notin {"load", "inspect"}
    BY DEF IInv, TypeOK, OpType, Kinds
  <2>3. AbsentIsGenuine'
    BY <1>4, <2>1, <2>2 DEF AbsentIsGenuine, SaysAbsent
  <2>4. pc = "sync" /\ op.kind = "quarantine" =>
            dir[Canonical] = Absent /\ dir[op.name] # Absent /\ dir[op.name].value = op.before
    BY EffectFacts, ValueAtType DEF IInv, TypeOK, EffectInv, Target
  <2>5. QuarantineHolds'
    BY <1>4, <2>1, <2>4 DEF QuarantineHolds, SaysQuarantined
  <2>6. QED
    BY <2>3, <2>5
<1>5. QED
  BY <1>1, <1>2, <1>3, <1>4, Answers

----------------------------------------------------------------------------
(* The invariant, and what follows from it.                                *)

LEMMA InitInv == Init => IInv
<1> SUFFICES ASSUME Init PROVE IInv
  OBVIOUS
<1> USE NoOpType, NoResultIs, NameFacts DEF Init
<1>1. \A n \in Names : dir[n] = Absent
  OBVIOUS
<1>2. TypeOK
  BY DEF TypeOK, Directories, PCs, Maybe
<1>3. StepInv
  BY DEF StepInv, SaveSteps
<1>4. StagingInv
  BY DEF StagingInv
<1>5. DiskInv
  BY <1>1 DEF DiskInv, Complete
<1>6. EffectInv
  BY <1>1 DEF EffectInv, Pending, SaveSteps, ValueAt
<1>7. AgeInv /\ SweepInv
  BY <1>1 DEF AgeInv, Aged, SweepInv
<1>8. QuarantineHolds /\ AbsentIsGenuine
  BY DEF QuarantineHolds, AbsentIsGenuine
<1>9. QED
  BY <1>2, <1>3, <1>4, <1>5, <1>6, <1>7, <1>8 DEF IInv

LEMMA Invariance == Spec => []IInv
<1>1. IInv /\ [Next]_vars => IInv'
  BY TypeStep, StepInvStep, StagingStep, DiskStep, EffectStep, AgeStep, SweepStep, AnswerStep DEF IInv
<1>2. QED
  BY <1>1, InitInv, PTL DEF Spec

\* Whatever is saved and however the machine stops, the canonical path names
\* complete, flushed files only (write, flush, then rename).
THEOREM OnlyCompleteBlobs == Spec => []CanonicalComplete
<1>1. IInv => CanonicalComplete
  BY DEF IInv, DiskInv, CanonicalComplete
<1>2. QED
  BY <1>1, Invariance, PTL

\* No power loss leaves a value that the answers so far have ruled out.
THEOREM AnswersBoundPowerLoss == Spec => []DurableOutcome
<1>1. IInv => DurableOutcome
  BY DEF IInv, EffectInv, DurableOutcome
<1>2. QED
  BY <1>1, Invariance, PTL

\* A quarantine that answers Ok, or that only its directory sync failed, holds
\* the former blob under the name it reports.
THEOREM QuarantineKeepsTheBlob == Spec => []QuarantineHolds
<1>1. IInv => QuarantineHolds
  BY DEF IInv
<1>2. QED
  BY <1>1, Invariance, PTL

\* A missing blob is reported only from an existing namespace.
THEOREM MissingMeansMissing == Spec => []AbsentIsGenuine
<1>1. IInv => AbsentIsGenuine
  BY DEF IInv
<1>2. QED
  BY <1>1, Invariance, PTL

\* A cleanup takes no file of an operation younger than the minimum age: a clear
\* dates the blob before it becomes a staging file.  A report without failures
\* means that every staging file of that age is gone.
THEOREM CleanupGoesByAge == Spec => CleanupRespectsAge
<1> DEFINE Spares == \A n \in Names : pc' = "sweep" /\ dir'[n] # dir[n] => op.began - dir[n].staged >= MinAge
           Reports == result'.status = "Ok" =>
                        \A n \in Staging : dir'[n] # Absent => op.began - dir'[n].modified < MinAge
           A == pc = "sweep" => Spares /\ Reports
<1>0. IInv /\ [Next]_vars /\ pc = "sweep" =>
        \/ \E n \in Names : Sweep(n)
        \/ SweepDone
        \/ pc' = "down" /\ result' = NoResult
        \/ UNCHANGED <<dir, result>>
  BY DEF Next, vars, BeginSave, BeginOther, Begin, Read, CreateStaging, Detach, WriteSection, FlushStaging,
         MoveStaging, ReplaceCanonical, Unlink, RefreshAge, SyncDirectory, DeleteStaging, Enumerate,
         Kill, PowerLoss, Stop, Open, LoseNamespace, Tick, SetBack
<1>1. ASSUME IInv, [Next]_vars, pc = "sweep", pc' = "sweep", NEW m \in Names, dir'[m] # dir[m]
      PROVE  op.began - dir[m].staged >= MinAge
  <2>1. PICK n \in Names : Sweep(n)
    BY <1>0, <1>1 DEF SweepDone
  <2>2. n \in Staging /\ OldEnough(dir[n]) /\ dir' = Without(n)
    BY <1>1, <2>1 DEF Sweep, NoChange, Change, IsOwnedTemporaryFilename
  <2>3. m = n
    BY <1>1, <2>2, WithoutIs DEF IInv, TypeOK
  <2>4. dir[n] # Absent
    BY <1>1, <2>2, <2>3, WithoutIs DEF IInv, TypeOK
  <2>5. dir[n] \in Files /\ dir[n].staged <= dir[n].modified /\ op.began \in Nat
    BY <1>1, <2>2, <2>4, PresentIsFile DEF IInv, TypeOK, DiskInv, AgeInv, Aged, OpType
  <2>6. QED
    BY <2>2, <2>3, <2>5, BoundsAssumption DEF OldEnough, Files
<1>2. ASSUME IInv, [Next]_vars, pc = "sweep", result'.status = "Ok" PROVE Reports
  <2>1. result = NoResult
    BY <1>2 DEF IInv, StepInv
  <2>2. SweepDone
    BY <1>0, <1>2, <2>1, NoResultIs DEF Sweep
  <2>3. ~op.failures /\ op.todo = {} /\ dir' = dir
    BY <1>2, <2>2, Returned DEF SweepDone, ReturnUnchanged, IInv, TypeOK, OpType
  <2>4. QED
    BY <1>2, <2>3 DEF IInv, SweepInv
<1>3. IInv /\ [Next]_vars => [A]_vars
  BY <1>1, <1>2
<1>4. QED
  BY <1>3, Invariance, PTL DEF Spec, CleanupRespectsAge

\* Operations leave each other's staging and quarantine files alone: new names
\* are taken only when they are free.
THEOREM OthersFilesKept == Spec => DerivedFilesKept
<1> DEFINE Kept(n) == dir[n] # Absent /\ dir'[n] # dir[n] => n = op.name \/ (pc = "sweep" /\ n \in Staging)
           A == pc' # "down" /\ namespace' => \A n \in Staging \cup Quarantined : Kept(n)
<1>1. IInv /\ [Next]_vars => A
  <2> SUFFICES ASSUME IInv, [Next]_vars, pc' # "down", namespace', NEW n \in Staging \cup Quarantined,
                      dir[n] # Absent, dir'[n] # dir[n]
               PROVE  n = op.name \/ (pc = "sweep" /\ n \in Staging)
    OBVIOUS
  <2>0. n \in Names /\ n # Canonical /\ dir \in Directories /\ op.began \in Nat
    BY NameFacts DEF IInv, TypeOK, OpType
  <2>a. ~NoChange
    BY DEF NoChange
  <2>b. ASSUME NEW m \in Names, Change(Without(m)) PROVE n = m
    BY <2>0, <2>b, WithoutIs DEF Change
  <2>c. ASSUME pc \in {"write", "flush", "move", "replace"}, dir' = Renamed(op.name, Canonical) PROVE n = op.name
    <3>1. op.name \in Names /\ op.name # Canonical /\ Canonical \in Names
      BY <2>c, StagingName, NameFacts
    <3>2. QED
      BY <2>0, <2>c, <3>1, RenamedIs
  <2>1. ASSUME NEW id \in Ids, CreateStaging(id) PROVE FALSE
    <3> DEFINE m == <<"save", id>>
               f == [value |-> op.value, sections |-> 0, synced |-> FALSE, modified |-> clock, staged |-> op.began]
    <3>1. dir[m] = Absent /\ dir' = [dir EXCEPT ![m] = f]
      BY <2>1, <2>a DEF CreateStaging, NameFree, Change
    <3> HIDE DEF m, f
    <3>2. n # m
      BY <3>1
    <3>3. QED
      BY <2>0, <3>1, <3>2 DEF Directories
  <2>2. ASSUME NEW id \in Ids, Detach(id) PROVE FALSE
    <3> DEFINE to == <<op.kind, id>>
    <3>1. to \in Names /\ to # Canonical
      BY <2>2, DetachTo DEF Detach
    <3>2. dir[to] = Absent /\ dir' = Detached(to) /\ dir[Canonical] # Absent
      BY <2>2, <2>a DEF Detach, NameFree, Change
    <3> HIDE DEF to
    <3>3. n # to
      BY <3>2
    <3>4. QED
      BY <2>0, <3>1, <3>2, <3>3, DetachedIs
  <2>3. ASSUME WriteSection PROVE n = op.name
    <3>1. pc = "write" /\ op.name \in Names /\ dir[op.name] # Absent /\ dir[op.name].sections < Sections /\ clock \in Nat
      BY <2>3, StagingName DEF WriteSection, IInv, StagingInv, TypeOK
    <3>2. CASE dir' = [dir EXCEPT ![op.name].sections = @ + 1, ![op.name].modified = clock]
      BY <2>0, <3>1, <3>2, WrittenIs
    <3>3. QED
      BY <2>3, <2>a, <2>b, <3>1, <3>2 DEF WriteSection, Discard, Change
  <2>4. ASSUME FlushStaging PROVE n = op.name
    <3>1. pc = "flush" /\ op.name \in Names /\ dir[op.name] # Absent
      BY <2>4, StagingName DEF FlushStaging
    <3>2. CASE dir' = [dir EXCEPT ![op.name].synced = TRUE]
      BY <2>0, <3>1, <3>2, FlushedIs
    <3>3. QED
      BY <2>4, <2>a, <2>b, <3>1, <3>2 DEF FlushStaging, FlushFile, Discard
  <2>5. ASSUME MoveStaging \/ ReplaceCanonical PROVE n = op.name
    <3>1. pc \in {"move", "replace"} /\ op.name \in Names
      BY <2>5, StagingName DEF MoveStaging, ReplaceCanonical
    <3>2. QED
      BY <2>5, <2>a, <2>b, <2>c, <3>1 DEF MoveStaging, ReplaceCanonical, CommitFails, Change
  <2>6. ASSUME Unlink \/ RefreshAge PROVE FALSE
    <3>1. ASSUME dir[Canonical] # Absent, TouchCanonical PROVE FALSE
      BY <2>0, <3>1, TouchedIs DEF TouchCanonical, Change, IInv, TypeOK
    <3>2. QED
      BY <2>0, <2>6, <2>a, <2>b, <3>1, NameFacts DEF Unlink, RefreshAge
  <2>7. ASSUME DeleteStaging PROVE n = op.name
    <3>1. op.name \in Names
      BY <2>7, NameFacts, FreshNames DEF DeleteStaging, IInv, EffectInv
    <3>2. QED
      BY <2>7, <2>a, <2>b, <3>1 DEF DeleteStaging, DeleteCleared
  <2>8. ASSUME NEW m \in Names, Sweep(m) PROVE pc = "sweep" /\ n \in Staging
    BY <2>8, <2>a, <2>b DEF Sweep, IsOwnedTemporaryFilename
  <2>9. ~SyncDirectory
    BY SyncDoes
  <2>10. ~(Read \/ Enumerate \/ SweepDone \/ Tick \/ SetBack \/ Open \/ UNCHANGED vars)
    BY DEF Read, Enumerate, SweepDone, Tick, SetBack, Open, vars
  <2>11. ~(Kill \/ PowerLoss \/ LoseNamespace)
    BY DEF Kill, PowerLoss, Stop, LoseNamespace
  <2>12. ~\E kind, v : Begin(kind, v)
    BY DEF Begin
  <2>13. QED
    BY <2>1, <2>2, <2>3, <2>4, <2>5, <2>6, <2>7, <2>8, <2>9, <2>10, <2>11, <2>12 DEF Next, BeginSave, BeginOther
<1>2. IInv /\ [Next]_vars => [A]_vars
  BY <1>1
<1>3. QED
  BY <1>2, Invariance, PTL DEF Spec, DerivedFilesKept

----------------------------------------------------------------------------
(* The files implement the register of module AtomicBlob.                  *)

\* The register's variables, as the instance Blob maps them.
Registered ==
    <<ValueAt(dir), {ValueAt(d) : d \in disks}, IF Writing THEN Target(op) ELSE Absent,
      IF ~Writing THEN "none" ELSE IF pc \in {"sync", "delete"} THEN "done" ELSE "pending", Told>>

Remembers == Recoverable(disks') \in {{ValueAt(dir')}, Recoverable(disks) \cup {ValueAt(dir')}}

DoneStatus ==
    {"Ok", "OpenNamespaceDirectory", "SyncNamespaceDirectory", "QuarantineNamespaceSync", "RemoveTemporaryFile"}

LEMMA ToldNext ==
    /\ result'.kind \notin Writes => Told' = "none"
    /\ result'.kind \in Writes /\ result'.status \in DoneStatus => Told' = "done"
    /\ result'.kind \in Writes /\ result'.status = "AtomicCommit" => Told' = "unknown"
    /\ result'.kind \in Writes /\ result'.status \notin DoneStatus \cup {"AtomicCommit"} => Told' = "refused"
<1>1. result'.kind \notin Writes => Told' = "none"
  BY DEF Told, Writes
<1>2. result'.kind \in Writes /\ result'.status \in DoneStatus => Told' = "done"
  BY DEF Told, Writes, DoneStatus
<1>3. result'.kind \in Writes /\ result'.status = "AtomicCommit" => Told' = "unknown"
  BY DEF Told, Writes
<1>4. result'.kind \in Writes /\ result'.status \notin DoneStatus \cup {"AtomicCommit"} => Told' = "refused"
  BY DEF Told, Writes, DoneStatus
<1>5. QED
  BY <1>1, <1>2, <1>3, <1>4

LEMMA Remembering ==
    ASSUME IInv
    PROVE  /\ KeepsBlob => Remembers
           /\ \A v : SetsBlob(v) => Remembers
           /\ dir' = dir /\ disks' \in {{dir}, disks} => Remembers
<1>1. ValueAt(dir) \in Recoverable(disks)
  BY EffectFacts
<1>2. ASSUME KeepsBlob PROVE Remembers
  <2>1. Recoverable(disks') = Recoverable(disks) \cup {ValueAt(dir')}
    BY <1>1, <1>2 DEF KeepsBlob
  <2>2. QED
    BY <2>1 DEF Remembers
<1>3. \A v : SetsBlob(v) => Remembers
  BY DEF SetsBlob, Remembers
<1>4. ASSUME dir' = dir, disks' = {dir} PROVE Remembers
  BY <1>4 DEF Remembers, Recoverable
<1>5. ASSUME dir' = dir, disks' = disks PROVE Remembers
  <2>1. Recoverable(disks') = Recoverable(disks) \cup {ValueAt(dir')}
    BY <1>1, <1>5
  <2>2. QED
    BY <2>1 DEF Remembers
<1>6. QED
  BY <1>2, <1>3, <1>4, <1>5

\* An operation in progress answers.
LEMMA MapsEnd ==
    ASSUME IInv, op.kind \in Writes, pc \notin {"idle", "down"}, NEW statuses, NEW kept, Returns(statuses, kept), Remembers,
           \/ statuses \subseteq DoneStatus /\ ValueAt(dir') = Target(op)
           \/ statuses = {"AtomicCommit"} /\ pc \notin {"sync", "delete"} /\ ValueAt(dir') \in {ValueAt(dir), Target(op)}
           \/ /\ statuses \cap (DoneStatus \cup {"AtomicCommit"}) = {} /\ pc \notin {"sync", "delete"}
              /\ ValueAt(dir') = ValueAt(dir)
    PROVE  Blob!Next
<1>1. PICK status \in statuses : Return(status, kept)
  BY DEF Returns
<1>2. op' = NoOp /\ result'.kind = op.kind /\ result'.status = status
  BY <1>1, Returned
<1>3. ~Writing' /\ Writing
  BY <1>2, NoOpType DEF Writing, Writes
<1>4. Told' \in {"done", "refused", "unknown"}
  BY <1>2, ToldNext DEF DoneStatus
<1>5. \/ Told' = "done" /\ ValueAt(dir') = Target(op)
      \/ Told' = "refused" /\ pc \notin {"sync", "delete"} /\ ValueAt(dir') = ValueAt(dir)
      \/ Told' = "unknown" /\ pc \notin {"sync", "delete"} /\ ValueAt(dir') \in {ValueAt(dir), Target(op)}
  BY <1>1, <1>2, ToldNext
<1>6. Blob!End(Told')
  BY <1>3, <1>4, <1>5 DEF Blob!End, Blob!Remember, Remembers, Recoverable
<1>7. QED
  BY <1>4, <1>6 DEF Blob!Next

\* A step of an operation that the register does not see.
LEMMA MapsStutter ==
    ASSUME IInv, KeepsBlob, Continues, pc \notin {"sync", "delete"}, pc' \notin {"sync", "delete"}
    PROVE  UNCHANGED Registered
<1>1. Writing' = Writing /\ Target(op') = Target(op)
  BY DEF Continues, Writing, Target
<1>2. Told' = Told
  BY DEF Continues, Told
<1>3. QED
  BY <1>1, <1>2 DEF KeepsBlob, Recoverable, Registered

\* The effect of an operation that goes on to synchronize it.
LEMMA MapsHappen ==
    ASSUME IInv, op.kind \in Writes, SetsBlob(Target(op)), Continues, pc \notin {"sync", "delete"}, pc' = "sync"
    PROVE  Blob!Next
<1>1. Writing' /\ Writing /\ Target(op') = Target(op)
  BY DEF Continues, Writing, Writes, Target
<1>2. Told' = Told
  BY DEF Continues, Told
<1>3. Remembers
  BY Remembering
<1>4. Blob!Happen
  BY <1>1, <1>2, <1>3 DEF SetsBlob, Blob!Happen, Blob!Remember, Remembers, Recoverable
<1>5. QED
  BY <1>4 DEF Blob!Next

\* No operation in progress, and no answer.
LEMMA MapsForget ==
    ASSUME KeepsBlob, op'.kind \notin Writes, result'.kind \notin Writes
    PROVE  Blob!Next
<1>1. ~Writing' /\ Told' = "none"
  BY ToldNext DEF Writing, Writes
<1>2. Blob!Forget
  BY <1>1 DEF KeepsBlob, Recoverable, Blob!Forget
<1>3. QED
  BY <1>2 DEF Blob!Next

\* Every step of the files is a step of the register, or leaves it alone.
LEMMA MapsStep == IInv /\ [Next]_vars => Blob!Next \/ UNCHANGED Registered
<1> SUFFICES ASSUME IInv, [Next]_vars PROVE Blob!Next \/ UNCHANGED Registered
  OBVIOUS
<1>0. StepInv /\ (pc \in {"sync", "delete"} => ValueAt(dir) = Target(op))
  BY EffectFacts DEF IInv
<1>a. pc \in SaveSteps => op.kind \in {"save", "stream"} /\ op.kind \in Writes /\ Target(op) = op.value
  BY <1>0 DEF StepInv, Writes, Target
<1>b. op.kind \in {"clear", "quarantine"} => op.kind \in Writes /\ Target(op) = Absent
  BY DEF Writes, Target
<1>c. pc \in {"idle", "down"} => op.kind \notin Writes
  BY <1>0, NoOpType DEF StepInv, Writes
<1>d. ASSUME NEW statuses, NEW kept, Returns(statuses, kept), KeepsBlob, op.kind \in Writes,
             pc \notin {"idle", "down", "sync", "delete"}, statuses \cap (DoneStatus \cup {"AtomicCommit"}) = {}
      PROVE  Blob!Next
  BY <1>d, MapsEnd, Remembering DEF KeepsBlob
<1>e. ASSUME NEW kept, Returns({"AtomicCommit"}, kept), KeepsBlob \/ SetsBlob(op.value), pc \in SaveSteps
      PROVE  Blob!Next
  <2>1. Remembers /\ ValueAt(dir') \in {ValueAt(dir), Target(op)}
    BY <1>a, <1>e, Remembering DEF KeepsBlob, SetsBlob
  <2>2. QED
    BY <2>1, <1>a, <1>e, MapsEnd DEF SaveSteps
<1>f. ASSUME NEW status, KeepsBlob, Declines(status), op.kind \in {"clear", "quarantine"},
             pc \notin {"idle", "down", "sync", "delete"},
             status = "QuarantineSourceMissing" \/ status \in DoneStatus
      PROVE  Blob!Next
  <2>1. CASE NoChange /\ dir[Canonical] = Absent /\ Returns({status}, durable)
    <3>1. ValueAt(dir') = Absent
      BY <2>1, NoBlob DEF NoChange
    <3>2. CASE status \in DoneStatus
      BY <2>1, <3>1, <3>2, <1>b, <1>f, MapsEnd, Remembering
    <3>3. CASE status = "QuarantineSourceMissing"
      BY <2>1, <3>3, <1>b, <1>d, <1>f DEF DoneStatus
    <3>4. QED
      BY <3>2, <3>3, <1>f
  <2>2. CASE Returns({"Io", "IdentifierGeneration", "QuarantineCommit"}, op.prior)
    BY <2>2, <1>b, <1>d, <1>f DEF DoneStatus
  <2>3. QED
    BY <2>1, <2>2, <1>f DEF Declines
<1>1. ASSUME NEW kind \in {"save", "stream", "clear", "quarantine", "cleanup"}, NEW v \in Maybe, Begin(kind, v)
      PROVE  Blob!Next
  <2>1. /\ op = NoOp /\ pc = "idle" /\ op'.kind = kind /\ op'.value = v /\ result' = NoResult /\ pc' = FirstStep(kind)
        /\ UNCHANGED <<dir, disks>>
    BY <1>1, Begun
  <2>2. result'.kind \notin Writes /\ ~Writing
    BY <2>1, <1>c, NoResultIs DEF Writes, Writing
  <2>3. CASE kind = "cleanup"
    BY <2>1, <2>2, <2>3, UnchangedKeeps, MapsForget DEF Writes
  <2>4. CASE kind # "cleanup"
    <3>1. Writing' /\ pc' \notin {"sync", "delete"}
      BY <2>1, <2>4 DEF Writing, FirstStep
    <3>2. Told' = "none" /\ Target(op') \in Values \cup {Absent}
      BY <2>1, <2>2, ToldNext DEF Target, Maybe
    <3>3. Blob!Begin(Target(op'))
      BY <2>1, <2>2, <3>1, <3>2 DEF Blob!Begin
    <3>4. QED
      BY <3>2, <3>3 DEF Blob!Next
  <2>5. QED
    BY <2>3, <2>4
<1>2. ASSUME NEW id \in Ids, CreateStaging(id) PROVE Blob!Next \/ UNCHANGED Registered
  BY <1>2, <1>a, <1>d, CreateDoes, MapsStutter DEF SaveSteps, DoneStatus
<1>3. CASE WriteSection
  BY <1>3, <1>a, <1>d, WriteDoes, MapsStutter DEF SaveSteps, DoneStatus
<1>4. CASE FlushStaging
  BY <1>4, <1>a, <1>d, <1>e, FlushDoes, MapsStutter DEF SaveSteps, DoneStatus
<1>5. CASE MoveStaging
  <2>1. pc = "move" /\ pc \in SaveSteps
    BY <1>5, MoveDoes DEF SaveSteps
  <2>2. CASE Returns({"Ok"}, durable) /\ SetsBlob(op.value)
    BY <2>1, <2>2, <1>a, MapsEnd, Remembering DEF SetsBlob, DoneStatus
  <2>3. QED
    BY <1>5, <2>1, <2>2, <1>a, <1>e, MoveDoes, MapsStutter, MapsHappen
<1>6. CASE ReplaceCanonical
  BY <1>6, <1>a, <1>e, ReplaceDoes, MapsHappen DEF SaveSteps
<1>7. CASE Unlink
  BY <1>0, <1>7, <1>b, <1>f, UnlinkDoes, MapsHappen DEF StepInv, DoneStatus
<1>8. CASE RefreshAge
  BY <1>0, <1>8, <1>b, <1>f, RefreshDoes, MapsStutter DEF StepInv, DoneStatus
<1>9. ASSUME NEW id \in Ids, Detach(id) PROVE Blob!Next
  <2>1. pc = "detach" /\ op.kind \in {"clear", "quarantine"}
    BY <1>9, DetachTo DEF Detach
  <2>2. QED
    BY <2>1, <1>9, <1>b, <1>f, DetachDoes, MapsHappen DEF DoneStatus
<1>10. CASE SyncDirectory
  <2>1. pc = "sync" /\ dir' = dir /\ op.kind \in Writes /\ ValueAt(dir) = Target(op)
    BY <1>0, <1>10, SyncDoes DEF StepInv, Writes
  <2>2. CASE Continues /\ UNCHANGED op /\ pc' = "delete" /\ disks' = {dir}
    <3>1. Writing' = Writing /\ Writing /\ Told' = Told
      BY <2>1, <2>2 DEF Continues, Writing, Writes, Told
    <3>2. Blob!Synchronize
      BY <2>1, <2>2, <3>1 DEF Blob!Synchronize, Target
    <3>3. QED
      BY <3>2 DEF Blob!Next
  <2>3. ASSUME NEW statuses, NEW kept, Returns(statuses, kept), disks' \in {{dir}, disks}, statuses \subseteq DoneStatus
        PROVE  Blob!Next
    BY <2>1, <2>3, MapsEnd, Remembering
  <2>4. QED
    BY <1>10, <2>2, <2>3, SyncDoes DEF DoneStatus
<1>11. CASE DeleteStaging
  BY <1>0, <1>11, <1>b, DeleteDoes, MapsEnd, Remembering DEF KeepsBlob, DoneStatus
<1>12. ASSUME NEW statuses, NEW kept, Returns(statuses, kept), KeepsBlob, op.kind = "cleanup" PROVE Blob!Next
  <2>1. op' = NoOp /\ result'.kind = op.kind
    BY <1>12, Returned DEF Returns
  <2>2. QED
    BY <2>1, <1>12, NoOpType, MapsForget DEF Writes
<1>13. CASE Enumerate \/ SweepDone
  <2>1. op.kind = "cleanup"
    BY <1>0, <1>13 DEF Enumerate, SweepDone, StepInv
  <2>2. QED
    BY <2>1, <1>12, <1>13, EnumerateDoes, SweepDoneDoes, MapsStutter
<1>14. ASSUME NEW n \in Names, Sweep(n) PROVE UNCHANGED Registered
  BY <1>14, SweepDoes, MapsStutter
<1>15. CASE Kill
  BY <1>15, KillDoes, MapsForget, NoOpType, NoResultIs DEF Stop, Writes
<1>16. CASE PowerLoss
  <2>1. ~Writing' /\ Told' = "none"
    BY <1>16, PowerLossDoes, ToldNext, NoOpType, NoResultIs DEF Stop, Writing, Writes
  <2>2. Blob!PowerLoss
    BY <2>1, <1>16, PowerLossDoes DEF Blob!PowerLoss, Recoverable
  <2>3. QED
    BY <2>2 DEF Blob!Next
<1>17. CASE LoseNamespace
  <2>1. dir'[Canonical] = Absent /\ disks' = {dir'} /\ op' = op /\ pc' = pc /\ op = NoOp /\ result' = NoResult
    BY <1>0, <1>17, NameFacts DEF LoseNamespace, StepInv
  <2>2. ~Writing /\ ~Writing' /\ Told' = "none"
    BY <2>1, ToldNext, NoOpType, NoResultIs DEF Writing, Writes
  <2>3. ValueAt(dir') = Absent
    BY <2>1, NoBlob
  <2>4. Blob!Remove
    BY <2>1, <2>2, <2>3 DEF Blob!Remove
  <2>5. QED
    BY <2>4 DEF Blob!Next
<1>18. CASE Read
  <2>1. result'.kind \in {"load", "inspect"} /\ UNCHANGED <<dir, disks, op>> /\ pc = "idle"
    BY <1>18 DEF Read, NoResult
  <2>2. QED
    BY <2>1, <1>c, UnchangedKeeps, MapsForget DEF Writes
<1>19. CASE Open
  <2>1. ~Writing /\ ~Writing' /\ UNCHANGED <<dir, disks, result>>
    BY <1>c, <1>18, <1>19 DEF Open, Writing, Writes
  <2>2. QED
    BY <2>1 DEF Registered, Told
<1>20. CASE Tick \/ SetBack \/ UNCHANGED vars
  BY <1>20 DEF Tick, SetBack, vars, Registered, Writing, Told, Target
<1>21. QED
  BY <1>1, <1>2, <1>3, <1>4, <1>5, <1>6, <1>7, <1>8, <1>9, <1>10, <1>11, <1>13, <1>14, <1>15, <1>16, <1>17, <1>18,
     <1>19, <1>20 DEF Next, BeginSave, BeginOther, Maybe

\* On either platform the files of a key are an atomic register: an operation
\* has its effect in one step, the rename or unlink, answers what is true of it,
\* and a power loss brings back a value held since the last synchronization.
THEOREM FilesAreAtomic == Spec => IsAtomic
<1>1. Init => Blob!Init
  <2> SUFFICES ASSUME Init PROVE Blob!Init
    OBVIOUS
  <2>1. ValueAt(dir) = Absent /\ disks = {dir} /\ ~Writing /\ result.kind = "none"
    BY NameFacts, NoOpType, NoResultIs, NoBlob DEF Init, Writing
  <2>2. Told = "none"
    BY <2>1 DEF Told
  <2>3. QED
    BY <2>1, <2>2 DEF Blob!Init
<1>2. IInv /\ [Next]_vars => [Blob!Next]_Registered
  BY MapsStep
<1>3. QED
  BY <1>1, <1>2, Invariance, PTL DEF Spec, IsAtomic, Blob!Spec, Registered
=============================================================================
