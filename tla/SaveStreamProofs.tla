-------------------------- MODULE SaveStreamProofs --------------------------
(***************************************************************************)
(* Proofs about module SaveStream, for any channel capacity, chunk size,   *)
(* length limits and source.                                               *)
(***************************************************************************)
EXTENDS SaveStream, SequenceTheorems, TLAPS

----------------------------------------------------------------------------
(* The bytes of a stream.                                                  *)

\* Bytes(from, count) is a sequence of count bytes.
LEMMA BytesSeq ==
    ASSUME NEW from \in Nat, NEW count \in Nat
    PROVE  /\ Bytes(from, count) \in Seq(Nat)
           /\ Len(Bytes(from, count)) = count
           /\ \A i \in 1..count : Bytes(from, count)[i] = from + i
<1>1. \A i \in 1..count : from + i \in Nat
  OBVIOUS
<1>2. [i \in 1..count |-> from + i] \in Seq(Nat)
  BY <1>1
<1> QED
  BY <1>2 DEF Bytes

\* A run that begins where another one ends continues it.
LEMMA BytesConcat ==
    ASSUME NEW from \in Nat, NEW a \in Nat, NEW b \in Nat
    PROVE  Bytes(from, a) \o Bytes(from + a, b) = Bytes(from, a + b)
<1>1. /\ Bytes(from, a) \in Seq(Nat) /\ Len(Bytes(from, a)) = a
      /\ \A i \in 1..a : Bytes(from, a)[i] = from + i
  BY BytesSeq
<1>2. /\ Bytes(from + a, b) \in Seq(Nat) /\ Len(Bytes(from + a, b)) = b
      /\ \A i \in 1..b : Bytes(from + a, b)[i] = from + a + i
  <2>1. from + a \in Nat
    OBVIOUS
  <2> QED
    BY <2>1, BytesSeq
<1>3. /\ Bytes(from, a + b) \in Seq(Nat) /\ Len(Bytes(from, a + b)) = a + b
      /\ \A i \in 1..a + b : Bytes(from, a + b)[i] = from + i
  <2>1. a + b \in Nat
    OBVIOUS
  <2> QED
    BY <2>1, BytesSeq
<1>4. ASSUME NEW p \in Seq(Nat), NEW q \in Seq(Nat), Len(p) = a, Len(q) = b
      PROVE  /\ p \o q \in Seq(Nat) /\ Len(p \o q) = a + b
             /\ \A i \in 1..a + b : (p \o q)[i] = IF i <= a THEN p[i] ELSE q[i - a]
  BY <1>4, ConcatProperties
<1> DEFINE s == Bytes(from, a) \o Bytes(from + a, b)
<1>5. /\ s \in Seq(Nat) /\ Len(s) = a + b
      /\ \A i \in 1..a + b : s[i] = IF i <= a THEN Bytes(from, a)[i] ELSE Bytes(from + a, b)[i - a]
  BY <1>1, <1>2, <1>4
<1> HIDE DEF s
<1>6. ASSUME NEW i \in 1..a + b
      PROVE  s[i] = Bytes(from, a + b)[i]
  <2>1. Bytes(from, a + b)[i] = from + i
    BY <1>3
  <2>2. s[i] = IF i <= a THEN Bytes(from, a)[i] ELSE Bytes(from + a, b)[i - a]
    BY <1>5
  <2>3. CASE i <= a
    <3>1. Bytes(from, a)[i] = from + i
      BY <1>1, <2>3
    <3> QED
      BY <2>1, <2>2, <2>3, <3>1
  <2>4. CASE ~(i <= a)
    <3>1. i - a \in 1..b
      BY <2>4
    <3>2. Bytes(from + a, b)[i - a] = from + a + (i - a)
      BY <1>2, <3>1
    <3> QED
      BY <2>1, <2>2, <2>4, <3>2
  <2> QED
    BY <2>3, <2>4
<1>7. s = Bytes(from, a + b)
  BY <1>3, <1>5, <1>6, SeqEqual
<1> QED
  BY <1>7 DEF s

----------------------------------------------------------------------------
(* Invariants.                                                             *)

PCs == {"start", "reading", "trailing", "sending", "awaiting", "draining"} \cup Left
Stages == {"new", "queued", "opening", "receiving", "committing", "finished", "dropping"}

TypeOK ==
    /\ facade \in {"blocking", "tokio"}
    /\ declared \in 0..Word
    /\ input \in Nat
    /\ pc \in PCs
    /\ read \in Nat
    /\ message \in Messages
    /\ chunks \in Seq(Messages)
    /\ sender \in BOOLEAN /\ receiver \in BOOLEAN /\ marked \in BOOLEAN
    /\ stage \in Stages
    /\ staged \in Seq(Nat)
    /\ outcome \in Outcomes \cup {"none"}
    /\ result \in Answers \cup {"none", "pending", "closed"}
    /\ answer \in Answers \cup {"none"}

----------------------------------------------------------------------------
(* The bytes on their way.  A message's place in the source is read off    *)
(* its first byte; the marker's place is the end of what was read.         *)

From(m) == m.bytes[1] - 1
Upto(m) == From(m) + Len(m.bytes)

\* A chunk is a run of consecutive bytes that were read; a marker is empty.
IsRun(m, upto) ==
    IF m.kind = "chunk"
    THEN Len(m.bytes) > 0 /\ m.bytes = Bytes(From(m), Len(m.bytes)) /\ Upto(m) <= upto
         /\ From(m) \in Nat
    ELSE m = Complete

Place(m, end) == IF m.kind = "chunk" THEN From(m) ELSE end

\* Where the next message to be sent begins, and where message i of ch begins.
Unsent == IF pc = "sending" THEN Place(message, read) ELSE read
Edge(ch, i, end, unsent) == IF i <= Len(ch) THEN Place(ch[i], end) ELSE unsent

\* The endpoint still sends; the job still takes input.
Sending == {"start", "reading", "trailing", "sending"}
Feeding == {"new", "queued", "opening", "receiving"}

\* The messages in the channel follow one another without gap or overlap, up to
\* the next one as long as there will be one.
Contiguous(ch, end, unsent, p) ==
    \A i \in 1..Len(ch) :
        /\ IsRun(ch[i], end)
        /\ ch[i].kind = "chunk" /\ (i < Len(ch) \/ p \in Sending) =>
                Upto(ch[i]) = Edge(ch, i + 1, end, unsent)

\* The staging file ends where the channel begins.
Joined(ch, end, unsent, p, len) ==
    ch # <<>> \/ p \in Sending => len = Edge(ch, 1, end, unsent)

\* The marker ends the channel, and a job that takes input has not seen it.
MarkerLast(ch) ==
    /\ \A i \in 1..Len(ch) : ch[i].kind = "complete" => marked /\ i = Len(ch)
    /\ marked /\ stage \in Feeding => ch # <<>> /\ ch[Len(ch)].kind = "complete"

\* What the endpoint has read, and what each of its steps knows about the source.
SourceInv ==
    /\ read <= declared /\ read <= input
    /\ pc = "start" => read = 0
    /\ pc = "reading" => read < declared
    /\ pc = "trailing" => read = declared
    /\ pc = "sending" => IsRun(message, read) /\ (message.kind = "chunk" => Upto(message) = read)
    /\ pc = "sending" /\ message = Complete => read = declared /\ input = declared
    /\ marked => pc \in {"awaiting"} \cup Left /\ read = declared /\ input = declared
    /\ ~sender => marked \/ pc \in {"draining"} \cup Left
    /\ answer = "InputEndedEarly" => input < declared
    /\ answer = "InputHasTrailingData" => input > declared
    /\ pc = "draining" => answer \in InputErrors
    /\ pc \notin {"draining"} \cup Left => answer = "none"

DataInv ==
    /\ staged = Bytes(0, Len(staged))
    /\ Contiguous(chunks, read, Unsent, pc)
    /\ MarkerLast(chunks)
    /\ stage \in Feeding => Joined(chunks, read, Unsent, pc, Len(staged))
    /\ stage = "committing" => marked /\ staged = Bytes(0, declared)

\* What an outcome says about the blob.
Tells(a) ==
    /\ a = "Ok" => blob = Bytes(0, declared)
    /\ a = "SyncNamespaceDirectory" => blob # Old
    /\ a \notin {"Ok", "EngineFailed", "pending", "closed"} \cup CommitErrors => blob = Old

OutcomeInv ==
    /\ CommittedIsWholeInput
    /\ stage = "new" => pc \in {"start"} \cup Left
    /\ pc = "start" => stage = "new"
    /\ stage # "new" => declared <= Maximum
    /\ stage \in Feeding \cup {"committing"} => blob = Old /\ outcome = "none"
    /\ stage = "finished" => Tells(outcome) /\ outcome # "none"
    /\ outcome \notin {"InputHasTrailingData", "InputEndedEarly", "BlobTooLarge", "InputIo"}
    /\ outcome = "StreamCancelled" => ~marked /\ pc \in {"draining"} \cup Left
    /\ result # "pending" => stage = "dropping"
    /\ result # "none" /\ Tells(result)
    /\ result \in {outcome} \cup Rejections \cup {"pending", "closed"}
    /\ pc = "returned" => stage \in {"new", "dropping"} /\ answer # "none" /\ Tells(answer)
    /\ pc = "returned" => answer # "StreamCancelled"

IInv == TypeOK /\ SourceInv /\ DataInv /\ OutcomeInv

----------------------------------------------------------------------------
(* Type correctness.                                                       *)

\* Every step keeps the types.
LEMMA TypeStep ==
    ASSUME TypeOK, [Next]_vars
    PROVE  TypeOK'
<1> USE DEF TypeOK, PCs, Stages, Left, Answers, Outcomes, InputErrors, CommitErrors, Refusals, Rejections,
            inputs, endpoint, worker, NextInput
<1>1. Complete \in Messages
  BY EmptySeq DEF Complete, Messages
<1>2. ASSUME RefuseStart \/ StartSaveStream \/ TakeResultFirst \/ SendRefused \/ AwaitResult
             \/ AwaitAfterInputError \/ Abandon \/ ReadEnds \/ ReadFails \/ FindTrailingData
             \/ FindEndOfInput
      PROVE  TypeOK'
  BY ZenonT(60), <1>1, <1>2 DEF RefuseStart, StartSaveStream, TakeResultFirst, SendRefused, AwaitResult,
       AwaitAfterInputError, Abandon, ReadEnds, ReadFails, FindTrailingData, FindEndOfInput, FailInput,
       Return, ReceivedResult, ResultReady
<1>3. CASE ReadChunk
  <2>1. PICK count \in 1..Requested :
            /\ read' = read + count
            /\ message' = Chunk(Bytes(read, count))
    BY <1>3 DEF ReadChunk
  <2>2. Requested \in Int
    BY LimitsAssumption DEF Requested
  <2>3. count \in Nat
    BY <2>2
  <2>4. message' \in Messages /\ read' \in Nat
    BY <2>1, <2>3, BytesSeq DEF Messages, Chunk
  <2> QED
    BY <1>3, <2>4 DEF ReadChunk
<1>4. CASE Send
  <2>1. chunks' \in Seq(Messages)
    BY <1>4, AppendProperties DEF Send
  <2> QED
    BY <1>4, <2>1 DEF Send
<1>5. CASE Dispatch \/ Reject \/ Lose
  BY <1>5 DEF Dispatch, Reject, Lose
<1>10. CASE Deliver
  BY <1>10 DEF Deliver
<1>11. CASE DropReceiver \/ DropResult
  BY <1>11, ZenonT(60) DEF DropReceiver, DropResult
<1>9. CASE OpenStaging \/ ReceiveDisconnected \/ Commit
  BY <1>9 DEF OpenStaging, ReceiveDisconnected, Commit, Finish
<1>6. CASE ReceiveChunk
  <2>1. Head(chunks) \in Messages /\ chunks' \in Seq(Messages)
    BY <1>6, HeadTailProperties DEF ReceiveChunk, Receiving
  <2>2. Head(chunks).bytes \in Seq(Nat)
    BY <2>1 DEF Messages
  <2>3. staged' \in Seq(Nat)
    <3>1. staged \o Head(chunks).bytes \in Seq(Nat)
      BY <2>2
    <3> QED
      BY <1>6, <3>1 DEF ReceiveChunk
  <2> QED
    BY SMTT(60), <1>6, <2>1, <2>3 DEF ReceiveChunk, Finish
<1>7. CASE ReceiveComplete
  <2>1. chunks' \in Seq(Messages)
    BY <1>7, HeadTailProperties DEF ReceiveComplete, Receiving
  <2> QED
    BY <1>7, <2>1 DEF ReceiveComplete, Finish
<1>8. CASE Terminated \/ UNCHANGED vars
  BY <1>8 DEF Terminated, vars
<1> QED
  BY <1>2, <1>3, <1>4, <1>5, <1>6, <1>7, <1>8, <1>9, <1>10, <1>11 DEF Next, Source, Endpoint, Engine

----------------------------------------------------------------------------
(* The endpoint and its source.                                            *)

\* The job and its worker leave the caller's endpoint alone.
LEMMA EngineKeepsEndpoint ==
    ASSUME Engine \/ Lose \/ Terminated \/ UNCHANGED vars
    PROVE  UNCHANGED <<facade, declared, input, pc, read, message, sender, answer, marked>>
BY DEF Engine, Dispatch, Reject, OpenStaging, ReceiveChunk, ReceiveComplete, ReceiveDisconnected, Commit,
   Deliver, DropReceiver, DropResult, Finish, Lose, Terminated, vars, inputs, endpoint, worker

\* A chunk just read is the run of bytes behind the ones read before.
LEMMA ChunkIsRun ==
    ASSUME NEW from \in Nat, NEW count \in Nat \ {0}
    PROVE  LET m == Chunk(Bytes(from, count)) IN
           /\ IsRun(m, from + count)
           /\ m.kind = "chunk" /\ From(m) = from /\ Upto(m) = from + count
<1> DEFINE m == Chunk(Bytes(from, count))
<1>1. m.kind = "chunk" /\ m.bytes = Bytes(from, count)
  BY DEF Chunk
<1>2. Len(m.bytes) = count /\ m.bytes[1] = from + 1
  BY <1>1, BytesSeq
<1> HIDE DEF m
<1>3. From(m) = from /\ Upto(m) = from + count
  BY <1>2 DEF From, Upto
<1>4. IsRun(m, from + count)
  BY <1>1, <1>2, <1>3 DEF IsRun
<1> QED
  BY <1>1, <1>3, <1>4 DEF m

\* Every step keeps what the endpoint knows about its source.
LEMMA SourceStep ==
    ASSUME TypeOK, SourceInv, OutcomeInv, [Next]_vars
    PROVE  SourceInv'
<1> USE DEF SourceInv, Left, InputErrors, inputs
<1>1. ASSUME RefuseStart \/ StartSaveStream
      PROVE  SourceInv'
  BY <1>1 DEF RefuseStart, StartSaveStream, Return, Refusals, Rejections, NextInput, TypeOK
<1>2. CASE ReadChunk
  <2>1. PICK count \in 1..Requested :
            /\ read + count <= input
            /\ read' = read + count
            /\ message' = Chunk(Bytes(read, count))
    BY <1>2 DEF ReadChunk
  <2>2. count \in Nat \ {0} /\ read + count <= declared
    BY <2>1, LimitsAssumption DEF Requested, TypeOK
  <2>3. /\ IsRun(message', read')
        /\ message'.kind = "chunk" /\ Upto(message') = read'
    BY <2>1, <2>2, ChunkIsRun DEF TypeOK
  <2>4. message' # Complete
    BY <2>3 DEF Complete
  <2> QED
    BY <1>2, <2>1, <2>2, <2>3, <2>4 DEF ReadChunk, TypeOK
<1>3. CASE ReadEnds \/ ReadFails \/ FindTrailingData
  BY <1>3 DEF ReadEnds, ReadFails, FindTrailingData, FailInput, TypeOK
<1>4. CASE FindEndOfInput
  <2>1. IsRun(message', read') /\ message'.kind # "chunk"
    BY <1>4 DEF FindEndOfInput, IsRun, Complete
  <2> QED
    BY <1>4, <2>1 DEF FindEndOfInput, TypeOK
<1>5. CASE TakeResultFirst \/ AwaitResult
  <2>1. ReceivedResult \notin InputErrors
    BY <1>5 DEF TakeResultFirst, AwaitResult, ReceivedResult, ResultReady, OutcomeInv, Refusals, Rejections
  <2> QED
    BY <1>5, <2>1 DEF TakeResultFirst, AwaitResult, Return, TypeOK
<1>6. CASE Send
  BY <1>6 DEF Send, NextInput, TypeOK
<1>7. CASE SendRefused \/ AwaitAfterInputError \/ Abandon
  BY <1>7 DEF SendRefused, AwaitAfterInputError, Return, Abandon
<1>8. CASE Engine \/ Lose \/ Terminated \/ UNCHANGED vars
  BY <1>8, EngineKeepsEndpoint
<1> QED
  BY <1>1, <1>2, <1>3, <1>4, <1>5, <1>6, <1>7, <1>8 DEF Next, Source, Endpoint

----------------------------------------------------------------------------
(* The channel.                                                            *)

\* Once nothing more is sent, the end of the channel no longer matters.
LEMMA CloseChannel ==
    ASSUME NEW ch \in Seq(Messages), NEW end, NEW u, NEW v, NEW p, NEW q, q \notin Sending,
           NEW len
    PROVE  /\ Contiguous(ch, end, u, p) => Contiguous(ch, end, v, q)
           /\ Joined(ch, end, u, p, len) => Joined(ch, end, v, q, len)
<1>1. Len(ch) \in Nat /\ (ch # <<>> => 1 <= Len(ch))
  BY EmptySeq, LenProperties
<1>2. Joined(ch, end, u, p, len) => Joined(ch, end, v, q, len)
  BY <1>1 DEF Joined, Edge
<1>3. Contiguous(ch, end, u, p) => Contiguous(ch, end, v, q)
  BY <1>1 DEF Contiguous, Edge
<1> QED
  BY <1>2, <1>3

\* Reading on does not change the chunks in the channel.
LEMMA ReadOn ==
    ASSUME NEW ch \in Seq(Messages), NEW end \in Nat, NEW next \in Nat, end <= next,
           NEW u, NEW p, NEW len, \A i \in 1..Len(ch) : ch[i].kind = "chunk"
    PROVE  /\ Contiguous(ch, end, u, p) => Contiguous(ch, next, u, p)
           /\ Joined(ch, end, u, p, len) => Joined(ch, next, u, p, len)
<1>1. Len(ch) \in Nat /\ (ch # <<>> => 1 <= Len(ch))
  BY EmptySeq, LenProperties
<1>2. \A i \in 1..Len(ch) : Edge(ch, i, next, u) = Edge(ch, i, end, u)
  BY DEF Edge, Place
<1>3. \A i : ~(i <= Len(ch)) => Edge(ch, i, next, u) = Edge(ch, i, end, u)
  BY DEF Edge
<1>4. ASSUME NEW i \in 1..Len(ch), IsRun(ch[i], end)
      PROVE  IsRun(ch[i], next)
  <2>1. ch[i].bytes \in Seq(Nat)
    <3>1. ch[i] \in Messages
      BY ElementOfSeq
    <3> QED
      BY <3>1 DEF Messages
  <2>2. From(ch[i]) \in Nat /\ Len(ch[i].bytes) \in Nat
    BY <1>4, <2>1, LenProperties DEF IsRun
  <2> QED
    BY <1>4, <2>2 DEF IsRun, Upto
<1>5. Joined(ch, end, u, p, len) => Joined(ch, next, u, p, len)
  BY <1>1, <1>2, <1>3 DEF Joined
<1>6. Contiguous(ch, end, u, p) => Contiguous(ch, next, u, p)
  <2>1. ASSUME NEW i \in 1..Len(ch)
        PROVE  Edge(ch, i + 1, next, u) = Edge(ch, i + 1, end, u)
    BY <1>1, <1>2, <1>3
  <2> QED
    BY <1>4, <2>1 DEF Contiguous
<1> QED
  BY <1>5, <1>6

\* A message that begins where the channel ends can be appended to it.
LEMMA AppendToChannel ==
    ASSUME NEW ch \in Seq(Messages), NEW end, NEW u, NEW len, NEW m \in Messages,
           NEW p \in Sending, NEW q,
           Contiguous(ch, end, u, p), Place(m, end) = u,
           IsRun(m, end), m.kind = "chunk" => Upto(m) = end
    PROVE  /\ Contiguous(Append(ch, m), end, end, q)
           /\ Joined(ch, end, u, p, len) => Joined(Append(ch, m), end, end, q, len)
<1> DEFINE new == Append(ch, m)
<1>1. /\ Len(ch) \in Nat /\ Len(new) = Len(ch) + 1 /\ new # <<>>
      /\ \A i \in 1..Len(ch) : new[i] = ch[i]
      /\ new[Len(ch) + 1] = m
  BY AppendProperties, LenProperties
<1> HIDE DEF new
<1>2. \A i \in 1..Len(ch) + 1 : Edge(new, i, end, end) = Edge(ch, i, end, u)
  BY <1>1 DEF Edge
<1>3. Edge(new, Len(ch) + 2, end, end) = end
  BY <1>1 DEF Edge
<1>4. ASSUME NEW i \in 1..Len(new)
      PROVE  IsRun(new[i], end) /\ (new[i].kind = "chunk" => Upto(new[i]) = Edge(new, i + 1, end, end))
  <2>1. CASE i = Len(ch) + 1
    BY <1>1, <1>3, <2>1
  <2>2. CASE i \in 1..Len(ch)
    <3>1. i + 1 \in 1..Len(ch) + 1
      BY <1>1, <2>2
    <3> QED
      BY <1>1, <1>2, <2>2, <3>1 DEF Contiguous
  <2> QED
    BY <1>1, <2>1, <2>2
<1>5. Contiguous(new, end, end, q)
  BY <1>4 DEF Contiguous
<1>6. Joined(ch, end, u, p, len) => Joined(new, end, end, q, len)
  BY <1>1, <1>2 DEF Joined
<1> QED
  BY <1>5, <1>6 DEF new

\* Taking the first message leaves a channel that begins where it ends.
LEMMA TakeFromChannel ==
    ASSUME NEW ch \in Seq(Messages), ch # <<>>, NEW end, NEW u, NEW p, NEW len \in Nat,
           Contiguous(ch, end, u, p)
    PROVE  /\ Contiguous(Tail(ch), end, u, p)
           /\ Head(ch).kind = "chunk" /\ Joined(ch, end, u, p, len) =>
                  /\ From(Head(ch)) = len
                  /\ Joined(Tail(ch), end, u, p, len + Len(Head(ch).bytes))
<1> DEFINE rest == Tail(ch)
<1>1. /\ Len(ch) \in Nat \ {0} /\ Len(rest) = Len(ch) - 1 /\ rest \in Seq(Messages)
      /\ \A i \in 1..Len(rest) : rest[i] = ch[i + 1]
  BY HeadTailProperties, EmptySeq
<1>2. Head(ch) = ch[1]
  OBVIOUS
<1>3. rest # <<>> => Len(ch) > 1
  BY <1>1, EmptySeq
<1> HIDE DEF rest
<1>4. \A i \in 1..Len(ch) : Edge(rest, i, end, u) = Edge(ch, i + 1, end, u)
  BY <1>1 DEF Edge
<1>5. ASSUME NEW i \in 1..Len(rest)
      PROVE  /\ IsRun(rest[i], end)
             /\ rest[i].kind = "chunk" /\ (i < Len(rest) \/ p \in Sending) => Upto(rest[i]) = Edge(rest, i + 1, end, u)
  <2>1. i + 1 \in 1..Len(ch) /\ (i < Len(rest) => i + 1 < Len(ch))
    BY <1>1
  <2> QED
    BY <1>1, <1>4, <2>1 DEF Contiguous
<1>6. Contiguous(rest, end, u, p)
  BY <1>5 DEF Contiguous
<1>7. ASSUME Head(ch).kind = "chunk", Joined(ch, end, u, p, len)
      PROVE  From(Head(ch)) = len /\ Joined(rest, end, u, p, len + Len(Head(ch).bytes))
  <2>1. From(Head(ch)) = len
    BY <1>1, <1>2, <1>7 DEF Joined, Edge, Place
  <2>2. Upto(Head(ch)) = len + Len(Head(ch).bytes)
    BY <2>1 DEF Upto
  <2>3. rest # <<>> \/ p \in Sending => Upto(Head(ch)) = Edge(ch, 2, end, u)
    BY <1>1, <1>2, <1>3, <1>7 DEF Contiguous
  <2>4. Edge(rest, 1, end, u) = Edge(ch, 2, end, u)
    BY <1>1, <1>4
  <2> QED
    BY <2>1, <2>2, <2>3, <2>4 DEF Joined
<1> QED
  BY <1>6, <1>7 DEF rest

----------------------------------------------------------------------------
(* The bytes between source and staging file.                              *)

\* An endpoint that stops sending leaves the channel as it is.
LEMMA StopSending ==
    ASSUME TypeOK, DataInv, pc' \notin Sending, UNCHANGED <<declared, read, chunks, staged, stage, marked>>
    PROVE  DataInv'
<1>1. /\ Contiguous(chunks, read, Unsent', pc')
      /\ stage \in Feeding => Joined(chunks, read, Unsent', pc', Len(staged))
  BY CloseChannel DEF DataInv, TypeOK
<1> QED
  BY <1>1 DEF DataInv, MarkerLast

\* An endpoint that goes on sending from where it was leaves the channel as it is.
LEMMA GoOnSending ==
    ASSUME TypeOK, SourceInv, DataInv, pc \in Sending, pc' \in Sending, Unsent' = Unsent,
           read' \in Nat, read <= read', stage' \in Feeding <=> stage \in Feeding, stage' # "committing",
           UNCHANGED <<declared, chunks, staged, marked>>
    PROVE  DataInv'
<1>1. ~marked
  BY DEF SourceInv, Sending, Left
<1>2. \A i \in 1..Len(chunks) : chunks[i].kind = "chunk"
  <2>1. \A i \in 1..Len(chunks) : chunks[i] \in Messages
    BY ElementOfSeq DEF TypeOK
  <2> QED
    BY <1>1, <2>1 DEF DataInv, MarkerLast, Messages
<1>3. /\ Contiguous(chunks, read', Unsent, pc)
      /\ stage \in Feeding => Joined(chunks, read', Unsent, pc, Len(staged))
  <2>1. read \in Nat /\ chunks \in Seq(Messages)
    BY DEF TypeOK
  <2>2. Contiguous(chunks, read, Unsent, pc)
    BY DEF DataInv
  <2>3. stage \in Feeding => Joined(chunks, read, Unsent, pc, Len(staged))
    BY DEF DataInv
  <2> QED
    BY <1>2, <2>1, <2>2, <2>3, ReadOn
<1>4. /\ Contiguous(chunks', read', Unsent', pc')
      /\ stage' \in Feeding => Joined(chunks', read', Unsent', pc', Len(staged'))
  BY <1>3 DEF Contiguous, Joined
<1> QED
  BY <1>1, <1>4 DEF DataInv, MarkerLast

\* A message sent continues the channel; the marker closes it.
LEMMA SendKeepsData ==
    ASSUME TypeOK, TypeOK', SourceInv, DataInv, Send
    PROVE  DataInv'
<1>1. /\ pc \in Sending /\ Unsent = Place(message, read)
      /\ UNCHANGED <<declared, read, staged, stage>>
      /\ chunks' = Append(chunks, message)
      /\ marked' = (message = Complete)
      /\ IF marked' THEN pc' \notin Sending ELSE pc' \in Sending /\ Unsent' = read
  BY DEF Send, Unsent, Sending, NextInput, inputs, worker
<1>2. ~marked
  BY <1>1 DEF SourceInv, Sending, Left
<1>3. IsRun(message, read) /\ (message.kind = "chunk" => Upto(message) = read)
  BY DEF SourceInv, Send
<1>4. message = Complete <=> message.kind = "complete"
  BY <1>3 DEF IsRun, Complete
<1>5. /\ \A q : Contiguous(chunks', read, read, q)
      /\ stage \in Feeding => \A q : Joined(chunks', read, read, q, Len(staged))
  <2>1. chunks \in Seq(Messages) /\ message \in Messages
    BY DEF TypeOK
  <2>2. Contiguous(chunks, read, Unsent, pc)
    BY <1>1 DEF DataInv
  <2>3. stage \in Feeding => Joined(chunks, read, Unsent, pc, Len(staged))
    BY <1>1 DEF DataInv
  <2> QED
    BY <1>1, <1>3, <2>1, <2>2, <2>3, AppendToChannel
<1>6. /\ Contiguous(chunks', read', Unsent', pc')
      /\ stage' \in Feeding => Joined(chunks', read', Unsent', pc', Len(staged'))
  <2>1. CASE marked'
    BY <1>1, <1>5, <2>1, CloseChannel DEF TypeOK
  <2>2. CASE ~marked'
    BY <1>1, <1>5, <2>2
  <2> QED
    BY <2>1, <2>2
<1>7. MarkerLast(chunks)'
  <2>1. /\ Len(chunks) \in Nat /\ Len(chunks') = Len(chunks) + 1 /\ chunks' # <<>>
        /\ \A i \in 1..Len(chunks) : chunks'[i] = chunks[i]
        /\ chunks'[Len(chunks) + 1] = message
    BY <1>1, AppendProperties, LenProperties DEF TypeOK
  <2>2. \A i \in 1..Len(chunks) : chunks[i].kind # "complete"
    BY <1>2 DEF DataInv, MarkerLast
  <2>3. ASSUME NEW i \in 1..Len(chunks'), chunks'[i].kind = "complete"
        PROVE  marked' /\ i = Len(chunks')
    <3>1. i \notin 1..Len(chunks)
      BY <2>1, <2>2, <2>3
    <3>2. i = Len(chunks) + 1
      BY <2>1, <3>1
    <3> QED
      BY <1>1, <1>4, <2>1, <2>3, <3>2
  <2> QED
    BY <1>1, <1>4, <2>1, <2>3 DEF MarkerLast
<1>8. stage # "committing"
  BY <1>2 DEF DataInv
<1> QED
  BY <1>1, <1>6, <1>7, <1>8 DEF DataInv

\* The job takes a chunk that continues the staging file.
LEMMA ReceiveKeepsData ==
    ASSUME TypeOK, SourceInv, DataInv, ReceiveChunk
    PROVE  DataInv' /\ Fits(Head(chunks).bytes)
<1> DEFINE bytes == Head(chunks).bytes  len == Len(staged)
<1>1. /\ chunks \in Seq(Messages) /\ chunks # <<>> /\ Head(chunks).kind = "chunk"
      /\ chunks' = Tail(chunks) /\ stage = "receiving"
      /\ UNCHANGED <<declared, read, message, pc, marked>>
  BY DEF ReceiveChunk, Receiving, Finish, TypeOK, inputs, endpoint
<1>2. staged \in Seq(Nat) /\ len \in Nat
  BY LenProperties DEF TypeOK
<1>3. Head(chunks) = chunks[1] /\ Len(chunks) \in Nat \ {0} /\ Head(chunks) \in Messages
  BY <1>1, HeadTailProperties, EmptySeq
<1>4. bytes \in Seq(Nat) /\ Len(bytes) \in Nat
  BY <1>3, LenProperties DEF Messages
<1>5. /\ Contiguous(chunks, read, Unsent, pc)
      /\ Joined(chunks, read, Unsent, pc, len)
  BY <1>1 DEF DataInv, Feeding
<1>6. /\ Contiguous(Tail(chunks), read, Unsent, pc)
      /\ From(Head(chunks)) = len
      /\ Joined(Tail(chunks), read, Unsent, pc, len + Len(bytes))
  BY <1>1, <1>2, <1>5, TakeFromChannel
<1>7. bytes = Bytes(len, Len(bytes)) /\ len + Len(bytes) <= read
  <2>1. IsRun(Head(chunks), read)
    BY <1>3, <1>5 DEF Contiguous
  <2> QED
    BY <1>1, <1>6, <2>1 DEF IsRun, Upto
<1> HIDE DEF bytes, len
<1>8. Fits(bytes)
  BY <1>2, <1>4, <1>7, LimitsAssumption DEF Fits, SourceInv, TypeOK, len
<1>9. /\ Unsent' = Unsent
      /\ Contiguous(chunks', read', Unsent', pc')
  BY <1>1, <1>6 DEF Unsent
<1>10. /\ Len(chunks') = Len(chunks) - 1 /\ chunks' \in Seq(Messages)
       /\ \A i \in 1..Len(chunks') : chunks'[i] = chunks[i + 1]
  BY <1>1, HeadTailProperties
<1>11. MarkerLast(chunks)'
  <2>1. ASSUME NEW i \in 1..Len(chunks'), chunks'[i].kind = "complete"
        PROVE  marked' /\ i = Len(chunks')
    <3>1. i + 1 \in 1..Len(chunks) /\ chunks[i + 1].kind = "complete"
      BY <1>3, <1>10, <2>1
    <3>2. marked /\ i + 1 = Len(chunks)
      BY <3>1 DEF DataInv, MarkerLast
    <3>3. i = Len(chunks')
      BY <1>3, <1>10, <3>2
    <3> QED
      BY <1>1, <3>2, <3>3
  <2>2. ASSUME marked', stage' \in Feeding
        PROVE  chunks' # <<>> /\ chunks'[Len(chunks')].kind = "complete"
    <3>1. chunks[Len(chunks)].kind = "complete"
      BY <1>1, <2>2 DEF DataInv, MarkerLast, Feeding
    <3>2. Len(chunks) # 1
      BY <1>1, <1>3, <3>1
    <3>3. Len(chunks') \in 1..Len(chunks') /\ Len(chunks') + 1 = Len(chunks)
      BY <1>3, <1>10, <3>2
    <3>4. chunks' # <<>>
      BY <3>3
    <3> QED
      BY <1>10, <3>1, <3>3, <3>4
  <2> QED
    BY <2>1, <2>2 DEF MarkerLast
<1>12. /\ staged' = Bytes(0, Len(staged'))
       /\ stage' \in Feeding => Joined(chunks, read, Unsent, pc, Len(staged))'
       /\ stage' # "committing"
  <2>1. CASE staged' = staged \o bytes /\ stage' = stage
    <3>1. staged = Bytes(0, len)
      BY DEF DataInv, len
    <3>2. staged' = Bytes(0, len + Len(bytes))
      <4>1. Bytes(0, len) \o Bytes(0 + len, Len(bytes)) = Bytes(0, len + Len(bytes))
        BY <1>2, <1>4, BytesConcat
      <4>2. 0 + len = len
        BY <1>2
      <4> QED
        BY <1>7, <2>1, <3>1, <4>1, <4>2
    <3>3. len + Len(bytes) \in Nat /\ Len(staged') = len + Len(bytes)
      BY <1>2, <1>4, <3>2, BytesSeq
    <3> QED
      BY <1>1, <1>6, <1>9, <2>1, <3>2, <3>3
  <2>2. CASE staged' = staged /\ stage' = "finished"
    BY <2>2 DEF DataInv, Feeding
  <2>3. \/ staged' = staged \o bytes /\ stage' = stage
        \/ staged' = staged /\ stage' = "finished"
    BY DEF ReceiveChunk, Finish, bytes
  <2> QED
    BY <2>1, <2>2, <2>3
<1> QED
  BY <1>8, <1>9, <1>11, <1>12 DEF DataInv, bytes

\* The job takes the marker exactly when the staging file is complete.
LEMMA CompleteKeepsData ==
    ASSUME TypeOK, SourceInv, DataInv, ReceiveComplete
    PROVE  DataInv' /\ Len(staged) = declared /\ marked
<1>1. /\ chunks \in Seq(Messages) /\ chunks # <<>> /\ Head(chunks).kind = "complete"
      /\ chunks' = Tail(chunks) /\ stage = "receiving" /\ stage' \in {"committing", "finished"}
      /\ UNCHANGED <<declared, read, message, pc, marked, staged>>
  BY DEF ReceiveComplete, Receiving, Finish, TypeOK, inputs, endpoint
<1>2. Head(chunks) = chunks[1] /\ Len(chunks) \in Nat \ {0}
  BY <1>1, EmptySeq
<1>3. marked /\ Len(chunks) = 1
  <2>1. 1 \in 1..Len(chunks)
    BY <1>2
  <2> QED
    BY <1>1, <1>2, <2>1 DEF DataInv, MarkerLast
<1>4. Len(chunks') = 0
  BY <1>1, <1>3, HeadTailProperties
<1>5. Contiguous(chunks', read', Unsent', pc') /\ MarkerLast(chunks)'
  BY <1>1, <1>4 DEF Contiguous, MarkerLast, Feeding
<1>6. Len(staged) = read
  BY <1>1, <1>2 DEF DataInv, Joined, Edge, Place, Feeding
<1>7. read = declared
  BY <1>3 DEF SourceInv
<1> QED
  BY <1>1, <1>3, <1>5, <1>6, <1>7 DEF DataInv, Feeding

\* Every step keeps source, channel and staging file in line.
LEMMA DataStep ==
    ASSUME TypeOK, TypeOK', SourceInv, DataInv, OutcomeInv, [Next]_vars
    PROVE  DataInv'
<1> USE DEF inputs, endpoint, worker
<1>1. CASE \/ RefuseStart \/ ReadEnds \/ ReadFails \/ FindTrailingData \/ TakeResultFirst
           \/ SendRefused \/ AwaitResult \/ AwaitAfterInputError \/ Abandon
  <2>1. pc' \notin Sending /\ UNCHANGED <<declared, read, chunks, staged, stage, marked>>
    BY <1>1 DEF RefuseStart, ReadEnds, ReadFails, FindTrailingData, FailInput, TakeResultFirst, SendRefused,
         AwaitResult, AwaitAfterInputError, Abandon, Return, Sending
  <2> QED
    BY <2>1, StopSending
<1>2. CASE StartSaveStream
  <2>1. /\ pc \in Sending /\ pc' \in Sending /\ Unsent' = Unsent /\ read' = read
        /\ stage = "new" /\ stage' = "queued" /\ UNCHANGED <<declared, chunks, staged, marked>>
    BY <1>2 DEF StartSaveStream, Sending, Unsent, NextInput, OutcomeInv
  <2> QED
    BY <2>1, GoOnSending DEF Feeding, TypeOK
<1>3. CASE ReadChunk
  <2>1. PICK count \in 1..Requested :
            /\ read' = read + count
            /\ message' = Chunk(Bytes(read, count))
    BY <1>3 DEF ReadChunk
  <2>2. count \in Nat \ {0} /\ read \in Nat
    BY <2>1, LimitsAssumption DEF Requested, TypeOK
  <2>3. Unsent = read /\ Unsent' = read
    BY <1>3, <2>1, <2>2, ChunkIsRun DEF ReadChunk, Unsent, Place
  <2>4. /\ pc \in Sending /\ pc' \in Sending
        /\ UNCHANGED <<declared, chunks, staged, stage, marked>>
    BY <1>3 DEF ReadChunk, Sending
  <2>5. stage # "committing"
    BY <2>4 DEF DataInv, SourceInv, Sending, Left
  <2> QED
    BY <2>1, <2>2, <2>3, <2>4, <2>5, GoOnSending
<1>4. CASE FindEndOfInput
  <2>1. /\ pc \in Sending /\ pc' \in Sending /\ Unsent' = Unsent /\ read' = read
        /\ UNCHANGED <<declared, chunks, staged, stage, marked>>
    BY <1>4 DEF FindEndOfInput, Sending, Unsent, Place, Complete
  <2>2. stage # "committing"
    BY <2>1 DEF DataInv, SourceInv, Sending, Left
  <2> QED
    BY <2>1, <2>2, GoOnSending DEF TypeOK
<1>5. CASE Send
  BY <1>5, SendKeepsData
<1>6. CASE ReceiveChunk
  BY <1>6, ReceiveKeepsData
<1>7. CASE ReceiveComplete
  BY <1>7, CompleteKeepsData
<1>8. CASE \/ Dispatch \/ Reject \/ OpenStaging \/ ReceiveDisconnected \/ Commit \/ Deliver
           \/ DropReceiver \/ DropResult \/ Lose \/ Terminated \/ UNCHANGED vars
  <2>1. UNCHANGED <<declared, pc, read, message, marked>>
    BY <1>8, EngineKeepsEndpoint DEF Engine
  <2>2. UNCHANGED <<chunks, staged>>
    BY <1>8 DEF Dispatch, Reject, OpenStaging, ReceiveDisconnected, Commit, Deliver, DropReceiver, DropResult,
         Lose, Terminated, vars, Finish
  <2>3. /\ stage' \in Feeding => stage \in Feeding
        /\ stage' = "committing" => stage = "committing"
    BY <1>8 DEF Dispatch, Reject, OpenStaging, ReceiveDisconnected, Commit, Deliver, DropReceiver, DropResult,
         Lose, Terminated, vars, Finish, Feeding
  <2>4. Unsent' = Unsent
    BY <2>1 DEF Unsent
  <2> QED
    BY <2>1, <2>2, <2>3, <2>4 DEF DataInv, MarkerLast
<1> QED
  BY <1>1, <1>2, <1>3, <1>4, <1>5, <1>6, <1>7, <1>8 DEF Next, Source, Endpoint, Engine

----------------------------------------------------------------------------
(* Outcomes and answers.                                                   *)

\* Every step keeps outcome, result and answer truthful about the blob.
LEMMA OutcomeStep ==
    ASSUME TypeOK, SourceInv, DataInv, OutcomeInv, [Next]_vars
    PROVE  OutcomeInv'
<1> USE DEF OutcomeInv, Left, inputs, endpoint, worker
<1>1. CASE RefuseStart
  BY <1>1 DEF RefuseStart, Return, Refusals, Rejections, Tells, CommittedIsWholeInput, Feeding, CommitErrors
<1>2. CASE StartSaveStream
  BY <1>2 DEF StartSaveStream, Tells, CommittedIsWholeInput, Feeding, NextInput
<1>3. CASE ReadChunk \/ ReadEnds \/ ReadFails \/ FindTrailingData \/ FindEndOfInput
  <2>1. /\ pc \notin {"start", "draining"} \cup Left /\ pc' \in {"sending", "draining"}
        /\ UNCHANGED <<declared, input, marked, stage, blob, outcome, result>>
    BY <1>3 DEF ReadChunk, ReadEnds, ReadFails, FindTrailingData, FindEndOfInput, FailInput
  <2> QED
    BY <2>1 DEF Tells, CommittedIsWholeInput
<1>4. CASE TakeResultFirst \/ AwaitResult
  <2>1. /\ pc \notin {"start", "draining"} \cup Left /\ pc' = "returned" /\ result # "pending"
        /\ answer' = ReceivedResult
        /\ UNCHANGED <<declared, input, marked, stage, blob, outcome, result>>
    BY <1>4 DEF TakeResultFirst, AwaitResult, Return, ResultReady
  <2>2. ReceivedResult # "StreamCancelled"
    BY <2>1 DEF ReceivedResult, Refusals, Rejections
  <2>3. stage = "dropping" /\ ReceivedResult # "none" /\ Tells(ReceivedResult)
    BY <2>1 DEF ReceivedResult, Refusals, Rejections, Tells
  <2> QED
    BY <2>1, <2>2, <2>3 DEF Tells, CommittedIsWholeInput
<1>5. CASE Send \/ SendRefused
  BY <1>5 DEF SourceInv, Send, SendRefused, NextInput, Tells, CommittedIsWholeInput
<1>6. CASE AwaitAfterInputError
  <2>1. answer \in InputErrors /\ ~marked
    BY <1>6 DEF AwaitAfterInputError, SourceInv
  <2> QED
    BY <1>6, <2>1 DEF AwaitAfterInputError, Return, ResultReady, Tells, CommittedIsWholeInput, InputErrors,
         CommitErrors
<1>7. CASE Abandon
  BY <1>7 DEF Abandon, Tells, CommittedIsWholeInput
<1>8. CASE Dispatch \/ Lose \/ DropReceiver \/ DropResult
  BY <1>8 DEF Dispatch, Lose, DropReceiver, DropResult, Tells, CommittedIsWholeInput, Feeding
<1>9. CASE Reject
  BY <1>9 DEF Reject, Tells, CommittedIsWholeInput, Feeding, Refusals, Rejections, CommitErrors
<1>10. CASE OpenStaging
  <2>1. ~(declared > Maximum)
    BY <1>10, LimitsAssumption DEF OpenStaging, TypeOK
  <2> QED
    BY <1>10, <2>1 DEF OpenStaging, Finish, Tells, CommittedIsWholeInput, Feeding
<1>11. CASE ReceiveChunk
  BY <1>11, ReceiveKeepsData DEF ReceiveChunk, Receiving, Finish, Tells, CommittedIsWholeInput, Feeding
<1>12. CASE ReceiveComplete
  BY <1>12, CompleteKeepsData DEF ReceiveComplete, Receiving, Finish, Tells, CommittedIsWholeInput, Feeding
<1>13. CASE ReceiveDisconnected
  <2>1. ~marked /\ pc \in {"draining"} \cup Left
    BY <1>13 DEF ReceiveDisconnected, Disconnected, DataInv, MarkerLast, Feeding, SourceInv
  <2> QED
    BY <1>13, <2>1 DEF ReceiveDisconnected, Disconnected, Finish, Tells, CommittedIsWholeInput, Feeding
<1>14. CASE Commit
  <2>1. marked /\ staged = Bytes(0, declared) /\ input = declared
    BY <1>14 DEF Commit, DataInv, SourceInv
  <2>2. staged # Old
    BY OldAssumption DEF TypeOK
  <2>3. stage = "committing" /\ result = "pending" /\ pc \notin {"returned"}
    BY <1>14 DEF Commit
  <2>4. /\ stage' = "finished" /\ outcome' \in {"Ok"} \cup CommitErrors
        /\ UNCHANGED <<declared, input, marked, pc, answer, result>>
    BY <1>14 DEF Commit, Finish, CommitErrors
  <2>5. /\ blob' \in {Old, staged}
        /\ outcome' \in {"Ok", "SyncNamespaceDirectory"} => blob' = staged
    BY <1>14, <2>3 DEF Commit, Finish
  <2>6. CommittedIsWholeInput' /\ Tells(outcome)' /\ Tells(result)'
    BY <2>1, <2>2, <2>3, <2>4, <2>5 DEF CommittedIsWholeInput, Tells
  <2> QED
    BY <2>3, <2>4, <2>6 DEF Feeding, CommitErrors
<1>15. CASE Deliver
  BY <1>15 DEF Deliver, Tells, CommittedIsWholeInput, Feeding
<1>16. CASE Terminated \/ UNCHANGED vars
  BY <1>16 DEF Terminated, vars, Tells, CommittedIsWholeInput
<1> QED
  BY <1>1, <1>2, <1>3, <1>4, <1>5, <1>6, <1>7, <1>8, <1>9, <1>10, <1>11, <1>12, <1>13, <1>14, <1>15, <1>16
     DEF Next, Source, Endpoint, Engine

\* A save starts with nothing read, sent or staged.
LEMMA InitInv == Init => IInv
<1> SUFFICES ASSUME Init PROVE IInv
  OBVIOUS
<1>1. Complete \in Messages /\ chunks \in Seq(Messages) /\ staged \in Seq(Nat)
  BY DEF Init, Complete, Messages
<1>2. TypeOK
  <2>1. facade \in {"blocking", "tokio"} /\ declared \in 0..Word /\ input \in Nat
    BY FacadesAssumption, LimitsAssumption DEF Init
  <2> QED
    BY <1>1, <2>1 DEF Init, TypeOK, PCs, Stages
<1>3. SourceInv
  BY <1>2 DEF Init, SourceInv, Left, TypeOK
<1>4. staged = Bytes(0, Len(staged))
  <2>1. Bytes(0, 0) \in Seq(Nat) /\ Len(Bytes(0, 0)) = 0
    BY BytesSeq
  <2> QED
    BY <2>1, EmptySeq DEF Init
<1>5. DataInv
  BY <1>4 DEF Init, DataInv, Contiguous, Joined, MarkerLast, Edge, Unsent, Sending, Feeding
<1>6. OutcomeInv
  BY DEF Init, OutcomeInv, CommittedIsWholeInput, Tells, Left, Feeding
<1> QED
  BY <1>2, <1>3, <1>5, <1>6 DEF IInv

\* The invariant holds throughout a save.
LEMMA Invariance == Spec => []IInv
<1>1. IInv /\ [Next]_vars => IInv'
  BY TypeStep, SourceStep, DataStep, OutcomeStep DEF IInv
<1> QED
  BY <1>1, InitInv, PTL DEF Spec

\* The blob is replaced only by the whole source, of exactly the declared length,
\* and only after the endpoint sent the marker, whenever the caller gives up,
\* whatever fails and however the channel fills (save_from, write_stream_envelope).
THEOREM SaveIsAllOrNothing == Spec => []CommittedIsWholeInput
<1>1. IInv => CommittedIsWholeInput
  BY DEF IInv, OutcomeInv
<1> QED
  BY <1>1, Invariance, PTL

\* A caller that gets an answer from save_from can tell from it what became of
\* the blob, and the job has ended by then.
THEOREM SaveAnswersAreTrue == Spec => []AnswerTellsOutcome
<1>1. IInv => AnswerTellsOutcome
  BY DEF IInv, OutcomeInv, AnswerTellsOutcome, Tells, TypeOK, Answers, Outcomes, InputErrors, CommitErrors,
     Refusals, Rejections
<1> QED
  BY <1>1, Invariance, PTL

\* The worker's length checks never fire, no caller hears that its own save was
\* cancelled, and an input error names what the endpoint saw.
THEOREM SaveErrorsNameTheCause == Spec => []ErrorsNameTheCause
<1>1. IInv => ErrorsNameTheCause
  BY DEF IInv, SourceInv, OutcomeInv, ErrorsNameTheCause
<1> QED
  BY <1>1, Invariance, PTL
=============================================================================
