-------------------------- MODULE LoadStreamProofs --------------------------
(***************************************************************************)
(* Proofs about module LoadStream, for any channel capacity, chunk size    *)
(* and payload.                                                            *)
(***************************************************************************)
EXTENDS LoadStream, SequenceTheorems, TLAPS

----------------------------------------------------------------------------
(* The bytes of a stream.                                                  *)

\* Bytes(from, count) is a sequence of count bytes.
LEMMA BytesSeq ==
    ASSUME NEW from \in Nat, NEW count \in Nat
    PROVE  /\ Bytes(from, count) \in Seq(Nat)
           /\ Len(Bytes(from, count)) = count
           /\ \A i \in 1..count : Bytes(from, count)[i] = from + i
<1>1. \A i \in 1..count : from + i \in Nat
  OBVIOUS
<1>2. [i \in 1..count |-> from + i] \in Seq(Nat)
  BY <1>1
<1> QED
  BY <1>2 DEF Bytes

\* A run that begins where another one ends continues it.
LEMMA BytesConcat ==
    ASSUME NEW from \in Nat, NEW a \in Nat, NEW b \in Nat
    PROVE  Bytes(from, a) \o Bytes(from + a, b) = Bytes(from, a + b)
<1>1. /\ Bytes(from, a) \in Seq(Nat) /\ Len(Bytes(from, a)) = a
      /\ \A i \in 1..a : Bytes(from, a)[i] = from + i
  BY BytesSeq
<1>2. /\ Bytes(from + a, b) \in Seq(Nat) /\ Len(Bytes(from + a, b)) = b
      /\ \A i \in 1..b : Bytes(from + a, b)[i] = from + a + i
  <2>1. from + a \in Nat
    OBVIOUS
  <2> QED
    BY <2>1, BytesSeq
<1>3. /\ Bytes(from, a + b) \in Seq(Nat) /\ Len(Bytes(from, a + b)) = a + b
      /\ \A i \in 1..a + b : Bytes(from, a + b)[i] = from + i
  <2>1. a + b \in Nat
    OBVIOUS
  <2> QED
    BY <2>1, BytesSeq
<1>4. ASSUME NEW p \in Seq(Nat), NEW q \in Seq(Nat), Len(p) = a, Len(q) = b
      PROVE  /\ p \o q \in Seq(Nat) /\ Len(p \o q) = a + b
             /\ \A i \in 1..a + b : (p \o q)[i] = IF i <= a THEN p[i] ELSE q[i - a]
  BY <1>4, ConcatProperties
<1> DEFINE s == Bytes(from, a) \o Bytes(from + a, b)
<1>5. /\ s \in Seq(Nat) /\ Len(s) = a + b
      /\ \A i \in 1..a + b : s[i] = IF i <= a THEN Bytes(from, a)[i] ELSE Bytes(from + a, b)[i - a]
  BY <1>1, <1>2, <1>4
<1> HIDE DEF s
<1>6. ASSUME NEW i \in 1..a + b
      PROVE  s[i] = Bytes(from, a + b)[i]
  <2>1. Bytes(from, a + b)[i] = from + i
    BY <1>3
  <2>2. s[i] = IF i <= a THEN Bytes(from, a)[i] ELSE Bytes(from + a, b)[i - a]
    BY <1>5
  <2>3. CASE i <= a
    <3>1. Bytes(from, a)[i] = from + i
      BY <1>1, <2>3
    <3> QED
      BY <2>1, <2>2, <2>3, <3>1
  <2>4. CASE ~(i <= a)
    <3>1. i - a \in 1..b
      BY <2>4
    <3>2. Bytes(from + a, b)[i - a] = from + a + (i - a)
      BY <1>2, <3>1
    <3> QED
      BY <2>1, <2>2, <2>4, <3>2
  <2> QED
    BY <2>3, <2>4
<1>7. s = Bytes(from, a + b)
  BY <1>3, <1>5, <1>6, SeqEqual
<1> QED
  BY <1>7 DEF s

\* The first bytes of a run are a shorter run.
LEMMA BytesPrefix ==
    ASSUME NEW from \in Nat, NEW count \in Nat, NEW n \in 0..count
    PROVE  SubSeq(Bytes(from, count), 1, n) = Bytes(from, n)
<1>1. n \in Nat
  OBVIOUS
<1>2. /\ Bytes(from, n) \in Seq(Nat) /\ Len(Bytes(from, n)) = n
      /\ \A i \in 1..n : Bytes(from, n)[i] = from + i
  BY <1>1, BytesSeq
<1>3. \A i \in 1..n : Bytes(from, count)[i] = from + i
  BY BytesSeq
<1>4. ASSUME NEW s, \A i \in 1..n : s[i] = from + i
      PROVE  /\ SubSeq(s, 1, n) \in Seq(Nat) /\ Len(SubSeq(s, 1, n)) = n
             /\ \A i \in 1..n : SubSeq(s, 1, n)[i] = from + i
  <2>1. \A i \in 1..n : s[i] \in Nat
    BY <1>4
  <2>2. /\ SubSeq(s, 1, n) \in Seq(Nat)
        /\ Len(SubSeq(s, 1, n)) = IF 1 <= n THEN n - 1 + 1 ELSE 0
        /\ \A i \in 1..n - 1 + 1 : SubSeq(s, 1, n)[i] = s[1 + i - 1]
    BY <1>1, <2>1, SubSeqProperties
  <2> QED
    BY <1>1, <1>4, <2>2
<1>5. /\ SubSeq(Bytes(from, count), 1, n) \in Seq(Nat)
      /\ Len(SubSeq(Bytes(from, count), 1, n)) = n
      /\ \A i \in 1..n : SubSeq(Bytes(from, count), 1, n)[i] = from + i
  BY <1>3, <1>4
<1> DEFINE s == SubSeq(Bytes(from, count), 1, n)  t == Bytes(from, n)
<1>6. s \in Seq(Nat) /\ t \in Seq(Nat) /\ Len(s) = Len(t) /\ \A i \in 1..Len(s) : s[i] = t[i]
  BY <1>2, <1>5
<1> HIDE DEF s, t
<1>7. s = t
  BY <1>6, SeqEqual
<1> QED
  BY <1>7 DEF s, t

----------------------------------------------------------------------------
(* Invariants.                                                             *)

PCs == {"start", "receiving", "writing", "awaiting", "draining"} \cup Left
Stages == {"new", "queued", "opening", "validating", "reading", "sending", "acknowledging", "finished",
           "dropping"}

TypeOK ==
    /\ file \in Files
    /\ payload \in Nat /\ sent \in Nat
    /\ stage \in Stages
    /\ outgoing \in Seq(Nat) /\ incoming \in Seq(Nat) /\ output \in Seq(Nat)
    /\ chunks \in Seq(Seq(Nat))
    /\ sender \in BOOLEAN /\ receiver \in BOOLEAN /\ ackReceiver \in BOOLEAN
    /\ ack \in {"empty", "sent", "closed"}
    /\ pc \in PCs

----------------------------------------------------------------------------
(* The bytes on their way.  A chunk's place in the payload is read off its *)
(* first byte.                                                             *)

From(c) == c[1] - 1
Upto(c) == From(c) + Len(c)

\* A chunk is a run of consecutive bytes of the payload's first `upto' ones.
IsRun(c, upto) ==
    Len(c) > 0 /\ From(c) \in Nat /\ c = Bytes(From(c), Len(c)) /\ Upto(c) <= upto

\* Where the next chunk to be sent begins, where chunk i begins, and where the
\* next one to be received must begin.
Unsent == IF stage = "sending" THEN From(outgoing) ELSE sent
Edge(ch, i, unsent) == IF i <= Len(ch) THEN From(ch[i]) ELSE unsent
Taken == IF pc = "writing" THEN Upto(incoming) ELSE Len(output)

\* The worker has lost no chunk; the caller has lost none.
Producing == Stages \ {"finished", "dropping"}
Consuming == {"start", "receiving", "writing", "awaiting"}

\* The chunks in the channel follow one another without gap or overlap, up to the
\* next one as long as the worker goes on.
Contiguous(ch, end, unsent, s) ==
    \A i \in 1..Len(ch) :
        /\ IsRun(ch[i], end)
        /\ i < Len(ch) \/ s \in Producing => Upto(ch[i]) = Edge(ch, i + 1, unsent)

\* The caller's output ends where the channel begins.
Joined(ch, unsent, s, taken) ==
    ch # <<>> \/ s \in Producing => taken = Edge(ch, 1, unsent)

\* What the worker has read of a file it has validated.
WorkerInv ==
    /\ sent <= payload
    /\ sent > 0 \/ stage \in {"reading", "sending", "acknowledging"} => file = "valid"
    /\ stage = "sending" => IsRun(outgoing, sent) /\ Upto(outgoing) = sent
    /\ stage = "acknowledging" => sent = payload
    /\ stage \in Producing => ackReceiver /\ (sender \/ stage = "acknowledging")
    /\ stage = "acknowledging" => ~sender
    /\ stage = "new" => pc \in {"start"} \cup Left
    /\ pc = "start" => stage = "new"

DataInv ==
    /\ output = Bytes(0, Len(output)) /\ Len(output) <= sent
    /\ pc = "writing" => IsRun(incoming, sent) /\ From(incoming) = Len(output)
    /\ Contiguous(chunks, sent, Unsent, stage)
    /\ pc \in Consuming => Joined(chunks, Unsent, stage, Taken)

\* Success needs the caller's word, and the caller gives it once, for all of it.
OutcomeInv ==
    /\ pc = "awaiting" => chunks = <<>> /\ ~sender
    /\ ack = "sent" => pc \in {"awaiting"} \cup Left /\ answer # "OutputIo" /\ ~sender
    /\ ack = "sent" /\ stage = "acknowledging" => output = Payload
    /\ ack = "closed" \/ ~receiver => pc \in {"draining"} \cup Left
    /\ outcome = "Some" => ack = "sent" /\ file = "valid" /\ output = Payload
    /\ outcome = "None" => file = "absent"
    /\ outcome = "StreamCancelled" => pc \in {"draining"} \cup Left
    /\ stage \in Producing => outcome = "none"
    /\ outcome \in Outcomes \cup {"none"}
    /\ result # "pending" => stage = "dropping"
    /\ result \in {outcome} \cup Rejections \cup {"pending", "closed"}
    /\ answer = "OutputIo" => pc \in {"draining"} \cup Left
    /\ pc = "draining" => answer = "OutputIo"
    /\ pc = "returned" /\ answer \in Successes => answer = outcome /\ stage = "dropping"
    /\ pc = "returned" => answer # "StreamCancelled"

IInv == TypeOK /\ WorkerInv /\ DataInv /\ OutcomeInv

----------------------------------------------------------------------------
(* Type correctness.                                                       *)

\* The next read asks for a byte or more, and for none past the payload.
LEMMA RequestedRange ==
    ASSUME TypeOK, sent < payload
    PROVE  Requested(payload - sent) \in 1..payload - sent
BY LimitsAssumption DEF Requested, TypeOK

\* Every step keeps the types.
LEMMA TypeStep ==
    ASSUME TypeOK, [Next]_vars
    PROVE  TypeOK'
<1> USE DEF TypeOK, PCs, Stages, Left, blob, job, endpoint
<1>1. CASE Dispatch \/ Reject \/ Lose \/ Deliver \/ DropSender \/ DropAcknowledgement \/ DropResult
  BY ZenonT(60), <1>1 DEF Dispatch, Reject, Lose, Deliver, DropSender, DropAcknowledgement, DropResult
<1>2. CASE OpenBlob \/ ValidateEnvelope \/ SendCancelled \/ EndOfPayload \/ ReceiveAcknowledgement
  BY ZenonT(60), <1>2 DEF OpenBlob, ValidateEnvelope, SendCancelled, EndOfPayload, ReceiveAcknowledgement, Finish,
       Advance
<1>3. CASE ReadPayload
  <2>1. CASE Finish("Io")
    BY <2>1 DEF Finish
  <2>2. CASE /\ outgoing' = Bytes(sent, Requested(payload - sent))
             /\ sent' = sent + Len(outgoing')
             /\ Advance("sending")
             /\ UNCHANGED chunks
    <3>1. Requested(payload - sent) \in Nat
      BY <1>3, RequestedRange DEF ReadPayload
    <3>2. outgoing' \in Seq(Nat) /\ Len(outgoing') \in Nat
      BY <2>2, <3>1, BytesSeq
    <3>3. sent' \in Nat
      BY <2>2, <3>2
    <3> QED
      BY <2>2, <3>2, <3>3 DEF Advance
  <2> QED
    BY <1>3, <2>1, <2>2 DEF ReadPayload
<1>4. CASE SendChunk
  <2>1. chunks' \in Seq(Seq(Nat))
    BY <1>4, AppendProperties DEF SendChunk
  <2> QED
    BY <1>4, <2>1 DEF SendChunk, Advance
<1>5. CASE RefuseStart \/ StartLoadStream \/ Acknowledge \/ AwaitResult \/ AwaitAfterOutputError \/ Abandon
  BY ZenonT(60), <1>5 DEF RefuseStart, StartLoadStream, Acknowledge, AwaitResult, AwaitAfterOutputError, Abandon,
       Return, HangUp
<1>6. CASE ReceiveChunk
  <2>1. incoming' \in Seq(Nat) /\ chunks' \in Seq(Seq(Nat))
    BY <1>6, HeadTailProperties DEF ReceiveChunk
  <2> QED
    BY <1>6, <2>1 DEF ReceiveChunk
<1>7. CASE WriteChunk
  BY <1>7 DEF WriteChunk
<1>8. CASE WriteFails
  <2>1. PICK n \in 0..Len(incoming) - 1 : output' = output \o SubSeq(incoming, 1, n)
    BY <1>8 DEF WriteFails
  <2>2. SubSeq(incoming, 1, n) \in Seq(Nat)
    BY LenProperties
  <2>3. output' \in Seq(Nat)
    BY <2>1, <2>2
  <2> QED
    BY <1>8, <2>3 DEF WriteFails, HangUp
<1>9. CASE Terminated \/ UNCHANGED vars
  BY <1>9 DEF Terminated, vars
<1> QED
  BY <1>1, <1>2, <1>3, <1>4, <1>5, <1>6, <1>7, <1>8, <1>9 DEF Next, Engine, Endpoint, Sink

----------------------------------------------------------------------------
(* The worker and its file.                                                *)

\* The caller's endpoint leaves the worker alone, but for starting the job.
LEMMA EndpointKeepsWorker ==
    ASSUME Endpoint \/ Sink \/ Abandon \/ Terminated \/ UNCHANGED vars
    PROVE  /\ UNCHANGED <<file, payload, sent, outgoing, outcome, sender, ackReceiver, result>>
           /\ stage' = stage \/ (StartLoadStream /\ stage' = "queued")
BY DEF Endpoint, Sink, RefuseStart, StartLoadStream, ReceiveChunk, Acknowledge, AwaitResult,
   AwaitAfterOutputError, WriteChunk, WriteFails, Abandon, Return, Terminated, vars, blob, job, endpoint

\* A chunk just read is the run of bytes behind the ones read before.
LEMMA ChunkIsRun ==
    ASSUME NEW from \in Nat, NEW count \in Nat \ {0}
    PROVE  LET c == Bytes(from, count) IN
           IsRun(c, from + count) /\ From(c) = from /\ Upto(c) = from + count
<1> DEFINE c == Bytes(from, count)
<1>1. Len(c) = count /\ c[1] = from + 1
  BY BytesSeq
<1>2. c = Bytes(from, Len(c))
  BY <1>1
<1> HIDE DEF c
<1>3. From(c) = from /\ Upto(c) = from + count
  BY <1>1 DEF From, Upto
<1>4. IsRun(c, from + count)
  BY <1>1, <1>2, <1>3 DEF IsRun
<1> QED
  BY <1>3, <1>4 DEF c

\* Every step keeps what the worker knows about its file.
LEMMA WorkerStep ==
    ASSUME TypeOK, WorkerInv, [Next]_vars
    PROVE  WorkerInv'
<1> USE DEF WorkerInv, blob, job, endpoint, Producing, Stages
<1>1. CASE Dispatch \/ Reject \/ Lose \/ Deliver \/ DropSender \/ DropAcknowledgement \/ DropResult
  BY <1>1 DEF Dispatch, Reject, Lose, Deliver, DropSender, DropAcknowledgement, DropResult
<1>2. CASE OpenBlob \/ ValidateEnvelope \/ SendCancelled \/ EndOfPayload \/ ReceiveAcknowledgement \/ SendChunk
  BY <1>2 DEF OpenBlob, ValidateEnvelope, SendCancelled, EndOfPayload, ReceiveAcknowledgement, SendChunk,
       Finish, Advance
<1>3. CASE ReadPayload
  <2>1. CASE Finish("Io")
    BY <1>3, <2>1 DEF ReadPayload, Finish
  <2>2. CASE /\ outgoing' = Bytes(sent, Requested(payload - sent))
             /\ sent' = sent + Len(outgoing')
             /\ Advance("sending")
             /\ UNCHANGED chunks
    <3> DEFINE n == Requested(payload - sent)
    <3>1. n \in 1..payload - sent
      BY <1>3, RequestedRange DEF ReadPayload
    <3>2. n \in Nat \ {0} /\ sent + n <= payload
      BY <3>1 DEF TypeOK
    <3>3. Len(outgoing') = n
      BY <2>2, <3>2, BytesSeq DEF TypeOK
    <3>4. IsRun(outgoing', sent') /\ Upto(outgoing') = sent'
      BY <2>2, <3>2, <3>3, ChunkIsRun DEF TypeOK
    <3> HIDE DEF n
    <3> QED
      BY <1>3, <2>2, <3>2, <3>3, <3>4 DEF ReadPayload, Advance
  <2> QED
    BY <1>3, <2>1, <2>2 DEF ReadPayload
<1>4. CASE Endpoint \/ Sink \/ Abandon \/ Terminated \/ UNCHANGED vars
  <2>1. pc' = "start" => pc = "start" /\ stage' = stage
    BY <1>4 DEF Endpoint, Sink, RefuseStart, StartLoadStream, ReceiveChunk, Acknowledge, AwaitResult,
         AwaitAfterOutputError, WriteChunk, WriteFails, Abandon, Return, Terminated, vars
  <2>2. stage = "new" /\ stage' = "new" => pc' \in {"start"} \cup Left
    BY <1>4 DEF Endpoint, Sink, RefuseStart, StartLoadStream, ReceiveChunk, Acknowledge, AwaitResult,
         AwaitAfterOutputError, WriteChunk, WriteFails, Abandon, Return, Terminated, vars, Left
  <2>3. StartLoadStream => stage = "new"
    BY DEF StartLoadStream
  <2> QED
    BY <1>4, <2>1, <2>2, <2>3, EndpointKeepsWorker
<1> QED
  BY <1>1, <1>2, <1>3, <1>4 DEF Next, Engine

----------------------------------------------------------------------------
(* The channel.                                                            *)

\* Once nothing more is sent, the end of the channel no longer matters.
LEMMA CloseChannel ==
    ASSUME NEW ch \in Seq(Seq(Nat)), NEW end, NEW u, NEW v, NEW s, NEW t, t \notin Producing, NEW taken
    PROVE  /\ Contiguous(ch, end, u, s) => Contiguous(ch, end, v, t)
           /\ Joined(ch, u, s, taken) => Joined(ch, v, t, taken)
<1>1. Len(ch) \in Nat /\ (ch # <<>> => 1 <= Len(ch))
  BY EmptySeq, LenProperties
<1>2. Joined(ch, u, s, taken) => Joined(ch, v, t, taken)
  BY <1>1 DEF Joined, Edge
<1>3. Contiguous(ch, end, u, s) => Contiguous(ch, end, v, t)
  BY <1>1 DEF Contiguous, Edge
<1> QED
  BY <1>2, <1>3

\* Reading on does not change the chunks in the channel.
LEMMA ReadOn ==
    ASSUME NEW ch \in Seq(Seq(Nat)), NEW end \in Nat, NEW next \in Nat, end <= next,
           NEW u, NEW s, NEW t, s \in Producing, Contiguous(ch, end, u, s)
    PROVE  Contiguous(ch, next, u, t)
<1>1. ASSUME NEW i \in 1..Len(ch)
      PROVE  IsRun(ch[i], next) /\ Upto(ch[i]) = Edge(ch, i + 1, u)
  <2>1. IsRun(ch[i], end) /\ Upto(ch[i]) = Edge(ch, i + 1, u)
    BY DEF Contiguous
  <2>2. ch[i] \in Seq(Nat)
    BY ElementOfSeq
  <2>3. Upto(ch[i]) \in Nat
    BY <2>1, <2>2, LenProperties DEF IsRun, Upto
  <2> QED
    BY <2>1, <2>3 DEF IsRun
<1> QED
  BY <1>1 DEF Contiguous

\* A chunk that begins where the channel ends can be appended to it.
LEMMA AppendToChannel ==
    ASSUME NEW ch \in Seq(Seq(Nat)), NEW end, NEW taken, NEW c \in Seq(Nat),
           NEW s \in Producing, NEW t, Contiguous(ch, end, From(c), s), IsRun(c, end), Upto(c) = end
    PROVE  /\ Contiguous(Append(ch, c), end, end, t)
           /\ Joined(ch, From(c), s, taken) => Joined(Append(ch, c), end, t, taken)
<1> DEFINE new == Append(ch, c)
<1>1. /\ Len(ch) \in Nat /\ Len(new) = Len(ch) + 1 /\ new # <<>>
      /\ \A i \in 1..Len(ch) : new[i] = ch[i]
      /\ new[Len(ch) + 1] = c
  <2>1. Len(ch) \in Nat
    BY LenProperties
  <2>2. /\ Len(new) = Len(ch) + 1 /\ new # <<>>
        /\ \A i \in 1..Len(ch) : new[i] = ch[i]
    BY AppendProperties
  <2>3. new[Len(ch) + 1] = c
    BY AppendProperties
  <2> QED
    BY <2>1, <2>2, <2>3
<1> HIDE DEF new
<1>2. \A i \in 1..Len(ch) + 1 : Edge(new, i, end) = Edge(ch, i, From(c))
  BY <1>1 DEF Edge
<1>3. Edge(new, Len(ch) + 2, end) = end
  BY <1>1 DEF Edge
<1>4. ASSUME NEW i \in 1..Len(new)
      PROVE  IsRun(new[i], end) /\ Upto(new[i]) = Edge(new, i + 1, end)
  <2>1. CASE i = Len(ch) + 1
    BY <1>1, <1>3, <2>1
  <2>2. CASE i \in 1..Len(ch)
    <3>1. i + 1 \in 1..Len(ch) + 1
      BY <1>1, <2>2
    <3> QED
      BY <1>1, <1>2, <2>2, <3>1 DEF Contiguous
  <2> QED
    BY <1>1, <2>1, <2>2
<1>5. Contiguous(new, end, end, t)
  BY <1>4 DEF Contiguous
<1>6. Joined(ch, From(c), s, taken) => Joined(new, end, t, taken)
  BY <1>1, <1>2 DEF Joined
<1> QED
  BY <1>5, <1>6 DEF new

\* Taking the first chunk leaves a channel that begins where it ends.
LEMMA TakeFromChannel ==
    ASSUME NEW ch \in Seq(Seq(Nat)), ch # <<>>, NEW end, NEW u, NEW s, NEW taken,
           Contiguous(ch, end, u, s), Joined(ch, u, s, taken)
    PROVE  /\ Contiguous(Tail(ch), end, u, s)
           /\ IsRun(Head(ch), end) /\ From(Head(ch)) = taken
           /\ Joined(Tail(ch), u, s, Upto(Head(ch)))
<1> DEFINE rest == Tail(ch)
<1>1. /\ Len(ch) \in Nat \ {0} /\ Len(rest) = Len(ch) - 1 /\ rest \in Seq(Seq(Nat))
      /\ \A i \in 1..Len(rest) : rest[i] = ch[i + 1]
  BY HeadTailProperties, EmptySeq
<1>2. Head(ch) = ch[1]
  OBVIOUS
<1>3. rest # <<>> => Len(ch) > 1
  BY <1>1, EmptySeq
<1> HIDE DEF rest
<1>4. \A i \in 1..Len(ch) : Edge(rest, i, u) = Edge(ch, i + 1, u)
  BY <1>1 DEF Edge
<1>5. ASSUME NEW i \in 1..Len(rest)
      PROVE  /\ IsRun(rest[i], end)
             /\ i < Len(rest) \/ s \in Producing => Upto(rest[i]) = Edge(rest, i + 1, u)
  <2>1. i + 1 \in 1..Len(ch) /\ (i < Len(rest) => i + 1 < Len(ch))
    BY <1>1
  <2> QED
    BY <1>1, <1>4, <2>1 DEF Contiguous
<1>6. Contiguous(rest, end, u, s)
  BY <1>5 DEF Contiguous
<1>7. IsRun(Head(ch), end) /\ From(Head(ch)) = taken
  BY <1>1, <1>2 DEF Contiguous, Joined, Edge
<1>8. Joined(rest, u, s, Upto(Head(ch)))
  <2>1. rest # <<>> \/ s \in Producing => Upto(Head(ch)) = Edge(ch, 2, u)
    BY <1>1, <1>2, <1>3 DEF Contiguous
  <2>2. Edge(rest, 1, u) = Edge(ch, 2, u)
    BY <1>1, <1>4
  <2> QED
    BY <2>1, <2>2 DEF Joined
<1> QED
  BY <1>6, <1>7, <1>8 DEF rest

----------------------------------------------------------------------------
(* The bytes between file and output.                                      *)

\* A part of the chunk at hand extends the output.
LEMMA ExtendOutput ==
    ASSUME TypeOK, DataInv, pc = "writing", NEW n \in 0..Len(incoming)
    PROVE  /\ output \o SubSeq(incoming, 1, n) = Bytes(0, Len(output) + n)
           /\ Len(output) + n <= sent
           /\ Len(Bytes(0, Len(output) + n)) = Len(output) + n
<1> DEFINE len == Len(output)  more == Len(incoming)
<1>1. len \in Nat /\ more \in Nat /\ n \in Nat
  BY LenProperties DEF TypeOK
<1>2. output = Bytes(0, len) /\ incoming = Bytes(len, more) /\ len + more <= sent
  BY DEF DataInv, IsRun, Upto
<1> HIDE DEF len, more
<1>3. SubSeq(Bytes(len, more), 1, n) = Bytes(len, n)
  BY <1>1, BytesPrefix DEF more
<1>4. Bytes(0, len) \o Bytes(0 + len, n) = Bytes(0, len + n)
  BY <1>1, BytesConcat
<1>5. 0 + len = len /\ len + n <= sent
  BY <1>1, <1>2 DEF more, TypeOK
<1>6. Len(Bytes(0, len + n)) = len + n
  BY <1>1, BytesSeq
<1>7. output \o SubSeq(incoming, 1, n) = Bytes(0, len + n)
  BY <1>2, <1>3, <1>4, <1>5
<1> QED
  BY <1>5, <1>6, <1>7 DEF len

\* A worker that reads no more leaves the channel as it is.
LEMMA StopProducing ==
    ASSUME TypeOK, DataInv, stage' \notin Producing, UNCHANGED <<sent, chunks, pc, incoming, output>>
    PROVE  DataInv'
<1>1. /\ Contiguous(chunks, sent, Unsent', stage')
      /\ pc \in Consuming => Joined(chunks, Unsent', stage', Taken)
  BY CloseChannel DEF DataInv, TypeOK
<1>2. Taken' = Taken
  BY DEF Taken
<1> QED
  BY <1>1, <1>2 DEF DataInv

\* A worker that goes on from where it was leaves the channel as it is.
LEMMA GoOnProducing ==
    ASSUME TypeOK, DataInv, stage \in Producing, stage' \in Producing, Unsent' = Unsent,
           sent' \in Nat, sent <= sent', Taken' = Taken, pc' \in Consuming => pc \in Consuming,
           pc' = "writing" <=> pc = "writing",
           UNCHANGED <<chunks, incoming, output>>
    PROVE  DataInv'
<1>1. Contiguous(chunks', sent', Unsent', stage')
  <2>1. chunks \in Seq(Seq(Nat)) /\ sent \in Nat /\ Contiguous(chunks, sent, Unsent, stage)
    BY DEF TypeOK, DataInv
  <2> QED
    BY <2>1, ReadOn
<1>2. pc' \in Consuming => Joined(chunks', Unsent', stage', Taken')
  BY DEF DataInv, Joined
<1>3. output' = Bytes(0, Len(output')) /\ Len(output') <= sent'
  BY LenProperties DEF DataInv, TypeOK
<1>4. pc' = "writing" => IsRun(incoming', sent') /\ From(incoming') = Len(output')
  <2> SUFFICES ASSUME pc = "writing" PROVE IsRun(incoming, sent') /\ From(incoming) = Len(output)
    OBVIOUS
  <2>1. IsRun(incoming, sent) /\ From(incoming) = Len(output)
    BY DEF DataInv
  <2>2. Upto(incoming) \in Nat
    BY <2>1, LenProperties DEF IsRun, Upto, TypeOK
  <2> QED
    BY <2>1, <2>2 DEF IsRun, TypeOK
<1> QED
  BY <1>1, <1>2, <1>3, <1>4 DEF DataInv

\* Every step keeps file, channel and output in line.
LEMMA DataStep ==
    ASSUME TypeOK, TypeOK', WorkerInv, DataInv, [Next]_vars
    PROVE  DataInv'
<1> USE DEF blob, job, endpoint
<1>1. CASE RefuseStart \/ AwaitResult \/ AwaitAfterOutputError \/ Abandon
  <2>1. /\ pc' \notin Consuming
        /\ UNCHANGED <<sent, stage, outgoing, chunks, incoming, output>>
    BY <1>1 DEF RefuseStart, AwaitResult, AwaitAfterOutputError, Abandon, Return, Consuming
  <2>2. Unsent' = Unsent
    BY <2>1 DEF Unsent
  <2> QED
    BY <2>1, <2>2 DEF DataInv, Consuming
<1>2. CASE StartLoadStream
  <2>1. /\ stage = "new" /\ stage' = "queued" /\ pc = "start" /\ pc' = "receiving"
        /\ UNCHANGED <<sent, outgoing, chunks, incoming, output>>
    BY <1>2 DEF StartLoadStream, WorkerInv
  <2> QED
    BY <2>1, GoOnProducing DEF Unsent, Taken, Producing, Stages, Consuming, TypeOK
<1>3. CASE ReceiveChunk
  <2>1. /\ chunks # <<>> /\ pc = "receiving" /\ pc' = "writing" /\ incoming' = Head(chunks)
        /\ chunks' = Tail(chunks) /\ UNCHANGED <<sent, stage, outgoing, output>>
    BY <1>3 DEF ReceiveChunk
  <2>2. chunks \in Seq(Seq(Nat)) /\ Contiguous(chunks, sent, Unsent, stage)
    BY DEF TypeOK, DataInv
  <2>3. Joined(chunks, Unsent, stage, Len(output))
    BY <2>1 DEF DataInv, Consuming, Taken
  <2>4. /\ Contiguous(chunks', sent, Unsent, stage)
        /\ IsRun(incoming', sent) /\ From(incoming') = Len(output)
        /\ Joined(chunks', Unsent, stage, Upto(incoming'))
    BY <2>1, <2>2, <2>3, TakeFromChannel
  <2>5. Unsent' = Unsent /\ Taken' = Upto(incoming')
    BY <2>1 DEF Unsent, Taken
  <2> QED
    BY <2>1, <2>4, <2>5 DEF DataInv
<1>4. CASE WriteChunk
  <2>1. /\ pc = "writing" /\ pc' = "receiving" /\ output' = output \o incoming
        /\ UNCHANGED <<sent, stage, outgoing, chunks, incoming>>
    BY <1>4 DEF WriteChunk
  <2>2. incoming = SubSeq(incoming, 1, Len(incoming)) /\ Len(incoming) \in Nat
    BY SubSeqFull, LenProperties DEF TypeOK
  <2>3. /\ output' = Bytes(0, Len(output) + Len(incoming))
        /\ Len(output) + Len(incoming) <= sent
        /\ Len(output') = Len(output) + Len(incoming)
    <3>1. Len(incoming) \in 0..Len(incoming)
      BY <2>2
    <3>2. /\ output \o SubSeq(incoming, 1, Len(incoming)) = Bytes(0, Len(output) + Len(incoming))
          /\ Len(output) + Len(incoming) <= sent
          /\ Len(Bytes(0, Len(output) + Len(incoming))) = Len(output) + Len(incoming)
      BY <2>1, <3>1, ExtendOutput
    <3> QED
      BY <2>1, <2>2, <3>2
  <2>4. Unsent' = Unsent /\ Taken' = Taken
    BY <2>1, <2>3 DEF Unsent, Taken, DataInv, Upto
  <2> QED
    BY <2>1, <2>3, <2>4 DEF DataInv, Consuming
<1>5. CASE WriteFails
  <2>1. PICK n \in 0..Len(incoming) - 1 : output' = output \o SubSeq(incoming, 1, n)
    BY <1>5 DEF WriteFails
  <2>2. /\ pc = "writing" /\ pc' = "draining"
        /\ UNCHANGED <<sent, stage, outgoing, chunks, incoming>>
    BY <1>5 DEF WriteFails
  <2>3. n \in 0..Len(incoming)
    BY LenProperties DEF TypeOK
  <2>4. output' = Bytes(0, Len(output')) /\ Len(output') <= sent
    BY <2>1, <2>2, <2>3, ExtendOutput
  <2>5. Unsent' = Unsent
    BY <2>2 DEF Unsent
  <2> QED
    BY <2>2, <2>4, <2>5 DEF DataInv, Consuming
<1>6. CASE Acknowledge
  <2>1. /\ pc = "receiving" /\ pc' = "awaiting"
        /\ UNCHANGED <<sent, stage, outgoing, chunks, incoming, output>>
    BY <1>6 DEF Acknowledge
  <2>2. Unsent' = Unsent /\ Taken' = Taken
    BY <2>1 DEF Unsent, Taken
  <2> QED
    BY <2>1, <2>2 DEF DataInv, Consuming
<1>7. CASE ReadPayload /\ stage' = "sending"
  <2>1. /\ stage = "reading" /\ sent < payload
        /\ outgoing' = Bytes(sent, Requested(payload - sent))
        /\ sent' = sent + Len(outgoing')
        /\ UNCHANGED <<chunks, pc, incoming, output>>
    BY <1>7 DEF ReadPayload, Advance, Finish
  <2>2. Requested(payload - sent) \in Nat \ {0} /\ sent \in Nat
    BY <2>1, RequestedRange DEF TypeOK
  <2>3. From(outgoing') = sent /\ Len(outgoing') \in Nat
    BY <2>1, <2>2, ChunkIsRun, BytesSeq
  <2>4. Unsent = sent /\ Unsent' = sent /\ Taken' = Taken
    BY <1>7, <2>1, <2>3 DEF Unsent, Taken
  <2>5. stage \in Producing /\ stage' \in Producing /\ sent' \in Nat /\ sent <= sent'
    BY <1>7, <2>1, <2>2, <2>3 DEF Producing, Stages
  <2> QED
    BY <2>1, <2>4, <2>5, GoOnProducing
<1>8. CASE SendChunk
  <2>1. /\ stage = "sending" /\ stage' = "reading" /\ chunks' = Append(chunks, outgoing)
        /\ UNCHANGED <<sent, outgoing, pc, incoming, output>>
    BY <1>8 DEF SendChunk, Advance
  <2>2. Unsent = From(outgoing) /\ Unsent' = sent /\ Taken' = Taken
    BY <2>1 DEF Unsent, Taken
  <2>3. /\ chunks \in Seq(Seq(Nat)) /\ outgoing \in Seq(Nat) /\ stage \in Producing
        /\ IsRun(outgoing, sent) /\ Upto(outgoing) = sent
        /\ Contiguous(chunks, sent, From(outgoing), stage)
    BY <2>1, <2>2 DEF TypeOK, Producing, Stages, WorkerInv, DataInv
  <2>4. /\ Contiguous(chunks', sent, sent, stage')
        /\ Joined(chunks, From(outgoing), stage, Taken) => Joined(chunks', sent, stage', Taken)
    BY <2>1, <2>3, AppendToChannel
  <2> QED
    BY <2>1, <2>2, <2>4 DEF DataInv
<1>9. ASSUME /\ Dispatch \/ Reject \/ Lose \/ OpenBlob \/ ValidateEnvelope \/ SendCancelled \/ EndOfPayload
                \/ ReceiveAcknowledgement \/ Deliver \/ DropSender \/ DropAcknowledgement \/ DropResult
                \/ Terminated \/ UNCHANGED vars \/ (ReadPayload /\ stage' # "sending")
      PROVE  DataInv'
  <2>1. UNCHANGED <<sent, outgoing, chunks, pc, incoming, output>>
    BY <1>9 DEF Dispatch, Reject, Lose, OpenBlob, ValidateEnvelope, SendCancelled, EndOfPayload, ReadPayload,
         ReceiveAcknowledgement, Deliver, DropSender, DropAcknowledgement, DropResult, Terminated, vars,
         Advance, Finish
  <2>2. \/ stage' \notin Producing
        \/ stage' = stage
        \/ stage \in Producing \ {"sending"} /\ stage' \in Producing \ {"sending"}
    BY <1>9 DEF Dispatch, Reject, Lose, OpenBlob, ValidateEnvelope, SendCancelled, EndOfPayload, ReadPayload,
         ReceiveAcknowledgement, Deliver, DropSender, DropAcknowledgement, DropResult, Terminated, vars,
         Advance, Finish, Producing, Stages
  <2>3. CASE stage' \notin Producing
    BY <2>1, <2>3, StopProducing
  <2>4. CASE stage' = stage
    BY <2>1, <2>4 DEF DataInv, Unsent, Taken
  <2>5. CASE stage \in Producing \ {"sending"} /\ stage' \in Producing \ {"sending"}
    BY <2>1, <2>5, GoOnProducing DEF Unsent, Taken, TypeOK
  <2> QED
    BY <2>2, <2>3, <2>4, <2>5
<1> QED
  BY <1>1, <1>2, <1>3, <1>4, <1>5, <1>6, <1>7, <1>8, <1>9 DEF Next, Engine, Endpoint, Sink

----------------------------------------------------------------------------
(* Outcomes and answers.                                                   *)

\* Every step keeps outcome, acknowledgement and answer in agreement.
LEMMA OutcomeStep ==
    ASSUME TypeOK, WorkerInv, DataInv, OutcomeInv, [Next]_vars
    PROVE  OutcomeInv'
<1> USE DEF OutcomeInv, Left, blob, job, endpoint, Payload
<1>1. CASE RefuseStart
  BY <1>1 DEF RefuseStart, Return, HangUp, Refusals, Rejections, Successes, TypeOK
<1>2. CASE StartLoadStream
  BY <1>2 DEF StartLoadStream, WorkerInv, Producing, Stages
<1>3. CASE ReceiveChunk \/ WriteChunk
  BY <1>3 DEF ReceiveChunk, WriteChunk
<1>4. CASE WriteFails
  <2>1. /\ pc = "writing" /\ pc' = "draining" /\ answer' = "OutputIo"
        /\ ack' = (IF ack = "empty" THEN "closed" ELSE ack)
        /\ UNCHANGED <<file, payload, stage, outcome, result, sender, chunks>>
    BY <1>4 DEF WriteFails, HangUp
  <2>2. ack' # "sent" /\ outcome # "Some"
    BY <2>1
  <2> QED
    BY <2>1, <2>2
<1>5. CASE Acknowledge
  <2>1. /\ pc = "receiving" /\ pc' = "awaiting" /\ chunks = <<>> /\ ~sender
        /\ UNCHANGED <<file, payload, stage, outcome, result, sender, chunks, output, answer, receiver>>
        /\ ack' \in {"sent", ack}
    BY <1>5 DEF Acknowledge
  <2>2. stage = "acknowledging" => output = Payload
    <3> SUFFICES ASSUME stage = "acknowledging" PROVE output = Payload
      OBVIOUS
    <3>1. Joined(chunks, Unsent, stage, Taken)
      BY <2>1 DEF DataInv, Consuming
    <3>2. Len(output) = sent
      BY <2>1, <3>1 DEF Joined, Edge, Unsent, Taken, Producing, Stages
    <3> QED
      BY <3>2 DEF DataInv, WorkerInv
  <2> QED
    BY <2>1, <2>2
<1>6. CASE AwaitResult
  <2>1. /\ pc = "awaiting" /\ pc' = "returned" /\ result # "pending" /\ answer' = ReceivedResult
        /\ ack' = (IF ack = "empty" THEN "closed" ELSE ack)
        /\ UNCHANGED <<file, payload, stage, outcome, result, sender, chunks, output>>
    BY <1>6 DEF AwaitResult, ResultReady, Return, HangUp
  <2>2. /\ ReceivedResult \notin {"OutputIo", "StreamCancelled"}
        /\ ReceivedResult \in Successes => ReceivedResult = outcome
    BY <2>1 DEF ReceivedResult, Refusals, Rejections, Outcomes, Successes
  <2> QED
    BY <2>1, <2>2
<1>7. CASE AwaitAfterOutputError
  BY <1>7 DEF AwaitAfterOutputError, ResultReady, Return, HangUp, Successes, TypeOK
<1>8. CASE Abandon
  BY <1>8 DEF Abandon, HangUp
<1>9. CASE Dispatch \/ Reject \/ Lose \/ DropSender \/ DropAcknowledgement \/ DropResult
  BY <1>9 DEF Dispatch, Reject, Lose, DropSender, DropAcknowledgement, DropResult, Producing, Stages
<1>10. CASE OpenBlob \/ ValidateEnvelope
  BY <1>10 DEF OpenBlob, ValidateEnvelope, Finish, Advance, Producing, Stages, Outcomes, Successes
<1>11. CASE ReadPayload \/ SendChunk
  BY <1>11 DEF ReadPayload, SendChunk, Finish, Advance, Producing, Stages, Outcomes, WorkerInv
<1>12. CASE SendCancelled
  BY <1>12 DEF SendCancelled, Finish, Producing, Stages, Outcomes
<1>13. CASE EndOfPayload
  BY <1>13 DEF EndOfPayload, Producing, Stages, WorkerInv
<1>14. CASE ReceiveAcknowledgement
  BY <1>14 DEF ReceiveAcknowledgement, Finish, Producing, Stages, WorkerInv, Outcomes, Successes
<1>15. CASE Deliver
  BY <1>15 DEF Deliver, Producing, Stages
<1>16. CASE Terminated \/ UNCHANGED vars
  BY <1>16 DEF Terminated, vars
<1> QED
  BY <1>1, <1>2, <1>3, <1>4, <1>5, <1>6, <1>7, <1>8, <1>9, <1>10, <1>11, <1>12, <1>13, <1>14, <1>15, <1>16
     DEF Next, Engine, Endpoint, Sink

\* A load starts with nothing read, sent or written.
LEMMA InitInv == Init => IInv
<1> SUFFICES ASSUME Init PROVE IInv
  OBVIOUS
<1>1. TypeOK
  BY LimitsAssumption DEF Init, TypeOK, PCs, Stages
<1>2. WorkerInv
  BY <1>1 DEF Init, WorkerInv, TypeOK, Producing, Stages
<1>3. output = Bytes(0, Len(output)) /\ Len(output) <= sent
  <2>1. Bytes(0, 0) \in Seq(Nat) /\ Len(Bytes(0, 0)) = 0
    BY BytesSeq
  <2> QED
    BY <2>1, EmptySeq DEF Init
<1>4. DataInv
  BY <1>3 DEF Init, DataInv, Contiguous, Joined, Edge, Unsent, Taken
<1>5. OutcomeInv
  BY DEF Init, OutcomeInv, Left, Successes, Outcomes
<1> QED
  BY <1>1, <1>2, <1>4, <1>5 DEF IInv

\* The invariant holds throughout a load.
LEMMA Invariance == Spec => []IInv
<1>1. IInv /\ [Next]_vars => IInv'
  BY TypeStep, WorkerStep, DataStep, OutcomeStep DEF IInv
<1> QED
  BY <1>1, InitInv, PTL DEF Spec

\* The caller's writer gets a prefix of the payload in order, and nothing of a
\* file that is not valid as a whole (load_blob_into_sender, load_into).
THEOREM LoadWritesValidatedBytes == Spec => []OutputIsValidated
<1>1. IInv => OutputIsValidated
  <2> SUFFICES ASSUME IInv PROVE OutputIsValidated
    OBVIOUS
  <2>1. Len(output) \in Nat /\ payload \in Nat /\ sent \in Nat
    BY LenProperties DEF IInv, TypeOK
  <2>2. output = Bytes(0, Len(output)) /\ Len(output) <= sent /\ sent <= payload
    BY DEF IInv, DataInv, WorkerInv
  <2>3. Len(output) \in 0..payload
    BY <2>1, <2>2
  <2>4. SubSeq(Bytes(0, payload), 1, Len(output)) = Bytes(0, Len(output))
    BY <2>1, <2>3, BytesPrefix
  <2>5. output # <<>> => sent > 0
    BY <2>1, <2>2, EmptySeq DEF IInv, TypeOK
  <2> QED
    BY <2>2, <2>3, <2>4, <2>5 DEF OutputIsValidated, Payload, IInv, WorkerInv
<1> QED
  BY <1>1, Invariance, PTL

\* Worker and caller agree on success, which means that the whole payload of a
\* valid file is with the caller (load_blob_into_sender, load_into).
THEOREM LoadSuccessIsWhole == Spec => []SuccessMeansWholeOutput
<1>1. IInv => SuccessMeansWholeOutput
  BY DEF IInv, OutcomeInv, SuccessMeansWholeOutput
<1> QED
  BY <1>1, Invariance, PTL
=============================================================================
