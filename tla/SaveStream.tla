----------------------------- MODULE SaveStream -----------------------------
(***************************************************************************)
(* One streaming save, from the caller's save_from to the worker that      *)
(* writes the envelope (src/blocking.rs, src/tokio.rs, src/format.rs).     *)
(*                                                                         *)
(* The caller's endpoint reads a borrowed source and feeds a bounded       *)
(* channel; the worker empties it into a staging file.  The two run        *)
(* concurrently and learn of each other only through the channel, the      *)
(* one-slot result channel and the fact that an end of either was dropped. *)
(* A byte is its position in the source, so that a staging file shows what *)
(* was written and in which order.  The queues before the worker are module *)
(* Coordinator, the system calls of the commit are module BlobFiles.       *)
(***************************************************************************)
EXTENDS ByteRuns

CONSTANTS
    Facades,        \* the facades explored: "blocking", "tokio"
    Capacity,       \* STREAM_CHANNEL_CAPACITY
    ChunkSize,      \* STREAM_CHUNK_SIZE
    Maximum,        \* max_blob_size
    Word,           \* the largest u64
    MaxInput,       \* bound: bytes in the longest source explored
    Old             \* the blob before this save

ASSUME FacadesAssumption == Facades \subseteq {"blocking", "tokio"}
ASSUME LimitsAssumption ==
    /\ Capacity \in Nat \ {0} /\ ChunkSize \in Nat \ {0}
    /\ Word \in Nat /\ Maximum \in 0..Word /\ MaxInput \in Nat
ASSUME OldAssumption == Old \notin Seq(Nat)

VARIABLES
    facade,         \* the facade of the caller's store
    declared,       \* declared_len
    input,          \* the number of bytes the source really has
    pc,             \* the endpoint's next step
    read,           \* bytes read from the source
    message,        \* the message the endpoint is about to send
    chunks,         \* the chunk channel
    sender,         \* is the endpoint's end of it alive?
    receiver,       \* is the operation's end of it alive?
    stage,          \* where the operation is
    staged,         \* payload bytes in the staging file
    blob,           \* the canonical blob
    outcome,        \* what the job returned
    result,         \* the result channel
    answer,         \* what save_from returns
    marked          \* history: the input-complete marker is in the channel

vars == <<facade, declared, input, pc, read, message, chunks, sender, receiver, stage, staged, blob,
          outcome, result, answer, marked>>
inputs == <<facade, declared, input>>
endpoint == <<pc, read, message, sender, answer, marked>>
worker == <<stage, staged, blob, outcome, receiver>>

InputErrors == {"InputEndedEarly", "InputHasTrailingData", "InputIo"}
Refusals == {"StoreClosed", "EngineFailed"}
\* A queued operation is also rejected when no thread can be spawned for it.
Rejections == Refusals \cup {"WorkerUnavailable"}
CommitErrors == {"AtomicCommit", "SyncNamespaceDirectory"}
Outcomes == InputErrors \cup CommitErrors \cup {"Ok", "Io", "StreamCancelled", "BlobTooLarge"}
Answers == Outcomes \cup Rejections
Left == {"returned", "dropped"}

Complete == [kind |-> "complete", bytes |-> <<>>]
Chunk(bytes) == [kind |-> "chunk", bytes |-> bytes]
Messages == [kind : {"chunk", "complete"}, bytes : Seq(Nat)]

Init ==
    /\ facade \in Facades
    /\ declared \in 0..Word
    /\ input \in 0..MaxInput
    /\ pc = "start"
    /\ read = 0
    /\ message = Complete
    /\ chunks = <<>>
    /\ sender = TRUE
    /\ receiver = TRUE
    /\ stage = "new"
    /\ staged = <<>>
    /\ blob = Old
    /\ outcome = "none"
    /\ result = "pending"
    /\ answer = "none"
    /\ marked = FALSE

----------------------------------------------------------------------------
(* The endpoint: save_from of either facade.                               *)

Return(a) ==
    /\ pc' = "returned"
    /\ answer' = a
    /\ sender' = FALSE

ResultReady == result # "pending"

\* Pending::wait and wait_async: a dropped sender means the engine failed.
ReceivedResult == IF result = "closed" THEN "EngineFailed" ELSE result

NextInput(n) == IF n < declared THEN "reading" ELSE "trailing"

RefuseStart ==
    /\ pc = "start"
    /\ \/ \E e \in Refusals : Return(e)
       \/ declared > Maximum /\ Return("BlobTooLarge")
    /\ UNCHANGED <<inputs, read, message, marked, chunks, worker, result>>

StartSaveStream ==
    /\ pc = "start"
    /\ declared <= Maximum
    /\ pc' = NextInput(0)
    /\ stage' = "queued"
    /\ UNCHANGED <<inputs, read, message, sender, answer, marked, chunks, staged, blob, outcome,
                   receiver, result>>

\* Mutant: whole chunks are requested, past the declared length.
WholeChunk == ChunkSize

Requested == IF declared - read < ChunkSize THEN declared - read ELSE ChunkSize

\* A source may deliver fewer bytes than requested.
ReadChunk ==
    /\ pc = "reading"
    /\ \E count \in 1..Requested :
        /\ read + count <= input
        /\ message' = Chunk(Bytes(read, count))
        /\ read' = read + count
    /\ pc' = "sending"
    /\ UNCHANGED <<inputs, sender, answer, marked, chunks, worker, result>>

\* An input error drops the sender, which cancels the job, and waits for it.
FailInput(e) ==
    /\ answer' = e
    /\ sender' = FALSE
    /\ pc' = "draining"
    /\ UNCHANGED <<inputs, read, message, marked, chunks, worker, result>>

ReadEnds == pc = "reading" /\ read = input /\ FailInput("InputEndedEarly")
ReadFails == pc \in {"reading", "trailing"} /\ FailInput("InputIo")
FindTrailingData == pc = "trailing" /\ read < input /\ FailInput("InputHasTrailingData")

FindEndOfInput ==
    /\ pc = "trailing"
    /\ read = input
    /\ message' = Complete
    /\ pc' = "sending"
    /\ UNCHANGED <<inputs, read, sender, answer, marked, chunks, worker, result>>

\* select! in the Tokio endpoint: a result that is there when the future is
\* polled wins over the source.
TakeResultFirst ==
    /\ facade = "tokio"
    /\ pc \in {"reading", "trailing"}
    /\ ResultReady
    /\ Return(ReceivedResult)
    /\ UNCHANGED <<inputs, read, message, marked, chunks, worker, result>>

\* The channel is dropped right after the marker was sent.
Send ==
    /\ pc = "sending"
    /\ receiver
    /\ Len(chunks) < Capacity
    /\ chunks' = Append(chunks, message)
    /\ marked' = (message = Complete)
    /\ sender' = ~marked'
    /\ pc' = IF marked' THEN "awaiting" ELSE NextInput(read)
    /\ UNCHANGED <<inputs, read, message, answer, worker, result>>

SendRefused ==
    /\ pc = "sending"
    /\ ~receiver
    /\ pc' = "awaiting"
    /\ UNCHANGED <<inputs, read, message, sender, answer, marked, chunks, worker, result>>

AwaitResult ==
    /\ pc = "awaiting"
    /\ ResultReady
    /\ Return(ReceivedResult)
    /\ UNCHANGED <<inputs, read, message, marked, chunks, worker, result>>

\* Mutant: an input error is returned while the job still runs.
ReturnAtOnce ==
    /\ pc = "draining"
    /\ Return(answer)
    /\ UNCHANGED <<inputs, read, message, marked, chunks, worker, result>>

AwaitAfterInputError ==
    /\ pc = "draining"
    /\ ResultReady
    /\ Return(answer)
    /\ UNCHANGED <<inputs, read, message, marked, chunks, worker, result>>

\* Mutant: a dropped future leaves its sender alive.
AbandonLeaky ==
    /\ \/ facade = "tokio" /\ pc \notin Left
       \/ facade = "blocking" /\ pc \in {"reading", "trailing"}
    /\ pc' = "dropped"
    /\ UNCHANGED <<inputs, read, message, sender, answer, marked, chunks, worker, result>>

\* A Tokio future is dropped before its first poll or at any await; a blocking
\* call ends early only when the caller's reader panics.
Abandon ==
    /\ \/ facade = "tokio" /\ pc \notin Left
       \/ facade = "blocking" /\ pc \in {"reading", "trailing"}
    /\ pc' = "dropped"
    /\ sender' = FALSE
    /\ UNCHANGED <<inputs, read, message, answer, marked, chunks, worker, result>>

----------------------------------------------------------------------------
(* The operation and the worker that runs it.                              *)

Dispatch ==
    /\ stage = "queued"
    /\ stage' = "opening"
    /\ UNCHANGED <<inputs, endpoint, chunks, staged, blob, outcome, receiver, result>>

\* deliver_error: the answer is sent, then the operation is dropped.
Reject ==
    /\ stage = "queued"
    /\ result' \in Rejections
    /\ stage' = "dropping"
    /\ UNCHANGED <<inputs, endpoint, chunks, staged, blob, outcome, receiver>>

\* A panic of the job or of the coordinator drops the operation unanswered.
Lose ==
    /\ stage \in {"queued", "opening", "receiving", "committing", "finished"}
    /\ stage' = "dropping"
    /\ UNCHANGED <<inputs, endpoint, chunks, staged, blob, outcome, receiver, result>>

Finish(e) ==
    /\ outcome' = e
    /\ stage' = "finished"
    /\ UNCHANGED <<inputs, endpoint, receiver, result>>

\* envelope_header checks the length, then the staging file is opened and the
\* header written.
OpenStaging ==
    /\ stage = "opening"
    /\ \/ stage' = "receiving" /\ UNCHANGED <<inputs, endpoint, outcome, receiver, result>>
       \/ Finish(IF declared > Maximum THEN "BlobTooLarge" ELSE "Io")
    /\ UNCHANGED <<chunks, staged, blob>>

\* checked_add, then the comparison with the declared length.
Fits(bytes) ==
    /\ Len(staged) + Len(bytes) <= Word
    /\ Len(staged) + Len(bytes) <= declared

Receiving(kind) == stage = "receiving" /\ chunks # <<>> /\ Head(chunks).kind = kind

ReceiveChunk ==
    /\ Receiving("chunk")
    /\ chunks' = Tail(chunks)
    /\ LET bytes == Head(chunks).bytes IN
       \/ /\ Fits(bytes)
          /\ staged' = staged \o bytes
          /\ UNCHANGED <<inputs, endpoint, stage, outcome, receiver, result>>
       \/ /\ Finish(IF Fits(bytes) THEN "Io" ELSE "InputHasTrailingData")
          /\ UNCHANGED staged
    /\ UNCHANGED blob

\* The marker is checked against the bytes written, then the checksum follows.
ReceiveComplete ==
    /\ Receiving("complete")
    /\ chunks' = Tail(chunks)
    /\ \/ /\ Len(staged) = declared
          /\ stage' = "committing"
          /\ UNCHANGED <<inputs, endpoint, outcome, receiver, result>>
       \/ Finish(IF Len(staged) = declared THEN "Io" ELSE "InputEndedEarly")
    /\ UNCHANGED <<staged, blob>>

Disconnected == stage = "receiving" /\ chunks = <<>> /\ ~sender

\* Mutant: a closed channel counts as the end of the input.
DisconnectCompletes ==
    /\ Disconnected
    /\ stage' = "committing"
    /\ UNCHANGED <<inputs, endpoint, chunks, staged, blob, outcome, receiver, result>>

ReceiveDisconnected ==
    /\ Disconnected
    /\ Finish("StreamCancelled")
    /\ UNCHANGED <<chunks, staged, blob>>

\* AtomicCommit leaves it open whether the blob was replaced; on Windows the
\* directory may fail to synchronize after it was.
Commit ==
    /\ stage = "committing"
    /\ \/ blob' = staged /\ Finish("Ok")
       \/ blob' = staged /\ Finish("SyncNamespaceDirectory")
       \/ blob' \in {blob, staged} /\ Finish("AtomicCommit")
    /\ UNCHANGED <<chunks, staged>>

Deliver ==
    /\ stage = "finished"
    /\ result' = outcome
    /\ stage' = "dropping"
    /\ UNCHANGED <<inputs, endpoint, chunks, staged, blob, outcome, receiver>>

\* The two channel ends of an operation are dropped one after the other.
DropReceiver ==
    /\ stage = "dropping"
    /\ receiver
    /\ receiver' = FALSE
    /\ UNCHANGED <<inputs, endpoint, chunks, stage, staged, blob, outcome, result>>

DropResult ==
    /\ stage = "dropping"
    /\ result = "pending"
    /\ result' = "closed"
    /\ UNCHANGED <<inputs, endpoint, chunks, worker>>

Released == stage = "dropping" /\ ~receiver /\ ResultReady

Terminated == pc \in Left /\ (stage = "new" \/ Released) /\ UNCHANGED vars

----------------------------------------------------------------------------
Source == ReadChunk \/ ReadEnds \/ ReadFails \/ FindTrailingData \/ FindEndOfInput

Endpoint ==
    RefuseStart \/ StartSaveStream \/ TakeResultFirst \/ Send \/ SendRefused \/ AwaitResult
    \/ AwaitAfterInputError

Engine ==
    Dispatch \/ Reject \/ OpenStaging \/ ReceiveChunk \/ ReceiveComplete \/ ReceiveDisconnected
    \/ Commit \/ Deliver \/ DropReceiver \/ DropResult

Next == Source \/ Endpoint \/ Abandon \/ Engine \/ Lose \/ Terminated

Spec == Init /\ [][Next]_vars

(* The engine serves every admitted operation (Coordinator,                *)
(* EveryRequestAnswered), a running worker and a polled or blocked caller  *)
(* go on.  A source may stall for ever; only the blocking facade, which    *)
(* has no other way out of a read, is assumed to have one that answers.    *)
Fairness ==
    /\ WF_vars(Engine)
    /\ WF_vars(Endpoint)
    /\ WF_vars(facade = "blocking" /\ Source)

FairSpec == Spec /\ Fairness

----------------------------------------------------------------------------
(* Properties.                                                             *)

\* The blob is replaced only by the whole source, in order, and only when the
\* source ended exactly at the declared length and the endpoint said so with
\* the marker: a call that is dropped or fails before the marker, at any await
\* and whatever is still in the channel, leaves the old blob (save_from,
\* write_stream_envelope).
CommittedIsWholeInput ==
    blob # Old => marked /\ input = declared /\ blob = Bytes(0, declared)

\* What save_from returned tells what happened to the blob, and when it
\* returns the job has ended: success means replaced; only an ambiguous commit,
\* a failed directory sync and a failed engine leave more than one possibility;
\* every other error means the blob was not touched.
AnswerTellsOutcome ==
    pc = "returned" =>
        /\ stage \in {"new", "dropping"}
        /\ answer = "Ok" => blob = Bytes(0, declared)
        /\ answer = "SyncNamespaceDirectory" => blob # Old
        /\ answer \notin {"Ok", "EngineFailed"} \cup CommitErrors => blob = Old

\* The worker's own length checks, with their overflow test, never fire: the
\* endpoint never sends a byte past the declared length, and never the marker
\* before it.  So a caller is told about its input only what its endpoint saw,
\* and never that its own save was cancelled; and a save whose marker was sent
\* is not cancelled by dropping it.
ErrorsNameTheCause ==
    /\ outcome \notin {"InputHasTrailingData", "InputEndedEarly", "BlobTooLarge"}
    /\ outcome = "StreamCancelled" => ~marked
    /\ pc = "returned" =>
        /\ answer # "StreamCancelled"
        /\ answer = "InputEndedEarly" => input < declared
        /\ answer = "InputHasTrailingData" => input > declared

\* Neither side waits for one that is gone.  When the operation is over, answered,
\* rejected or lost, the caller gets out of save_from, also one that was blocked
\* on a full channel, with Tokio even if its source never delivers another byte;
\* and a caller that left, or ran into an input error, frees the worker and the
\* key: the job does not wait for input that will never come.
NeitherSideWaits ==
    /\ stage = "dropping" ~> pc \in Left
    /\ (pc \in Left \cup {"draining"}) ~> (stage = "new" \/ Released)
=============================================================================
