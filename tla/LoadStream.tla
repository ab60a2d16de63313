----------------------------- MODULE LoadStream -----------------------------
(***************************************************************************)
(* One streaming load, from the worker that reads the file to the caller's *)
(* load_into (src/format.rs, src/blocking.rs, src/tokio.rs).               *)
(*                                                                         *)
(* The worker validates the whole envelope before it sends the first byte, *)
(* reads the payload a second time into a bounded channel, and waits for   *)
(* the caller's acknowledgement before it reports success.  A byte is its  *)
(* position in the payload.  No other operation touches the file meanwhile *)
(* (module Coordinator); the reads of the file may fail.                   *)
(***************************************************************************)
EXTENDS ByteRuns

CONSTANTS
    Facades,        \* the facades explored: "blocking", "tokio"
    Capacity,       \* STREAM_CHANNEL_CAPACITY
    ChunkSize,      \* STREAM_CHUNK_SIZE
    MaxPayload      \* bound: bytes in the longest payload explored

ASSUME FacadesAssumption == Facades \subseteq {"blocking", "tokio"}
ASSUME LimitsAssumption ==
    Capacity \in Nat \ {0} /\ ChunkSize \in Nat \ {0} /\ MaxPayload \in Nat

VARIABLES
    facade,         \* the facade of the caller's store
    file,           \* what is at the canonical path
    payload,        \* its declared payload length
    stage,          \* where the operation is
    sent,           \* payload bytes read and passed to the channel
    outgoing,       \* the chunk the worker is about to send
    outcome,        \* what the job returned
    chunks,         \* the chunk channel
    sender,         \* is the operation's end of it alive?
    receiver,       \* is the endpoint's end of it alive?
    ack,            \* the acknowledgement channel
    ackReceiver,    \* is the operation's end of it alive?
    result,         \* the result channel
    pc,             \* the endpoint's next step
    incoming,       \* the chunk the endpoint is about to write
    output,         \* what the caller's writer has taken
    answer          \* what load_into returns

vars == <<facade, file, payload, stage, sent, outgoing, outcome, chunks, sender, receiver, ack,
          ackReceiver, result, pc, incoming, output, answer>>
blob == <<facade, file, payload>>
job == <<stage, sent, outgoing, outcome, sender, ackReceiver>>
endpoint == <<pc, incoming, output, answer, receiver>>

Files == {"absent", "no_namespace", "valid", "corrupt"}
Refusals == {"StoreClosed", "EngineFailed"}
\* A queued operation is also rejected when no thread can be spawned for it.
Rejections == Refusals \cup {"WorkerUnavailable"}
Successes == {"Some", "None"}
Outcomes == Successes \cup {"Io", "Invalid", "StreamCancelled"}
Answers == Outcomes \cup Rejections \cup {"OutputIo"}
Left == {"returned", "dropped"}

Payload == Bytes(0, payload)

Requested(remaining) == IF remaining < ChunkSize THEN remaining ELSE ChunkSize

Init ==
    /\ facade \in Facades
    /\ file \in Files
    /\ payload \in 0..MaxPayload
    /\ stage = "new"
    /\ sent = 0
    /\ outgoing = <<>>
    /\ outcome = "none"
    /\ chunks = <<>>
    /\ sender = TRUE
    /\ receiver = TRUE
    /\ ack = "empty"
    /\ ackReceiver = TRUE
    /\ result = "pending"
    /\ pc = "start"
    /\ incoming = <<>>
    /\ output = <<>>
    /\ answer = "none"

----------------------------------------------------------------------------
(* The worker: load_blob_into_sender.                                      *)

Dispatch ==
    /\ stage = "queued"
    /\ stage' = "opening"
    /\ UNCHANGED <<blob, sent, outgoing, outcome, sender, ackReceiver, chunks, ack, result, endpoint>>

\* deliver_error: the answer is sent, then the operation is dropped.
Reject ==
    /\ stage = "queued"
    /\ result' \in Rejections
    /\ stage' = "dropping"
    /\ UNCHANGED <<blob, sent, outgoing, outcome, sender, ackReceiver, chunks, ack, endpoint>>

\* A panic of the job or of the coordinator drops the operation unanswered.
Lose ==
    /\ stage \in {"queued", "opening", "validating", "reading", "sending", "acknowledging",
                  "finished"}
    /\ stage' = "dropping"
    /\ UNCHANGED <<blob, sent, outgoing, outcome, sender, ackReceiver, chunks, ack, result, endpoint>>

\* Every return drops the worker's ends of both channels.
Finish(e) ==
    /\ outcome' = e
    /\ stage' = "finished"
    /\ sender' = FALSE
    /\ ackReceiver' = FALSE
    /\ UNCHANGED <<blob, sent, outgoing, chunks, ack, result, endpoint>>

Advance(s) ==
    /\ stage' = s
    /\ UNCHANGED <<blob, outcome, sender, ackReceiver, ack, result, endpoint>>

\* A missing file is no blob only if the namespace is there.
OpenBlob ==
    /\ stage = "opening"
    /\ \/ file = "absent" /\ Finish("None")
       \/ file \in {"valid", "corrupt"} /\ Advance("validating") /\ UNCHANGED <<sent, outgoing, chunks>>
       \/ Finish("Io")

\* Mutant: the payload is sent while it is being validated.
ValidateNothing ==
    /\ stage = "validating"
    /\ Advance("reading")
    /\ UNCHANGED <<sent, outgoing, chunks>>

\* validate_envelope_reader, then the seek back to the payload.
ValidateEnvelope ==
    /\ stage = "validating"
    /\ \/ file = "valid" /\ Advance("reading") /\ UNCHANGED <<sent, outgoing, chunks>>
       \/ file = "corrupt" /\ Finish("Invalid")
       \/ Finish("Io")

ReadPayload ==
    /\ stage = "reading"
    /\ sent < payload
    /\ \/ /\ outgoing' = Bytes(sent, Requested(payload - sent))
          /\ sent' = sent + Len(outgoing')
          /\ Advance("sending")
          /\ UNCHANGED chunks
       \/ Finish("Io")

SendChunk ==
    /\ stage = "sending"
    /\ receiver
    /\ Len(chunks) < Capacity
    /\ chunks' = Append(chunks, outgoing)
    /\ Advance("reading")
    /\ UNCHANGED <<sent, outgoing>>

SendCancelled ==
    /\ stage = "sending"
    /\ ~receiver
    /\ Finish("StreamCancelled")

\* Mutant: success is reported when the last chunk is in the channel.
FinishUnacknowledged ==
    /\ stage = "reading"
    /\ sent = payload
    /\ Finish("Some")

EndOfPayload ==
    /\ stage = "reading"
    /\ sent = payload
    /\ sender' = FALSE
    /\ stage' = "acknowledging"
    /\ UNCHANGED <<blob, sent, outgoing, outcome, ackReceiver, chunks, ack, result, endpoint>>

\* recv on the acknowledgement channel: a message, or its sender is gone.
ReceiveAcknowledgement ==
    /\ stage = "acknowledging"
    /\ \/ ack = "sent" /\ Finish("Some")
       \/ ack = "closed" /\ Finish("StreamCancelled")

Deliver ==
    /\ stage = "finished"
    /\ result' = outcome
    /\ stage' = "dropping"
    /\ UNCHANGED <<blob, sent, outgoing, outcome, sender, ackReceiver, chunks, ack, endpoint>>

\* The channel ends of an operation are dropped one after the other.
DropSender ==
    /\ stage = "dropping"
    /\ sender
    /\ sender' = FALSE
    /\ UNCHANGED <<blob, stage, sent, outgoing, outcome, ackReceiver, chunks, ack, result, endpoint>>

DropAcknowledgement ==
    /\ stage = "dropping"
    /\ ackReceiver
    /\ ackReceiver' = FALSE
    /\ UNCHANGED <<blob, stage, sent, outgoing, outcome, sender, chunks, ack, result, endpoint>>

DropResult ==
    /\ stage = "dropping"
    /\ result = "pending"
    /\ result' = "closed"
    /\ UNCHANGED <<blob, job, chunks, ack, endpoint>>

----------------------------------------------------------------------------
(* The endpoint: load_into of either facade.                               *)

ResultReady == result # "pending"
ReceivedResult == IF result = "closed" THEN "EngineFailed" ELSE result

\* Dropping the acknowledgement's sender; a message already sent stays.
HangUp == ack' = IF ack = "empty" THEN "closed" ELSE ack

Return(a) ==
    /\ pc' = "returned"
    /\ answer' = a
    /\ receiver' = FALSE
    /\ HangUp
    /\ UNCHANGED <<blob, job, chunks, result, incoming, output>>

RefuseStart == pc = "start" /\ \E e \in Refusals : Return(e)

StartLoadStream ==
    /\ pc = "start"
    /\ pc' = "receiving"
    /\ stage' = "queued"
    /\ UNCHANGED <<blob, sent, outgoing, outcome, sender, ackReceiver, chunks, ack, result, incoming,
                   output, answer, receiver>>

ReceiveChunk ==
    /\ pc = "receiving"
    /\ chunks # <<>>
    /\ incoming' = Head(chunks)
    /\ chunks' = Tail(chunks)
    /\ pc' = "writing"
    /\ UNCHANGED <<blob, job, ack, result, output, answer, receiver>>

WriteChunk ==
    /\ pc = "writing"
    /\ output' = output \o incoming
    /\ pc' = "receiving"
    /\ UNCHANGED <<blob, job, chunks, ack, result, incoming, answer, receiver>>

\* write_all may have passed on a part of the chunk before it failed; both
\* channels are dropped, which cancels the job, and the job is awaited.
WriteFails ==
    /\ pc = "writing"
    /\ \E n \in 0..Len(incoming) - 1 : output' = output \o SubSeq(incoming, 1, n)
    /\ answer' = "OutputIo"
    /\ pc' = "draining"
    /\ receiver' = FALSE
    /\ HangUp
    /\ UNCHANGED <<blob, job, chunks, result, incoming>>

\* The worker is done with the channel: acknowledge, whether or not it listens.
Acknowledge ==
    /\ pc = "receiving"
    /\ chunks = <<>>
    /\ ~sender
    /\ ack' = IF ackReceiver THEN "sent" ELSE ack
    /\ pc' = "awaiting"
    /\ UNCHANGED <<blob, job, chunks, result, incoming, output, answer, receiver>>

AwaitResult == pc = "awaiting" /\ ResultReady /\ Return(ReceivedResult)
AwaitAfterOutputError == pc = "draining" /\ ResultReady /\ Return(answer)

\* Mutant: a dropped future keeps its end of the acknowledgement.
AbandonLeaky ==
    /\ \/ facade = "tokio" /\ pc \notin Left
       \/ facade = "blocking" /\ pc = "writing"
    /\ pc' = "dropped"
    /\ receiver' = FALSE
    /\ UNCHANGED <<blob, job, chunks, ack, result, incoming, output, answer>>

\* A Tokio future is dropped before its first poll or at any await; a blocking
\* call ends early only when the caller's writer panics.
Abandon ==
    /\ \/ facade = "tokio" /\ pc \notin Left
       \/ facade = "blocking" /\ pc = "writing"
    /\ pc' = "dropped"
    /\ receiver' = FALSE
    /\ HangUp
    /\ UNCHANGED <<blob, job, chunks, result, incoming, output, answer>>

Released == stage = "dropping" /\ ~sender /\ ~ackReceiver /\ ResultReady

Terminated == pc \in Left /\ (stage = "new" \/ Released) /\ UNCHANGED vars

----------------------------------------------------------------------------
Engine ==
    Dispatch \/ Reject \/ OpenBlob \/ ValidateEnvelope \/ ReadPayload \/ SendChunk \/ SendCancelled
    \/ EndOfPayload \/ ReceiveAcknowledgement \/ Deliver \/ DropSender \/ DropAcknowledgement
    \/ DropResult

Sink == WriteChunk \/ WriteFails

Endpoint ==
    RefuseStart \/ StartLoadStream \/ ReceiveChunk \/ Acknowledge \/ AwaitResult
    \/ AwaitAfterOutputError

Next == Engine \/ Lose \/ Endpoint \/ Sink \/ Abandon \/ Terminated

Spec == Init /\ [][Next]_vars

(* The engine serves every admitted operation, and a polled or blocked     *)
(* caller goes on.  A caller whose writer stalls for ever stays in         *)
(* load_into, in either facade.                                            *)
Fairness == WF_vars(Engine) /\ WF_vars(Endpoint) /\ WF_vars(Sink)

FairSpec == Spec /\ Fairness

----------------------------------------------------------------------------
(* Properties.                                                             *)

\* The caller's writer gets a prefix of the payload, in order, and not one byte
\* of a file whose envelope is not valid as a whole (load_blob_into_sender).
OutputIsValidated ==
    /\ output # <<>> => file = "valid"
    /\ Len(output) <= payload /\ output = SubSeq(Payload, 1, Len(output))

\* Worker and caller agree on success: it means that the whole payload of a valid
\* file is with the caller, and no blob means that there is none.  A caller that
\* saw its own output fail never belongs to a load the engine counts as
\* completed, and no caller is told that its own load was cancelled.
SuccessMeansWholeOutput ==
    /\ outcome = "Some" => file = "valid" /\ output = Payload
    /\ outcome = "None" => file = "absent"
    /\ pc = "returned" /\ answer \in Successes => answer = outcome
    /\ answer = "OutputIo" => outcome # "Some"
    /\ pc = "returned" => answer # "StreamCancelled"

\* Neither side waits for one that is gone.  When the operation is over, answered,
\* rejected or lost, the caller gets out of load_into; and a caller that left or
\* whose output failed frees the worker and the key: the job waits neither for
\* room in the channel nor for an acknowledgement.
NeitherSideWaits ==
    /\ stage = "dropping" ~> pc \in Left
    /\ (pc \in Left \cup {"draining"}) ~> (stage = "new" \/ Released)
=============================================================================
