------------------------------ MODULE Envelope ------------------------------
(***************************************************************************)
(* The envelope of a blob (src/format.rs): tag, version, payload length,   *)
(* payload, checksum.  A streaming save writes one chunk by chunk, and its *)
(* file may be cut short anywhere; later the file may be damaged.  Two     *)
(* decoders read it: load reads the payload into memory, load_into first   *)
(* validates the whole file in chunks and then reads the payload again.    *)
(*                                                                         *)
(* Bytes are the numbers below Base, and the widths of the fields are      *)
(* parameters.  CRC32C is any checksum that can be continued over chunks.  *)
(***************************************************************************)
EXTENDS Integers, Sequences, FiniteSetsExt

CONSTANTS
    Base,           \* number of byte values
    Tag,            \* the configured domain tag
    Version,        \* the envelope version, as bytes
    LengthLen,      \* width of the length field
    ChunkSize,      \* STREAM_CHUNK_SIZE
    Maximums,       \* max_blob_size arguments
    Usizes,         \* values of usize::MAX
    MaxFile         \* bound: length of the damaged files explored

\* The fold of a sequence from the left; step[a][x] is what follows a at x.
Fold(step, base, s) ==
    LET after[i \in 0..Len(s)] == IF i = 0 THEN base ELSE step[after[i - 1]][s[i]]
    IN  after[Len(s)]

Byte == 0..(Base - 1)
ChecksumLen == 1
HeaderLen == Len(Tag) + Len(Version) + LengthLen
Overhead == HeaderLen + ChecksumLen

\* Base to the power k, and the largest number of a length field.
Power(k) == Fold([p \in Nat |-> [b \in Nat |-> p * b]], 1, [i \in 1..k |-> Base])
Word == Power(LengthLen) - 1

ASSUME FieldsAssumption ==
    /\ Base \in Nat \ {0, 1} /\ LengthLen \in Nat \ {0} /\ ChunkSize \in Nat \ {0}
    /\ Tag \in Seq(Byte) /\ Version \in Seq(Byte)
ASSUME LimitsAssumption ==
    Maximums \subseteq 0..Word /\ Usizes \subseteq 0..Word /\ Word \in Usizes /\ MaxFile \in Nat

VARIABLES
    maximum, usize, \* the process that reads and writes
    declared,       \* the length a streaming save declared
    stage,          \* what it writes next; "done", "failed", or "damaged" later
    file,           \* the bytes of the file
    crc,            \* the running checksum
    payload         \* what was written of the payload; its length is `written'

vars == <<maximum, usize, declared, stage, file, crc, payload>>
limits == <<maximum, usize, declared>>

\* Big-endian fields.
Field(n, width) == [i \in 1..width |-> (n \div Power(width - i)) % Base]
Number(s) == Fold([n \in Nat |-> [b \in Byte |-> n * Base + b]], 0, s)

\* External: a checksum that can be continued.
CrcAppend(c, s) == Fold([a \in Byte |-> [b \in Byte |-> (2 * a + b + 1) % Base]], c, s)
Crc(s) == CrcAppend(0, s)

\* The checksum continued over chunk after chunk.
CrcAppendAll(c, chunks) ==
    Fold([a \in Byte |-> [s \in Seq(Byte) |-> CrcAppend(a, s)]], c, chunks)

ValidMaximum(m) == m + Overhead <= Word

Init ==
    /\ maximum \in {m \in Maximums : ValidMaximum(m)}
    /\ usize \in Usizes
    /\ declared \in 0..Word
    /\ stage = "header"
    /\ file = <<>>
    /\ crc = 0
    /\ payload = <<>>

----------------------------------------------------------------------------
(* Writing.                                                                *)

\* Mutant: the length is left zero, to be filled in at the end.
HeaderUnsized(size) == Tag \o Version \o Field(0, LengthLen)

EnvelopeHeader(size) == Tag \o Version \o Field(size, LengthLen)

\* encode_envelope and envelope_parts, the save of a complete payload.
EncodeEnvelope(p) ==
    LET header == EnvelopeHeader(Len(p))
    IN  header \o p \o Field(CrcAppend(Crc(header), p), ChecksumLen)

Failed == stage' = "failed" /\ UNCHANGED <<crc, payload>>

\* write_all fails after any part of the bytes.
WriteFails(bytes) ==
    /\ \E n \in 0..(Len(bytes) - 1) : file' = file \o SubSeq(bytes, 1, n)
    /\ Failed

WriteHeader ==
    /\ stage = "header"
    /\ \/ declared > maximum /\ Failed /\ UNCHANGED file
       \/ /\ declared <= maximum
          /\ \/ /\ file' = EnvelopeHeader(declared)
                /\ crc' = Crc(file')
                /\ stage' = "payload"
                /\ UNCHANGED payload
             \/ WriteFails(EnvelopeHeader(declared))
    /\ UNCHANGED limits

WriteChunk(chunk) ==
    /\ stage = "payload"
    /\ \/ Len(payload) + Len(chunk) > declared /\ Failed /\ UNCHANGED file
       \/ /\ Len(payload) + Len(chunk) <= declared
          /\ \/ /\ file' = file \o chunk
                /\ crc' = CrcAppend(crc, chunk)
                /\ payload' = payload \o chunk
                /\ UNCHANGED stage
             \/ WriteFails(chunk)
    /\ UNCHANGED limits

Checksum == Field(crc, ChecksumLen)

\* The Complete message.
WriteChecksum ==
    /\ stage = "payload"
    /\ \/ Len(payload) # declared /\ Failed /\ UNCHANGED file
       \/ /\ Len(payload) = declared
          /\ \/ /\ file' = file \o Checksum
                /\ stage' = "done"
                /\ UNCHANGED <<crc, payload>>
             \/ WriteFails(Checksum)
    /\ UNCHANGED limits

\* Every sender is gone.
Disconnected ==
    /\ stage = "payload"
    /\ Failed
    /\ UNCHANGED <<file, limits>>

\* External: what may become of a file.
Damage ==
    /\ stage \in {"done", "failed", "damaged"}
    /\ \/ \E b \in Byte : Len(file) < MaxFile /\ file' = Append(file, b)
       \/ file # <<>> /\ file' = SubSeq(file, 1, Len(file) - 1)
    /\ stage' = "damaged"
    /\ payload' = <<>>
    /\ crc' = 0
    /\ declared' = 0
    /\ UNCHANGED <<maximum, usize>>

Chunks == UNION {[1..n -> Byte] : n \in 1..ChunkSize}

Next ==
    \/ WriteHeader
    \/ \E chunk \in Chunks : WriteChunk(chunk)
    \/ WriteChecksum
    \/ Disconnected
    \/ Damage

Spec == Init /\ [][Next]_vars

----------------------------------------------------------------------------
(* Reading.  Reads that reach byte `fault' fail; there is no such byte when *)
(* fault > Len(f).  A decoder answers with the first check that fails.     *)

Ok == <<"Ok">>
Truncated(section) == <<"TruncatedEnvelope", section>>

Require(condition, error) == IF condition THEN Ok ELSE <<error>>

FirstError(checks) ==
    LET failing == {i \in DOMAIN checks : checks[i] # Ok}
    IN  IF failing = {} THEN Ok ELSE checks[Min(failing)]

\* The part of n bytes from offset at that f has.
Part(f, at, n) == SubSeq(f, at + 1, Min({at + n, Len(f)}))

\* Mutant: every failing read is taken for the end of the file.
ReadSectionShort(f, fault, at, n, section) ==
    IF n = 0 \/ at + n <= Min({Len(f), fault}) THEN Ok ELSE Truncated(section)

ReadSection(f, fault, at, n, section) ==
    IF n = 0 \/ at + n <= Min({Len(f), fault}) THEN Ok
    ELSE IF fault <= Len(f) THEN <<"Io">> ELSE Truncated(section)

\* Mutant: what follows the checksum is ignored.
IgnoreTrailing(f, fault, at) == IF fault <= Len(f) THEN <<"Io">> ELSE Ok

\* One more read must find the end of the file.
ReadEnd(f, fault, at) ==
    IF at + 1 <= Min({Len(f), fault}) THEN <<"TrailingData">>
    ELSE IF fault <= Len(f) THEN <<"Io">> ELSE Ok

TagOf(f) == Part(f, 0, Len(Tag))
VersionOf(f) == Part(f, Len(Tag), Len(Version))
DeclaredIn(f) == Number(Part(f, Len(Tag) + Len(Version), LengthLen))

\* The header, the same in both decoders.
HeaderChecks(f, fault) ==
    << ReadSection(f, fault, 0, Len(Tag), "Magic"),
       Require(TagOf(f) = Tag, "InvalidEnvelopeDomain"),
       ReadSection(f, fault, Len(Tag), Len(Version), "Version"),
       Require(VersionOf(f) = Version, "UnsupportedEnvelopeVersion"),
       ReadSection(f, fault, Len(Tag) + Len(Version), LengthLen, "PayloadLength"),
       Require(DeclaredIn(f) <= maximum, "BlobTooLarge") >>

PayloadIn(f) == Part(f, HeaderLen, DeclaredIn(f))
ChecksumIn(f) == Number(Part(f, HeaderLen + DeclaredIn(f), ChecksumLen))

\* decode_reader_with_usize_limit.
DecodeChecks(f, fault) ==
    LET n == DeclaredIn(f)
        actual == CrcAppend(CrcAppend(CrcAppend(Crc(Tag), Version), Field(n, LengthLen)), PayloadIn(f))
    IN  << Require(n <= usize, "InvalidPayloadLength"),
           Require(n + Overhead <= usize, "InvalidPayloadLength"),
           ReadSection(f, fault, HeaderLen, n, "Payload"),
           ReadSection(f, fault, HeaderLen + n, ChecksumLen, "Checksum"),
           ReadEnd(f, fault, HeaderLen + n + ChecksumLen),
           Require(ChecksumIn(f) = actual, "ChecksumMismatch") >>

\* Decode's whole answer, and the payload it returns with Ok.
Decode(f, fault) == FirstError(HeaderChecks(f, fault) \o DecodeChecks(f, fault))

\* The offsets at which chunks of the payload start.
ChunkCount(f) == (DeclaredIn(f) + ChunkSize - 1) \div ChunkSize
ChunkAt(i) == HeaderLen + (i - 1) * ChunkSize

ChunkLen(f, i) == Min({ChunkSize, DeclaredIn(f) - (i - 1) * ChunkSize})

PayloadChunks(f) == [i \in 1..ChunkCount(f) |-> Part(f, ChunkAt(i), ChunkLen(f, i))]

\* Mutant: the checksum is compared before the end of the file is looked for.
ValidateChecksumFirst(f, fault) ==
    LET n == DeclaredIn(f)
        actual == CrcAppendAll(Crc(Part(f, 0, HeaderLen)), PayloadChunks(f))
    IN  [i \in 1..ChunkCount(f) |-> ReadSection(f, fault, ChunkAt(i), ChunkLen(f, i), "Payload")]
        \o << ReadSection(f, fault, HeaderLen + n, ChecksumLen, "Checksum"),
              Require(ChecksumIn(f) = actual, "ChecksumMismatch"),
              ReadEnd(f, fault, HeaderLen + n + ChecksumLen) >>

\* validate_envelope_reader.
ValidateChecks(f, fault) ==
    LET n == DeclaredIn(f)
        actual == CrcAppendAll(Crc(Part(f, 0, HeaderLen)), PayloadChunks(f))
    IN  [i \in 1..ChunkCount(f) |-> ReadSection(f, fault, ChunkAt(i), ChunkLen(f, i), "Payload")]
        \o << ReadSection(f, fault, HeaderLen + n, ChecksumLen, "Checksum"),
              ReadEnd(f, fault, HeaderLen + n + ChecksumLen),
              Require(ChecksumIn(f) = actual, "ChecksumMismatch") >>

Validate(f, fault) == FirstError(HeaderChecks(f, fault) \o ValidateChecks(f, fault))

\* What load_into then reads from the validated file.
Streamed(f) == Fold([p \in Seq(Byte) |-> [s \in Seq(Byte) |-> p \o s]], <<>>, PayloadChunks(f))

----------------------------------------------------------------------------
(* Properties.                                                             *)

NoFault == MaxFile + Word + Overhead + 1
Faults == 0..Len(file) \cup {NoFault}

\* Whatever the file holds and wherever reading it fails, load and load_into give
\* the same answer for the same reason; load alone turns away a blob that does
\* not fit in memory, and does so instead of any later error.
DecodersAgree ==
    \A fault \in Faults :
        LET loaded == Decode(file, fault)
        IN  \/ loaded = Validate(file, fault)
            \/ /\ loaded = <<"InvalidPayloadLength">>
               /\ DeclaredIn(file) \in (usize - Overhead + 1)..maximum

\* A file exactly as the format describes it: fields, sizes and end.
IsEnvelope(f) ==
    \E n \in 0..maximum :
        /\ Len(f) = HeaderLen + n + ChecksumLen
        /\ SubSeq(f, 1, HeaderLen) = Tag \o Version \o Field(n, LengthLen)
        /\ SubSeq(f, HeaderLen + n + 1, Len(f)) = Field(Crc(SubSeq(f, 1, HeaderLen + n)), ChecksumLen)

\* The decoders accept the files of the documented format, and no others: no
\* shorter or longer file, and no second encoding of a payload.
AcceptsExactly == Validate(file, NoFault) = Ok <=> IsEnvelope(file)

\* What a save leaves is loadable exactly when it finished.  A finished streamed
\* save has the bytes that saving the whole payload would have written, however
\* the payload was cut into chunks, and loads again under the same configuration,
\* whole where u64 lengths fit in usize and in chunks everywhere.  A save that
\* failed, was cancelled or has not finished leaves a file that is recognized as
\* truncated at whatever byte it is cut.
LoadableWhenFinished ==
    /\ stage = "done" =>
        /\ file = EncodeEnvelope(payload)
        /\ Validate(file, NoFault) = Ok /\ Streamed(file) = payload
        /\ usize = Word => Decode(file, NoFault) = Ok /\ PayloadIn(file) = payload
    /\ stage \in {"header", "payload", "failed"} =>
        \A n \in 0..Len(file) : Validate(SubSeq(file, 1, n), NoFault)[1] = "TruncatedEnvelope"

\* A failing read is reported as such or comes too late to matter: it never turns
\* the answer into another one, such as a truncation.
FaultNeverMisleads ==
    LET loaded == Decode(file, NoFault)
        validated == Validate(file, NoFault)
    IN  \A fault \in 0..Len(file) :
            /\ Decode(file, fault) \in {<<"Io">>, loaded} \ {Ok}
            /\ Validate(file, fault) \in {<<"Io">>, validated} \ {Ok}
=============================================================================
