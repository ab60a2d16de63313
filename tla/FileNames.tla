----------------------------- MODULE FileNames -----------------------------
(***************************************************************************)
(* The names of the files in one namespace that stores of several formats  *)
(* share, on a file system that ignores case (src/path.rs, src/config.rs,  *)
(* and the names in src/filesystem/mod.rs).  A name is a sequence of       *)
(* tokens: a character, or one of the words of a derived name.  Suffixes   *)
(* may spell these words too.                                              *)
(***************************************************************************)
EXTENDS Integers, Sequences, FiniteSets, FiniteSetsExt

CONSTANTS
    Suffixes,       \* filename_suffix arguments
    Tags,           \* lengths of domain_tag arguments
    Versions,       \* envelope_version arguments
    Hashes, Ids,    \* rendered key hashes and random identifiers
    HexLen,         \* their length
    MaxSuffixLen,   \* MAX_FILENAME_SUFFIX_LEN
    MaxFiles        \* bound: files explored

DomainTagLen == 8
Letters == {"a", "g", "_"}
Capitals == {"A"}
Words == {"tmp-v1", "save", "clear", "quarantine-v1"}
Tokens == Letters \cup Capitals \cup Words \cup {"."}
Hex == {"a"}

ASSUME TokensAssumption ==
    /\ Suffixes \subseteq Seq(Tokens)
    /\ Hashes \cup Ids \subseteq Seq(Hex)
    /\ \A h \in Hashes \cup Ids : Len(h) = HexLen
ASSUME BoundsAssumption == MaxFiles \in Nat /\ MaxSuffixLen \in Nat /\ HexLen \in Nat \ {0}

VARIABLES
    formats,        \* the suffixes of the open stores
    files,          \* the files, with the format and the kind they were made as
    actor           \* history: whose step was last, and what it did

vars == <<formats, files, actor>>

NoActor == [suffix |-> <<>>, step |-> "none"]

Init == formats = {} /\ files = {} /\ actor = NoActor

----------------------------------------------------------------------------
(* Identities.                                                             *)

\* Mutant: capital letters are accepted.
ValidateSuffixAnyCase(suffix) ==
    /\ Len(suffix) \in 2..MaxSuffixLen
    /\ suffix[1] = "."
    /\ \A i \in 2..Len(suffix) : suffix[i] \in Letters \cup Capitals \cup Words

ValidateSuffix(suffix) ==
    /\ Len(suffix) \in 2..MaxSuffixLen
    /\ suffix[1] = "."
    /\ \A i \in 2..Len(suffix) : suffix[i] \in Letters \cup Words

\* BlobFormatIdentity::new.
NewIdentity(tag, suffix, version) ==
    tag = DomainTagLen /\ ValidateSuffix(suffix) /\ version = 1

Open(tag, suffix, version) ==
    /\ NewIdentity(tag, suffix, version)
    /\ formats' = formats \cup {suffix}
    /\ actor' = [suffix |-> suffix, step |-> "open"]
    /\ UNCHANGED files

----------------------------------------------------------------------------
(* Names.                                                                  *)

BlobFilename(hash, suffix) == hash \o suffix

\* External: Path::file_stem, what precedes the last dot.
FileStem(name) == SubSeq(name, 1, Max({i \in DOMAIN name : name[i] = "."}) - 1)

\* The staging and quarantine names of the blob at `name'.
DerivedFilename(name, suffix, words, id) == FileStem(name) \o suffix \o words \o id

StagingWords(kind) == <<".", "tmp-v1", ".", kind, ".">>
QuarantineWords == <<".", "quarantine-v1", ".">>

\* External: two names of one file.
Lower(name) == [i \in DOMAIN name |-> IF name[i] = "A" THEN "a" ELSE name[i]]
Clash(name) == {f \in files : Lower(f.name) = Lower(name)}

File(name, suffix, kind) == [name |-> name, suffix |-> suffix, kind |-> kind]

\* The rename onto the canonical path replaces what is there.
Commit(suffix, hash) ==
    LET name == BlobFilename(hash, suffix) IN
    /\ files' = (files \ Clash(name)) \cup {File(name, suffix, "canonical")}
    /\ actor' = [suffix |-> suffix, step |-> "save"]

\* CREATE_NEW and no-replace renames.
Derive(suffix, hash, words, id, kind) ==
    LET name == DerivedFilename(BlobFilename(hash, suffix), suffix, words, id) IN
    /\ Clash(name) = {}
    /\ files' = files \cup {File(name, suffix, kind)}
    /\ actor' = [suffix |-> suffix, step |-> kind]

----------------------------------------------------------------------------
(* Cleanup.                                                                *)

Occurs(part, name) ==
    {i \in 1..(Len(name) - Len(part) + 1) : SubSeq(name, i, i + Len(part) - 1) = part}

IsHex(s) == Len(s) = HexLen /\ \A i \in DOMAIN s : s[i] \in Hex

\* The name is split at the first marker, the rest at its first dot.
IsOwnedTemporaryFilename(name, suffix) ==
    LET marker == suffix \o <<".", "tmp-v1", ".">> IN
    /\ Occurs(marker, name) # {}
    /\ LET at == Min(Occurs(marker, name))
           rest == SubSeq(name, at + Len(marker), Len(name))
       IN  /\ IsHex(SubSeq(name, 1, at - 1))
           /\ Occurs(<<".">>, rest) # {}
           /\ LET dot == Min(Occurs(<<".">>, rest))
              IN  /\ SubSeq(rest, 1, dot - 1) \in {<<"save">>, <<"clear">>}
                  /\ IsHex(SubSeq(rest, dot + 1, Len(rest)))

\* Every file is old enough and can be removed; BlobFiles has ages and failures.
Cleanup(suffix) ==
    /\ files' = {f \in files : ~IsOwnedTemporaryFilename(f.name, suffix)}
    /\ actor' = [suffix |-> suffix, step |-> "cleanup"]

Next ==
    \/ \E tag \in Tags, suffix \in Suffixes, version \in Versions : Open(tag, suffix, version)
    \/ /\ UNCHANGED formats
       /\ \E suffix \in formats :
            \/ Cleanup(suffix)
            \/ /\ Cardinality(files) < MaxFiles
               /\ \E hash \in Hashes :
                    \/ Commit(suffix, hash)
                    \/ \E id \in Ids :
                         \/ \E kind \in {"save", "clear"} :
                              Derive(suffix, hash, StagingWords(kind), id, kind)
                         \/ Derive(suffix, hash, QuarantineWords, id, "quarantine")

Spec == Init /\ [][Next]_vars

----------------------------------------------------------------------------
(* Properties.                                                             *)

\* A store never removes or replaces a file of a store of another format, not even
\* where suffixes spell reserved words or names differ only in case.  And a
\* cleanup takes all staging files of its format and nothing else: the names that
\* saves and clears derive from a path, whose stem is the hash, are the names the
\* cleanup parses.
StoresKeepApart ==
    [][/\ \A f \in files \ files' : f.suffix = actor'.suffix
       /\ actor'.step = "cleanup" =>
            files' = {f \in files : f.suffix # actor'.suffix \/ f.kind \notin {"save", "clear"}}]_vars
=============================================================================
