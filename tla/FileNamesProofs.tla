-------------------------- MODULE FileNamesProofs --------------------------
(* Proofs about the names of the files that stores of several formats      *)
(* keep in one namespace.                                                  *)
EXTENDS FileNames, SequenceTheorems, WellFoundedInduction, TLAPS

\* A set of numbers has a smallest one.
LEMMA LeastNumber ==
    ASSUME NEW T \in SUBSET Nat, T # {}
    PROVE  \E x \in T : \A y \in T : x <= y
<1> DEFINE R == OpToRel(<, Nat)
<1>1. \E x \in T : \A y \in T : ~(<<y, x>> \in R)
  BY WFMin, NatLessThanWellFounded
<1>2. \A x, y \in Nat : <<y, x>> \in R <=> y < x
  BY DEF OpToRel
<1> HIDE DEF R
<1>3. PICK x \in T : \A y \in T : ~(<<y, x>> \in R)
  BY <1>1
<1>4. ASSUME NEW y \in T
      PROVE  x <= y
  <2>1. ~(<<y, x>> \in R)
    BY <1>3
  <2>2. x \in Nat /\ y \in Nat
    OBVIOUS
  <2>3. ~(y < x)
    BY <1>2, <2>1, <2>2
  <2> QED
    BY <2>2, <2>3
<1> QED
  BY <1>4

\* The minimum of a set of numbers.
LEMMA MinProperties ==
    ASSUME NEW T \in SUBSET Nat, T # {}
    PROVE  Min(T) \in T /\ \A y \in T : Min(T) <= y
BY LeastNumber DEF Min

----------------------------------------------------------------------------
(* Names, position after position.                                         *)

\* The characters that no two names can differ in by case.
Plain == Letters \cup Words \cup {"."}

\* The elements of a concatenation.
LEMMA ConcatElements ==
    ASSUME NEW X, NEW c \in Seq(X), NEW d \in Seq(X)
    PROVE  /\ c \o d \in Seq(X) /\ Len(c \o d) = Len(c) + Len(d)
           /\ \A i \in 1..Len(c) : (c \o d)[i] = c[i]
           /\ \A i \in 1..Len(d) : (c \o d)[Len(c) + i] = d[i]
OBVIOUS

\* An accepted suffix, and a rendered hash or identifier.
IsSuffix(s) ==
    /\ s \in Seq(Plain) /\ Len(s) >= 2 /\ s[1] = "."
    /\ \A i \in 2..Len(s) : s[i] # "."
IsHash(h) == h \in Seq(Plain) /\ Len(h) = HexLen /\ \A i \in 1..HexLen : h[i] = "a"

LEMMA AcceptedSuffix ==
    ASSUME NEW s \in Suffixes, ValidateSuffix(s)
    PROVE  IsSuffix(s)
<1>1. s \in Seq(Tokens) /\ Len(s) \in Nat /\ Len(s) >= 2 /\ s[1] = "."
  BY TokensAssumption, BoundsAssumption DEF ValidateSuffix
<1>2. \A i \in 2..Len(s) : s[i] \in Plain /\ s[i] # "."
  BY DEF ValidateSuffix, Plain, Letters, Words
<1>3. \A i \in 1..Len(s) : s[i] \in Plain
  <2>1. "." \in Plain
    BY DEF Plain
  <2> QED
    BY <1>1, <1>2, <2>1
<1>4. s \in Seq(Plain)
  <2>1. s = [i \in 1..Len(s) |-> s[i]]
    BY <1>1
  <2>2. [i \in 1..Len(s) |-> s[i]] \in Seq(Plain)
    BY <1>1, <1>3
  <2> QED
    BY <2>1, <2>2
<1> QED
  BY <1>1, <1>2, <1>4 DEF IsSuffix

LEMMA RenderedHash ==
    ASSUME NEW h \in Hashes \cup Ids
    PROVE  IsHash(h)
<1>1. h \in Seq(Hex) /\ Len(h) = HexLen /\ HexLen \in Nat
  BY TokensAssumption, BoundsAssumption
<1>2. \A i \in 1..HexLen : h[i] = "a"
  BY <1>1 DEF Hex
<1>3. h \in Seq(Plain)
  <2>1. h = [i \in 1..HexLen |-> h[i]]
    BY <1>1
  <2>2. \A i \in 1..HexLen : h[i] \in Plain
    BY <1>2 DEF Plain, Letters
  <2>3. [i \in 1..HexLen |-> h[i]] \in Seq(Plain)
    BY <1>1, <2>2
  <2> QED
    BY <2>1, <2>3
<1> QED
  BY <1>1, <1>2, <1>3 DEF IsHash

\* What follows a suffix: nothing, or words that begin with a dot.
IsRest(w) == w \in Seq(Plain) /\ (Len(w) = 0 \/ w[1] = ".")

\* The name of a file: hash, suffix and the rest, in their places.
Composed(name, h, s, w) ==
    /\ name \in Seq(Plain) /\ Len(name) = HexLen + Len(s) + Len(w)
    /\ \A i \in 1..HexLen : name[i] = h[i]
    /\ \A i \in 1..Len(s) : name[HexLen + i] = s[i]
    /\ \A i \in 1..Len(w) : name[HexLen + Len(s) + i] = w[i]

LEMMA NameElements ==
    ASSUME NEW h, IsHash(h), NEW s, IsSuffix(s), NEW w \in Seq(Plain)
    PROVE  Composed((h \o s) \o w, h, s, w)
<1> DEFINE P == Plain
<1>1. h \in Seq(P) /\ s \in Seq(P) /\ w \in Seq(P) /\ Len(h) = HexLen
  BY DEF IsHash, IsSuffix
<1>2. Len(s) \in Nat /\ Len(w) \in Nat /\ HexLen \in Nat
  BY <1>1, BoundsAssumption
<1> HIDE DEF P
<1>p. h \in Seq(P) /\ s \in Seq(P)
  BY <1>1
<1> DEFINE u == h \o s
<1>3. /\ u \in Seq(P) /\ Len(u) = Len(h) + Len(s)
      /\ \A i \in 1..Len(h) : u[i] = h[i]
      /\ \A i \in 1..Len(s) : u[Len(h) + i] = s[i]
  BY <1>p, ConcatElements
<1> HIDE DEF u
<1> DEFINE n == u \o w
<1>4. /\ n \in Seq(P) /\ Len(n) = Len(u) + Len(w)
      /\ \A i \in 1..Len(u) : n[i] = u[i]
      /\ \A i \in 1..Len(w) : n[Len(u) + i] = w[i]
  <2>1. u \in Seq(P) /\ w \in Seq(P)
    BY <1>1, <1>3
  <2> QED
    BY <2>1, ConcatElements
<1> HIDE DEF n
<1>5. Len(u) = HexLen + Len(s) /\ Len(n) = HexLen + Len(s) + Len(w)
  BY <1>1, <1>3, <1>4
<1>6. ASSUME NEW i \in 1..HexLen PROVE n[i] = h[i]
  <2>1. i \in 1..Len(u)
    BY <1>2, <1>5
  <2> QED
    BY <1>1, <1>3, <1>4, <2>1
<1>7. ASSUME NEW i \in 1..Len(s) PROVE n[HexLen + i] = s[i]
  <2>1. HexLen + i \in 1..Len(u)
    BY <1>2, <1>5
  <2> QED
    BY <1>1, <1>3, <1>4, <2>1
<1>8. ASSUME NEW i \in 1..Len(w) PROVE n[HexLen + Len(s) + i] = w[i]
  BY <1>4, <1>5
<1> QED
  BY <1>4, <1>5, <1>6, <1>7, <1>8 DEF Composed, n, u, P

\* No composed name has a capital letter.
LEMMA PlainLower ==
    ASSUME NEW name \in Seq(Plain)
    PROVE  Lower(name) = name
<1>1. \A i \in 1..Len(name) : name[i] # "A"
  <2>1. \A x \in Plain : x # "A"
    BY DEF Plain, Letters, Words
  <2>2. \A i \in 1..Len(name) : name[i] \in Plain
    OBVIOUS
  <2> QED
    BY <2>1, <2>2
<1>2. name = [i \in 1..Len(name) |-> name[i]] /\ DOMAIN name = 1..Len(name)
  OBVIOUS
<1>3. Lower(name) = [i \in 1..Len(name) |-> name[i]]
  BY <1>1, <1>2 DEF Lower
<1> QED
  BY <1>2, <1>3

\* The stem of a blob's name is the hash: the suffix has the only dot.
LEMMA StemOfBlob ==
    ASSUME NEW h, IsHash(h), NEW s, IsSuffix(s)
    PROVE  FileStem(BlobFilename(h, s)) = h
<1> DEFINE n == h \o s  P == Plain  dots == {i \in DOMAIN n : n[i] = "."}  k == HexLen + 1
<1>1. h \in Seq(P) /\ s \in Seq(P)
  BY DEF IsHash, IsSuffix
<1>2. /\ Len(h) = HexLen /\ HexLen \in Nat /\ Len(s) \in Nat /\ Len(s) >= 2
      /\ \A i \in 1..HexLen : h[i] = "a"
      /\ s[1] = "." /\ \A i \in 2..Len(s) : s[i] # "."
  BY BoundsAssumption DEF IsHash, IsSuffix
<1> HIDE DEF P
<1>3. /\ n \in Seq(P) /\ Len(n) = Len(h) + Len(s)
      /\ \A i \in 1..Len(h) : n[i] = h[i]
      /\ \A i \in 1..Len(s) : n[Len(h) + i] = s[i]
  BY <1>1, ConcatElements
<1> HIDE DEF n
<1>4. DOMAIN n = 1..Len(n) /\ Len(n) = HexLen + Len(s)
  BY <1>2, <1>3
<1>5. k \in dots
  <2>1. k \in 1..Len(n) /\ 1 \in 1..Len(s)
    BY <1>2, <1>4
  <2>2. n[k] = s[1]
    BY <1>2, <1>3, <2>1
  <2> QED
    BY <1>2, <1>4, <2>1, <2>2
<1>6. ASSUME NEW i \in dots
      PROVE  i = k
  <2>1. i \in 1..Len(n) /\ n[i] = "."
    BY <1>4
  <2>2. CASE i <= HexLen
    <3>1. i \in 1..HexLen
      BY <1>2, <2>1, <2>2
    <3>2. n[i] = "a"
      BY <1>2, <1>3, <3>1
    <3> QED
      BY <2>1, <3>2
  <2>3. CASE i > k
    <3> DEFINE j == i - HexLen
    <3>1. j \in 2..Len(s) /\ j \in 1..Len(s) /\ i = HexLen + j
      BY <1>2, <1>4, <2>1, <2>3
    <3> HIDE DEF j
    <3>2. n[HexLen + j] = s[j] /\ s[j] # "."
      BY <1>2, <1>3, <3>1
    <3> QED
      BY <2>1, <3>1, <3>2
  <2> QED
    BY <1>2, <1>4, <2>1, <2>2, <2>3
<1>7. dots = {k} /\ k \in Nat
  BY <1>2, <1>5, <1>6
<1> HIDE DEF dots, k
<1>8. Max({k}) = k
  BY <1>7 DEF Max
<1>9. FileStem(n) = SubSeq(n, 1, k - 1)
  BY <1>7, <1>8 DEF FileStem, dots
<1>10. SubSeq(n, 1, HexLen) = h
  <2> DEFINE u == SubSeq(n, 1, HexLen)
  <2>1. \A i \in 1..HexLen : n[i] \in P
    BY <1>2, <1>3
  <2>2. u \in Seq(P) /\ Len(u) = HexLen /\ \A i \in 1..HexLen - 1 + 1 : u[i] = n[1 + i - 1]
    BY <1>2, <2>1, SubSeqProperties
  <2> HIDE DEF u
  <2>3. \A i \in 1..Len(u) : u[i] = h[i]
    BY <1>2, <1>3, <2>2
  <2>4. u = h
    BY <1>1, <1>2, <2>2, <2>3, SeqEqual
  <2> QED
    BY <2>4 DEF u
<1>11. k - 1 = HexLen
  BY <1>2 DEF k
<1> QED
  BY <1>9, <1>10, <1>11 DEF BlobFilename, n

\* A derived name: hash, suffix, words and identifier.
LEMMA DerivedName ==
    ASSUME NEW h, IsHash(h), NEW s, IsSuffix(s), NEW words \in Seq(Plain), NEW id, IsHash(id)
    PROVE  DerivedFilename(BlobFilename(h, s), s, words, id) = (h \o s) \o (words \o id)
<1> DEFINE P == Plain  n == DerivedFilename(BlobFilename(h, s), s, words, id)
<1>1. n = ((h \o s) \o words) \o id
  BY StemOfBlob DEF DerivedFilename
<1>2. h \in Seq(P) /\ s \in Seq(P) /\ words \in Seq(P) /\ id \in Seq(P)
  BY DEF IsHash, IsSuffix
<1> HIDE DEF P, n
<1> DEFINE u == h \o s
<1>3. u \in Seq(P)
  BY <1>2, ConcatElements
<1> HIDE DEF u
<1>4. (u \o words) \o id = u \o (words \o id)
  <2> DEFINE v == words
  <2>1. u \in Seq(P) /\ v \in Seq(P) /\ id \in Seq(P)
    BY <1>2, <1>3
  <2> HIDE DEF v
  <2>2. (u \o v) \o id = u \o (v \o id)
    BY SMTT(60), <2>1, ConcatAssociative
  <2> QED
    BY <2>2 DEF v
<1> QED
  BY <1>1, <1>4 DEF u, n

----------------------------------------------------------------------------
(* Markers.                                                                *)

\* part stands in name from position i on.
At(part, name, i) == \A j \in 1..Len(part) : name[i + j - 1] = part[j]

LEMMA OccursAt ==
    ASSUME NEW part \in Seq(Plain), NEW name \in Seq(Plain), Len(part) >= 1, NEW i \in Int
    PROVE  i \in Occurs(part, name) <=>
             /\ 1 <= i /\ i + Len(part) - 1 <= Len(name)
             /\ At(part, name, i)
<1> DEFINE l == Len(part)  m == i + l - 1  u == SubSeq(name, i, m)
<1>1. l \in Nat /\ l >= 1 /\ Len(name) \in Nat /\ m \in Int
  OBVIOUS
<1>2. i \in Occurs(part, name) <=> 1 <= i /\ m <= Len(name) /\ u = part
  BY <1>1 DEF Occurs
<1>3. ASSUME 1 <= i, m <= Len(name)
      PROVE  u = part <=> At(part, name, i)
  <2> HIDE DEF m
  <2>m. m = i + l - 1
    BY DEF m
  <2>1. \A j \in i..m : name[j] \in Plain
    BY <1>1, <1>3
  <2>2. u \in Seq(Plain) /\ Len(u) = l
        /\ \A j \in 1..m - i + 1 : u[j] = name[i + j - 1]
    BY <1>1, <2>m, <2>1, SubSeqProperties
  <2> HIDE DEF u
  <2>3. \A j \in 1..l : u[j] = name[i + j - 1]
    BY <1>1, <2>m, <2>2
  <2>4. u = part => At(part, name, i)
    BY <2>3 DEF At
  <2>5. ASSUME At(part, name, i) PROVE u = part
    <3>1. \A j \in 1..l : u[j] = part[j]
      BY <2>3, <2>5 DEF At
    <3> QED
      BY <2>2, <3>1, SeqEqual
  <2> QED
    BY <2>4, <2>5
<1> QED
  BY <1>2, <1>3

\* What the cleanup of a store with suffix t looks for.
Marker(t) == t \o <<".", "tmp-v1", ".">>

LEMMA MarkerElements ==
    ASSUME NEW t, IsSuffix(t)
    PROVE  /\ Marker(t) \in Seq(Plain) /\ Len(Marker(t)) = Len(t) + 3 /\ Len(t) \in Nat
           /\ \A j \in 1..Len(t) : Marker(t)[j] = t[j]
           /\ Marker(t)[Len(t) + 1] = "." /\ Marker(t)[Len(t) + 2] = "tmp-v1"
           /\ Marker(t)[Len(t) + 3] = "."
<1> DEFINE w == <<".", "tmp-v1", ".">>  P == Plain  m == t \o w
<1>1. "." \in P /\ "tmp-v1" \in P
  BY DEF Plain, Words
<1>2. t \in Seq(P)
  BY DEF IsSuffix
<1> HIDE DEF P
<1>3. w \in Seq(P) /\ Len(w) = 3 /\ w[1] = "." /\ w[2] = "tmp-v1" /\ w[3] = "."
  BY <1>1
<1> HIDE DEF w
<1>4. /\ m \in Seq(P) /\ Len(m) = Len(t) + Len(w)
      /\ \A i \in 1..Len(t) : m[i] = t[i]
      /\ \A i \in 1..Len(w) : m[Len(t) + i] = w[i]
  <2>1. t \in Seq(P) /\ w \in Seq(P)
    BY <1>2, <1>3
  <2> QED
    BY <2>1, ConcatElements
<1> HIDE DEF m
<1>5. 1 \in 1..Len(w) /\ 2 \in 1..Len(w) /\ 3 \in 1..Len(w) /\ Len(t) \in Nat
  BY <1>2, <1>3
<1>6. m[Len(t) + 1] = "." /\ m[Len(t) + 2] = "tmp-v1" /\ m[Len(t) + 3] = "."
  BY <1>3, <1>4, <1>5
<1>7. Marker(t) = m
  BY DEF Marker, m, w
<1> QED
  BY <1>3, <1>4, <1>5, <1>6, <1>7 DEF P

\* A marker in a name, after as many hex digits as a hash has, is the name's own
\* suffix and a staging word: neither suffix has a second dot.
LEMMA MarkerInName ==
    ASSUME NEW n, NEW h, NEW s, NEW w, IsHash(h), IsSuffix(s), IsRest(w), Composed(n, h, s, w),
           NEW t, IsSuffix(t), HexLen + Len(t) + 3 <= Len(n), At(Marker(t), n, HexLen + 1)
    PROVE  t = s /\ Len(w) >= 3 /\ w[2] = "tmp-v1"
<1>1. /\ HexLen \in Nat /\ Len(s) \in Nat /\ Len(t) \in Nat /\ Len(w) \in Nat
      /\ Len(s) >= 2 /\ Len(t) >= 2 /\ s \in Seq(Plain) /\ t \in Seq(Plain)
      /\ Len(n) = HexLen + Len(s) + Len(w)
  BY BoundsAssumption DEF IsSuffix, IsRest, Composed
<1>2. /\ \A i \in 2..Len(s) : s[i] # "."
      /\ \A i \in 2..Len(t) : t[i] # "."
      /\ Len(w) = 0 \/ w[1] = "."
      /\ \A i \in 1..Len(s) : n[HexLen + i] = s[i]
      /\ \A i \in 1..Len(w) : n[HexLen + Len(s) + i] = w[i]
  BY DEF IsSuffix, IsRest, Composed
<1>3. ASSUME NEW j \in 1..Len(t) + 3
      PROVE  n[HexLen + j] = Marker(t)[j]
  <2>1. j \in 1..Len(Marker(t)) /\ (HexLen + 1) + j - 1 = HexLen + j
    BY <1>1, MarkerElements
  <2> QED
    BY <2>1 DEF At
<1>4. ASSUME NEW j \in 1..Len(t)
      PROVE  n[HexLen + j] = t[j]
  <2>1. j \in 1..Len(t) + 3
    BY <1>1
  <2> QED
    BY <1>3, <2>1, MarkerElements
<1>5. n[HexLen + (Len(t) + 1)] = "." /\ n[HexLen + (Len(t) + 2)] = "tmp-v1"
  <2>1. Len(t) + 1 \in 1..Len(t) + 3 /\ Len(t) + 2 \in 1..Len(t) + 3
    BY <1>1
  <2> QED
    BY <1>3, <2>1, MarkerElements
<1>6. ~(Len(t) < Len(s))
  <2> SUFFICES ASSUME Len(t) < Len(s) PROVE FALSE
    OBVIOUS
  <2>1. Len(t) + 1 \in 2..Len(s) /\ Len(t) + 1 \in 1..Len(s)
    BY <1>1
  <2> QED
    BY <1>2, <1>5, <2>1
<1>7. ~(Len(t) > Len(s))
  <2> SUFFICES ASSUME Len(t) > Len(s) PROVE FALSE
    OBVIOUS
  <2>1. Len(w) >= 1 /\ Len(s) + 1 \in 2..Len(t) /\ Len(s) + 1 \in 1..Len(t)
    BY <1>1
  <2>2. w[1] = "." /\ 1 \in 1..Len(w)
    BY <1>1, <1>2, <2>1
  <2>3. n[HexLen + Len(s) + 1] = "."
    BY <1>2, <2>2
  <2>4. HexLen + Len(s) + 1 = HexLen + (Len(s) + 1)
    BY <1>1
  <2> QED
    BY <1>2, <1>4, <2>1, <2>3, <2>4
<1>8. Len(t) = Len(s)
  BY <1>1, <1>6, <1>7
<1>9. t = s
  <2>1. \A i \in 1..Len(t) : t[i] = s[i]
    BY <1>2, <1>4, <1>8
  <2> QED
    BY <1>1, <1>8, <2>1, SeqEqual
<1>10. Len(w) >= 3 /\ 2 \in 1..Len(w)
  BY <1>1, <1>8
<1>11. w[2] = "tmp-v1"
  <2>1. HexLen + Len(s) + 2 = HexLen + (Len(t) + 2)
    BY <1>1, <1>8
  <2> QED
    BY <1>2, <1>5, <1>10, <2>1
<1> QED
  BY <1>9, <1>10, <1>11

\* What the cleanup removes is a staging file of its own suffix.
LEMMA OwnedOnly ==
    ASSUME NEW n, NEW h, NEW s, NEW w, IsHash(h), IsSuffix(s), IsRest(w), Composed(n, h, s, w),
           NEW t, IsSuffix(t), IsOwnedTemporaryFilename(n, t)
    PROVE  t = s /\ Len(w) >= 3 /\ w[2] = "tmp-v1"
<1> DEFINE m == Marker(t)  T == Occurs(m, n)  at == Min(T)
<1>1. /\ n \in Seq(Plain) /\ Len(n) \in Nat /\ HexLen \in Nat
      /\ m \in Seq(Plain) /\ Len(m) = Len(t) + 3 /\ Len(t) \in Nat /\ Len(m) >= 1
  BY BoundsAssumption, MarkerElements DEF Composed
<1>2. T # {} /\ IsHex(SubSeq(n, 1, at - 1))
  BY DEF IsOwnedTemporaryFilename, Marker
<1> HIDE DEF m
<1>3. T \in SUBSET Nat
  BY <1>1 DEF Occurs
<1>4. at \in T
  <2> HIDE DEF T
  <2> QED
    BY <1>2, <1>3, MinProperties
<1>5. at \in Nat
  BY <1>3, <1>4
<1> HIDE DEF at
<1>6. 1 <= at /\ at + Len(m) - 1 <= Len(n) /\ At(m, n, at)
  BY <1>1, <1>4, <1>5, OccursAt
<1>7. at - 1 = HexLen
  <2> DEFINE u == SubSeq(n, 1, at - 1)
  <2>1. \A i \in 1..at - 1 : n[i] \in Plain
    BY <1>1, <1>5, <1>6
  <2>2. at - 1 \in Int /\ 1 \in Int
    BY <1>5
  <2>3. Len(u) = IF 1 <= at - 1 THEN at - 1 - 1 + 1 ELSE 0
    BY <2>1, <2>2, SubSeqProperties
  <2>4. Len(u) = HexLen
    BY <1>2 DEF IsHex
  <2> HIDE DEF u
  <2> QED
    BY <1>1, <1>5, <1>6, <2>3, <2>4
<1>8. at = HexLen + 1 /\ HexLen + Len(t) + 3 <= Len(n)
  BY <1>1, <1>5, <1>6, <1>7
<1>9. At(Marker(t), n, HexLen + 1)
  BY <1>6, <1>8 DEF m
<1> QED
  BY <1>8, <1>9, MarkerInName

\* w is what follows the suffix in a staging name, element by element.
IsStagingRest(w, kind) ==
    /\ w \in Seq(Plain) /\ Len(w) = 5 + HexLen
    /\ w[1] = "." /\ w[2] = "tmp-v1" /\ w[3] = "." /\ w[4] = kind /\ w[5] = "."
    /\ \A i \in 1..HexLen : w[5 + i] = "a"

LEMMA StagingElements ==
    ASSUME NEW kind \in {"save", "clear"}, NEW id, IsHash(id)
    PROVE  /\ StagingWords(kind) \in Seq(Plain)
           /\ IsStagingRest(StagingWords(kind) \o id, kind)
<1> DEFINE P == Plain  c == StagingWords(kind)  w == c \o id
<1>1. {".", "tmp-v1", kind} \subseteq P
  BY DEF Plain, Words
<1>2. id \in Seq(P) /\ Len(id) = HexLen /\ HexLen \in Nat /\ \A i \in 1..HexLen : id[i] = "a"
  BY BoundsAssumption DEF IsHash
<1> HIDE DEF P
<1>3. c \in Seq(P) /\ Len(c) = 5 /\ c[1] = "." /\ c[2] = "tmp-v1" /\ c[3] = "." /\ c[4] = kind /\ c[5] = "."
  BY <1>1 DEF StagingWords
<1> HIDE DEF c
<1>4. /\ w \in Seq(P) /\ Len(w) = Len(c) + Len(id)
      /\ \A i \in 1..Len(c) : w[i] = c[i]
      /\ \A i \in 1..Len(id) : w[Len(c) + i] = id[i]
  <2>1. c \in Seq(P) /\ id \in Seq(P)
    BY <1>2, <1>3
  <2> QED
    BY <2>1, ConcatElements
<1> HIDE DEF w
<1>5. w[1] = "." /\ w[2] = "tmp-v1" /\ w[3] = "." /\ w[4] = kind /\ w[5] = "."
  BY <1>3, <1>4
<1>6. \A i \in 1..HexLen : w[5 + i] = "a"
  BY <1>2, <1>3, <1>4
<1>7. Len(w) = 5 + HexLen
  BY <1>2, <1>3, <1>4
<1> QED
  BY <1>3, <1>4, <1>5, <1>6, <1>7 DEF IsStagingRest, P, w, c

\* The cleanup removes every staging file of its suffix.
LEMMA OwnedStaging ==
    ASSUME NEW n, NEW h, NEW s, NEW w, NEW kind \in {"save", "clear"},
           IsHash(h), IsSuffix(s), IsStagingRest(w, kind), Composed(n, h, s, w)
    PROVE  IsOwnedTemporaryFilename(n, s)
<1> DEFINE m == Marker(s)  T == Occurs(m, n)  k == HexLen + 1
           b == k + Len(m)  rest == SubSeq(n, b, Len(n))
<1>1. /\ w \in Seq(Plain) /\ Len(w) = 5 + HexLen
      /\ w[1] = "." /\ w[2] = "tmp-v1" /\ w[3] = "." /\ w[4] = kind /\ w[5] = "."
      /\ \A i \in 1..HexLen : w[5 + i] = "a"
  BY DEF IsStagingRest
<1>2. /\ n \in Seq(Plain) /\ Len(n) = HexLen + Len(s) + Len(w)
      /\ \A i \in 1..HexLen : n[i] = h[i]
      /\ \A i \in 1..Len(s) : n[HexLen + i] = s[i]
      /\ \A i \in 1..Len(w) : n[HexLen + Len(s) + i] = w[i]
  BY DEF Composed
<1>3. HexLen \in Nat /\ Len(s) \in Nat /\ Len(s) >= 2 /\ s[1] = "." /\ \A i \in 1..HexLen : h[i] = "a"
  BY BoundsAssumption DEF IsSuffix, IsHash
<1>4. /\ m \in Seq(Plain) /\ Len(m) = Len(s) + 3
      /\ \A j \in 1..Len(s) : m[j] = s[j]
      /\ m[Len(s) + 1] = "." /\ m[Len(s) + 2] = "tmp-v1" /\ m[Len(s) + 3] = "."
  BY MarkerElements
<1>m. m = s \o <<".", "tmp-v1", ".">>
  BY DEF Marker
<1> HIDE DEF m
<1>5. Len(n) \in Nat /\ Len(n) = 2 * HexLen + Len(s) + 5 /\ k \in Nat /\ b = HexLen + Len(s) + 4
  BY <1>1, <1>2, <1>3, <1>4
<1>6. At(m, n, k)
  <2>1. ASSUME NEW j \in 1..Len(m)
        PROVE  n[k + j - 1] = m[j]
    <3>1. k + j - 1 = HexLen + j
      BY <1>3
    <3>2. CASE j \in 1..Len(s)
      BY <1>2, <1>4, <3>1, <3>2
    <3>3. CASE ~(j \in 1..Len(s))
      <4>1. j = Len(s) + 1 \/ j = Len(s) + 2 \/ j = Len(s) + 3
        BY <1>3, <1>4, <3>3
      <4>2. /\ HexLen + (Len(s) + 1) = HexLen + Len(s) + 1
            /\ HexLen + (Len(s) + 2) = HexLen + Len(s) + 2
            /\ HexLen + (Len(s) + 3) = HexLen + Len(s) + 3
            /\ 1 \in 1..Len(w) /\ 2 \in 1..Len(w) /\ 3 \in 1..Len(w)
        BY <1>1, <1>3
      <4>3. /\ n[HexLen + Len(s) + 1] = "." /\ n[HexLen + Len(s) + 2] = "tmp-v1"
            /\ n[HexLen + Len(s) + 3] = "."
        BY <1>1, <1>2, <4>2
      <4> QED
        BY <1>4, <3>1, <4>1, <4>2, <4>3
    <3> QED
      BY <3>2, <3>3
  <2> QED
    BY <2>1 DEF At
<1>7. k \in T
  BY <1>2, <1>3, <1>4, <1>5, <1>6, OccursAt
<1>8. ASSUME NEW y \in T
      PROVE  y \in Nat /\ k <= y
  <2>1. y \in Int
    BY <1>4, <1>5 DEF Occurs
  <2>2. 1 <= y /\ At(m, n, y) /\ y + Len(m) - 1 <= Len(n)
    BY <1>2, <1>3, <1>4, <2>1, OccursAt
  <2>3. n[y] = "."
    <3>1. 1 \in 1..Len(m) /\ y + 1 - 1 = y /\ 1 \in 1..Len(s)
      BY <1>3, <1>4, <2>1
    <3>2. n[y + 1 - 1] = m[1]
      BY <2>2, <3>1 DEF At
    <3> QED
      BY <1>3, <1>4, <3>1, <3>2
  <2>4. ~(y \in 1..HexLen)
    BY <1>2, <1>3, <2>3
  <2> QED
    BY <1>3, <2>1, <2>2, <2>4
<1> HIDE DEF T
<1>9. Min(T) = k
  <2>1. \A x \in T : (\A y \in T : x <= y) => x = k
    BY <1>5, <1>7, <1>8
  <2> QED
    BY <1>7, <1>8, <2>1 DEF Min
<1>10. IsHex(SubSeq(n, 1, k - 1))
  <2> DEFINE u == SubSeq(n, 1, HexLen)
  <2>1. \A i \in 1..HexLen : n[i] \in Plain
    BY <1>3, <1>5, <1>2
  <2>2. u \in Seq(Plain) /\ Len(u) = HexLen /\ \A i \in 1..HexLen - 1 + 1 : u[i] = n[1 + i - 1]
    BY <1>3, <2>1, SubSeqProperties
  <2> HIDE DEF u
  <2>3. DOMAIN u = 1..HexLen /\ \A i \in 1..HexLen : u[i] = "a"
    BY <1>2, <1>3, <2>2
  <2>4. k - 1 = HexLen
    BY <1>3
  <2> QED
    BY <2>2, <2>3, <2>4 DEF IsHex, Hex, u
<1>11. /\ rest \in Seq(Plain) /\ Len(rest) = HexLen + 2
       /\ rest[1] = kind /\ rest[2] = "." /\ \A i \in 1..HexLen : rest[2 + i] = "a"
  <2> HIDE DEF b
  <2>1. \A i \in b..Len(n) : n[i] \in Plain
    BY <1>2, <1>3, <1>5
  <2>2. b \in Int /\ Len(n) \in Int /\ Len(n) - b + 1 = HexLen + 2 /\ b <= Len(n)
    BY <1>3, <1>5
  <2>3. rest \in Seq(Plain) /\ Len(rest) = Len(n) - b + 1
        /\ \A j \in 1..Len(n) - b + 1 : rest[j] = n[b + j - 1]
    BY <2>1, <2>2, SubSeqProperties
  <2> HIDE DEF rest
  <2>4. ASSUME NEW j \in 1..HexLen + 2
        PROVE  rest[j] = w[3 + j]
    <3>1. b + j - 1 = HexLen + Len(s) + (3 + j) /\ 3 + j \in 1..Len(w)
      BY <1>1, <1>3, <1>5
    <3>2. rest[j] = n[b + j - 1]
      BY <2>2, <2>3
    <3> QED
      BY <1>2, <3>1, <3>2
  <2>5. 1 \in 1..HexLen + 2 /\ 2 \in 1..HexLen + 2 /\ 3 + 1 = 4 /\ 3 + 2 = 5
    BY <1>3
  <2>6. rest[1] = kind /\ rest[2] = "."
    BY <1>1, <2>4, <2>5
  <2>7. ASSUME NEW i \in 1..HexLen PROVE rest[2 + i] = "a"
    <3>1. 2 + i \in 1..HexLen + 2 /\ 3 + (2 + i) = 5 + i
      BY <1>3
    <3> QED
      BY <1>1, <2>4, <3>1
  <2> QED
    BY <2>2, <2>3, <2>6, <2>7
<1> DEFINE D == Occurs(<<".">>, rest)
<1> HIDE DEF rest
<1>12. D # {} /\ Min(D) = 2
  <2> DEFINE p == <<".">>
  <2>1. "." \in Plain
    BY DEF Plain
  <2>2. p \in Seq(Plain) /\ Len(p) = 1 /\ p[1] = "."
    BY <2>1
  <2> HIDE DEF p
  <2>3. ASSUME NEW i \in Int
        PROVE  i \in Occurs(p, rest) <=> 1 <= i /\ i <= Len(rest) /\ rest[i] = "."
    <3>1. i \in Occurs(p, rest) <=> 1 <= i /\ i + 1 - 1 <= Len(rest) /\ At(p, rest, i)
      <4>1. p \in Seq(Plain) /\ rest \in Seq(Plain) /\ Len(p) >= 1
        BY <1>11, <2>2
      <4>2. i \in Occurs(p, rest) <=>
              1 <= i /\ i + Len(p) - 1 <= Len(rest) /\ At(p, rest, i)
        BY <4>1, OccursAt
      <4> QED
        BY <2>2, <4>2
    <3>2. At(p, rest, i) <=> rest[i + 1 - 1] = "."
      BY <2>2 DEF At
    <3>3. i + 1 - 1 = i
      OBVIOUS
    <3> QED
      BY <3>1, <3>2, <3>3
  <2>4. 2 \in Occurs(p, rest)
    BY <1>3, <1>11, <2>3
  <2>5. ASSUME NEW i \in Occurs(p, rest) PROVE i = 2
    <3>1. i \in Int
      BY <1>11, <2>2 DEF Occurs
    <3>2. 1 <= i /\ i <= Len(rest) /\ rest[i] = "."
      BY <2>3, <3>1
    <3>3. i # 1
      BY <1>11, <3>2
    <3>4. ~(i - 2 \in 1..HexLen)
      <4> SUFFICES ASSUME i - 2 \in 1..HexLen PROVE FALSE
        OBVIOUS
      <4>1. rest[2 + (i - 2)] = "a" /\ 2 + (i - 2) = i
        BY <1>11, <3>1
      <4> QED
        BY <3>2, <4>1
    <3> QED
      BY <1>3, <1>11, <3>1, <3>2, <3>3, <3>4
  <2>6. Occurs(p, rest) = {2}
    BY <2>4, <2>5
  <2>7. Min({2}) = 2
    BY DEF Min
  <2> QED
    BY <2>6, <2>7 DEF p
<1>13. SubSeq(rest, 1, 2 - 1) = <<kind>>
  <2> DEFINE u == SubSeq(rest, 1, 1)
  <2>1. \A i \in 1..1 : rest[i] \in Plain
    BY <1>3, <1>11
  <2>2. u \in Seq(Plain) /\ Len(u) = 1 /\ \A i \in 1..1 - 1 + 1 : u[i] = rest[1 + i - 1]
    BY <2>1, SubSeqProperties
  <2> HIDE DEF u
  <2>3. u[1] = kind
    BY <1>11, <2>2
  <2>4. u = <<kind>>
    BY <2>2, <2>3
  <2> QED
    BY <2>4 DEF u
<1>14. IsHex(SubSeq(rest, 2 + 1, Len(rest)))
  <2> DEFINE l == Len(rest)  u == SubSeq(rest, 3, l)
  <2>1. l \in Int /\ l = HexLen + 2 /\ \A i \in 3..l : rest[i] \in Plain
    BY <1>3, <1>11
  <2> HIDE DEF l
  <2>2. u \in Seq(Plain) /\ Len(u) = (IF 3 <= l THEN l - 3 + 1 ELSE 0)
        /\ \A i \in 1..l - 3 + 1 : u[i] = rest[3 + i - 1]
    BY <2>1, SubSeqProperties
  <2> HIDE DEF u
  <2>3. Len(u) = HexLen /\ DOMAIN u = 1..HexLen
    BY <1>3, <2>1, <2>2
  <2>4. ASSUME NEW i \in 1..HexLen PROVE u[i] = "a"
    <3>1. i \in 1..l - 3 + 1 /\ 3 + i - 1 = 2 + i
      BY <1>3, <2>1
    <3> QED
      BY <1>11, <2>2, <3>1
  <2> QED
    BY <2>3, <2>4 DEF IsHex, Hex, u, l
<1>15. SubSeq(rest, 1, Min(D) - 1) \in {<<"save">>, <<"clear">>}
  BY <1>12, <1>13
<1>16. IsHex(SubSeq(rest, Min(D) + 1, Len(rest)))
  BY <1>12, <1>14
<1>17. T # {} /\ IsHex(SubSeq(n, 1, Min(T) - 1)) /\ rest = SubSeq(n, Min(T) + Len(m), Len(n))
  BY <1>7, <1>9, <1>10 DEF rest
<1> HIDE DEF D
<1> QED
  BY <1>m, <1>12, <1>15, <1>16, <1>17 DEF IsOwnedTemporaryFilename, T, D

----------------------------------------------------------------------------
(* The inductive invariant.                                                *)

\* What follows the suffix in the names of a kind of file.
Rests(kind) ==
    IF kind = "canonical" THEN {<<>>}
    ELSE IF kind = "quarantine" THEN {QuarantineWords \o id : id \in Ids}
    ELSE {StagingWords(kind) \o id : id \in Ids}

Kinds == {"canonical", "save", "clear", "quarantine"}

\* Only accepted suffixes are open, and every file has the name of its kind and format.
FormatsAccepted == \A s \in formats : s \in Suffixes /\ ValidateSuffix(s)
FilesNamed ==
    \A f \in files :
        /\ f.kind \in Kinds /\ f.suffix \in formats
        /\ \E h \in Hashes, w \in Rests(f.kind) : f.name = (h \o f.suffix) \o w

IInv == FormatsAccepted /\ FilesNamed

\* What can follow a suffix tells staging files from the others.
LEMMA RestShape ==
    ASSUME NEW kind \in Kinds, NEW w \in Rests(kind)
    PROVE  /\ w \in Seq(Plain) /\ IsRest(w)
           /\ kind \in {"save", "clear"} => IsStagingRest(w, kind)
           /\ kind \notin {"save", "clear"} => ~(Len(w) >= 3 /\ w[2] = "tmp-v1")
<1>1. CASE kind = "canonical"
  <2>1. w = <<>> /\ <<>> \in Seq(Plain) /\ Len(<<>>) = 0
    BY <1>1 DEF Rests
  <2> QED
    BY <1>1, <2>1 DEF IsRest
<1>2. CASE kind = "quarantine"
  <2>1. PICK id \in Ids : w = QuarantineWords \o id
    BY <1>2 DEF Rests
  <2> DEFINE P == Plain  c == QuarantineWords
  <2>2. {".", "quarantine-v1"} \subseteq P
    BY DEF Plain, Words
  <2>3. id \in Seq(P)
    BY RenderedHash DEF IsHash
  <2> HIDE DEF P
  <2>4. c \in Seq(P) /\ Len(c) = 3 /\ c[1] = "." /\ c[2] = "quarantine-v1"
    BY <2>2 DEF QuarantineWords
  <2> HIDE DEF c
  <2>5. c \o id \in Seq(P) /\ \A i \in 1..Len(c) : (c \o id)[i] = c[i]
    <3>1. c \in Seq(P) /\ id \in Seq(P)
      BY <2>3, <2>4
    <3> QED
      BY <3>1, ConcatElements
  <2>6. w \in Seq(P) /\ w[1] = "." /\ w[2] = "quarantine-v1"
    <3>1. w = c \o id /\ 1 \in 1..Len(c) /\ 2 \in 1..Len(c)
      BY <2>1, <2>4 DEF c
    <3> QED
      BY <2>4, <2>5, <3>1
  <2> QED
    BY <1>2, <2>6 DEF IsRest, P
<1>3. CASE kind \in {"save", "clear"}
  <2>1. PICK id \in Ids : w = StagingWords(kind) \o id
    BY <1>3 DEF Rests
  <2>2. IsHash(id)
    BY RenderedHash
  <2>3. IsStagingRest(w, kind)
    BY <1>3, <2>1, <2>2, StagingElements
  <2>4. w \in Seq(Plain) /\ w[1] = "."
    BY <2>3 DEF IsStagingRest
  <2> QED
    BY <1>3, <2>3, <2>4 DEF IsRest
<1> QED
  BY <1>1, <1>2, <1>3 DEF Kinds

LEMMA FileShape ==
    ASSUME IInv, NEW f \in files
    PROVE  /\ f.kind \in Kinds /\ IsSuffix(f.suffix)
           /\ \E h \in Hashes, w \in Rests(f.kind) : IsHash(h) /\ Composed(f.name, h, f.suffix, w)
<1>1. PICK h \in Hashes, w \in Rests(f.kind) : f.name = (h \o f.suffix) \o w
  BY DEF IInv, FilesNamed
<1>2. f.kind \in Kinds /\ f.suffix \in formats
  BY DEF IInv, FilesNamed
<1>3. IsSuffix(f.suffix)
  BY <1>2, AcceptedSuffix DEF IInv, FormatsAccepted
<1>4. IsHash(h)
  BY RenderedHash
<1>5. w \in Seq(Plain)
  BY <1>2, RestShape
<1> DEFINE s == f.suffix  n == f.name
<1>6. IsSuffix(s) /\ n = (h \o s) \o w
  BY <1>1, <1>3
<1> HIDE DEF s, n
<1>7. Composed(n, h, s, w)
  BY <1>4, <1>5, <1>6, NameElements
<1> QED
  BY <1>2, <1>3, <1>4, <1>7 DEF s, n

\* The names that a cleanup parses are those that saves and clears of its format made.
LEMMA CleanupExact ==
    ASSUME IInv, NEW f \in files, NEW suffix \in formats
    PROVE  IsOwnedTemporaryFilename(f.name, suffix) <=>
             f.suffix = suffix /\ f.kind \in {"save", "clear"}
<1>1. IsSuffix(suffix)
  BY AcceptedSuffix DEF IInv, FormatsAccepted
<1>2. /\ f.kind \in Kinds /\ IsSuffix(f.suffix)
      /\ \E h \in Hashes, w \in Rests(f.kind) : IsHash(h) /\ Composed(f.name, h, f.suffix, w)
  BY FileShape
<1>3. PICK h \in Hashes, w \in Rests(f.kind) : IsHash(h) /\ Composed(f.name, h, f.suffix, w)
  BY <1>2
<1>4. /\ IsRest(w)
      /\ f.kind \in {"save", "clear"} => IsStagingRest(w, f.kind)
      /\ f.kind \notin {"save", "clear"} => ~(Len(w) >= 3 /\ w[2] = "tmp-v1")
  BY <1>2, RestShape
<1> DEFINE n == f.name  s == f.suffix  k == f.kind
<1>5. /\ IsSuffix(s) /\ IsHash(h) /\ IsRest(w) /\ Composed(n, h, s, w)
      /\ k \in {"save", "clear"} => IsStagingRest(w, k)
      /\ k \notin {"save", "clear"} => ~(Len(w) >= 3 /\ w[2] = "tmp-v1")
  BY <1>2, <1>3, <1>4
<1> HIDE DEF n, s, k
<1>6. ASSUME IsOwnedTemporaryFilename(n, suffix)
      PROVE  s = suffix /\ k \in {"save", "clear"}
  <2>1. suffix = s /\ Len(w) >= 3 /\ w[2] = "tmp-v1"
    BY <1>1, <1>5, <1>6, OwnedOnly
  <2> QED
    BY <1>5, <2>1
<1>7. ASSUME s = suffix, k \in {"save", "clear"}
      PROVE  IsOwnedTemporaryFilename(n, suffix)
  BY <1>5, <1>7, OwnedStaging
<1> QED
  BY <1>6, <1>7 DEF n, s, k

\* Two names with one name in common have the suffix in common.
LEMMA OneSuffix ==
    ASSUME NEW n, NEW h, NEW s, NEW w, IsSuffix(s), IsRest(w), Composed(n, h, s, w),
           NEW g, NEW t, IsSuffix(t), Composed(n, g, t, <<>>)
    PROVE  s = t
<1>1. /\ HexLen \in Nat /\ Len(s) \in Nat /\ Len(t) \in Nat /\ Len(w) \in Nat /\ Len(s) >= 2
      /\ s \in Seq(Plain) /\ t \in Seq(Plain)
      /\ Len(n) = HexLen + Len(s) + Len(w) /\ Len(n) = HexLen + Len(t) + 0
      /\ \A i \in 2..Len(t) : t[i] # "."
      /\ \A i \in 1..Len(s) : n[HexLen + i] = s[i]
      /\ \A i \in 1..Len(w) : n[HexLen + Len(s) + i] = w[i]
      /\ \A i \in 1..Len(t) : n[HexLen + i] = t[i]
      /\ Len(w) = 0 \/ w[1] = "."
  <2>1. HexLen \in Nat /\ Len(<<>>) = 0
    BY BoundsAssumption
  <2>2. /\ s \in Seq(Plain) /\ t \in Seq(Plain) /\ w \in Seq(Plain) /\ Len(s) >= 2
        /\ \A i \in 2..Len(t) : t[i] # "."
    BY DEF IsSuffix, IsRest
  <2>3. /\ Len(n) = HexLen + Len(s) + Len(w)
        /\ \A i \in 1..Len(s) : n[HexLen + i] = s[i]
        /\ \A i \in 1..Len(w) : n[HexLen + Len(s) + i] = w[i]
    BY DEF Composed
  <2>4. /\ Len(n) = HexLen + Len(t) + Len(<<>>)
        /\ \A i \in 1..Len(t) : n[HexLen + i] = t[i]
    BY DEF Composed
  <2>5. Len(w) = 0 \/ w[1] = "."
    BY DEF IsRest
  <2> QED
    BY <2>1, <2>2, <2>3, <2>4, <2>5
<1>2. Len(w) = 0
  <2> SUFFICES ASSUME Len(w) # 0 PROVE FALSE
    OBVIOUS
  <2>1. w[1] = "." /\ 1 \in 1..Len(w) /\ Len(s) + 1 \in 2..Len(t) /\ Len(s) + 1 \in 1..Len(t)
        /\ HexLen + Len(s) + 1 = HexLen + (Len(s) + 1)
    BY <1>1
  <2>2. n[HexLen + Len(s) + 1] = "." /\ n[HexLen + (Len(s) + 1)] # "."
    BY <1>1, <2>1
  <2> QED
    BY <2>1, <2>2
<1>3. Len(s) = Len(t) /\ \A i \in 1..Len(s) : s[i] = t[i]
  BY <1>1, <1>2
<1> QED
  BY <1>1, <1>3, SeqEqual

\* A commit replaces no file of another format.
LEMMA CommitReplacesOwn ==
    ASSUME IInv, NEW suffix \in formats, NEW hash \in Hashes,
           NEW f \in Clash(BlobFilename(hash, suffix))
    PROVE  f.suffix = suffix
<1> DEFINE n == hash \o suffix  P == Plain
<1>1. f \in files /\ Lower(f.name) = Lower(n)
  BY DEF Clash, BlobFilename
<1>2. IsSuffix(suffix) /\ IsHash(hash)
  BY AcceptedSuffix, RenderedHash DEF IInv, FormatsAccepted
<1>3. n \in Seq(P)
  <2>1. hash \in Seq(P) /\ suffix \in Seq(P)
    BY <1>2 DEF IsHash, IsSuffix
  <2> HIDE DEF P
  <2> QED
    BY <2>1, ConcatElements
<1>4. Composed(n, hash, suffix, <<>>)
  <2>1. <<>> \in Seq(Plain)
    OBVIOUS
  <2>2. Composed(n \o <<>>, hash, suffix, <<>>)
    BY <1>2, <2>1, NameElements
  <2> HIDE DEF n
  <2>3. n \o <<>> = n
    BY <1>3, ConcatEmptySeq
  <2> QED
    BY <2>2, <2>3
<1> HIDE DEF n
<1>5. IsSuffix(f.suffix) /\ f.kind \in Kinds
  BY <1>1, FileShape
<1>6. PICK h \in Hashes, w \in Rests(f.kind) : IsHash(h) /\ Composed(f.name, h, f.suffix, w)
  BY <1>1, FileShape
<1>7. IsRest(w)
  BY <1>5, RestShape
<1>8. f.name = n
  <2>1. f.name \in Seq(Plain)
    BY <1>6 DEF Composed
  <2>2. Lower(f.name) = f.name /\ Lower(n) = n
    BY <1>3, <2>1, PlainLower
  <2> QED
    BY <1>1, <2>2
<1> DEFINE s == f.suffix
<1>9. IsSuffix(s) /\ Composed(n, h, s, w)
  BY <1>5, <1>6, <1>8
<1> HIDE DEF s
<1>10. s = suffix
  BY <1>2, <1>4, <1>7, <1>9, OneSuffix
<1> QED
  BY <1>10 DEF s

----------------------------------------------------------------------------
(* The theorem.                                                            *)

\* A new file with the name of its kind and format keeps the invariant.
LEMMA NewFile ==
    ASSUME IInv, formats' = formats, NEW suffix \in formats, NEW kind \in Kinds, NEW hash \in Hashes,
           NEW w \in Rests(kind), NEW name, name = (hash \o suffix) \o w,
           files' \subseteq files \cup {File(name, suffix, kind)}
    PROVE  IInv'
<1>1. ASSUME NEW f \in files'
      PROVE  /\ f.kind \in Kinds /\ f.suffix \in formats
             /\ \E h \in Hashes, r \in Rests(f.kind) : f.name = (h \o f.suffix) \o r
  <2>1. CASE f \in files
    BY <2>1 DEF IInv, FilesNamed
  <2>2. CASE f = File(name, suffix, kind)
    <3>1. f.name = name /\ f.suffix = suffix /\ f.kind = kind
      BY <2>2 DEF File
    <3> QED
      BY <3>1
  <2> QED
    BY <1>1, <2>1, <2>2
<1>2. FilesNamed'
  BY <1>1 DEF FilesNamed
<1> QED
  BY <1>2 DEF IInv, FormatsAccepted

LEMMA CommitInvariant ==
    ASSUME IInv, formats' = formats, NEW suffix \in formats, NEW hash \in Hashes, Commit(suffix, hash)
    PROVE  IInv'
<1> DEFINE name == BlobFilename(hash, suffix)  P == Plain
<1>1. files' \subseteq files \cup {File(name, suffix, "canonical")}
  BY DEF Commit
<1>2. <<>> \in Rests("canonical") /\ "canonical" \in Kinds
  BY DEF Rests, Kinds
<1>3. name = (hash \o suffix) \o <<>>
  <2> DEFINE n == hash \o suffix
  <2>1. hash \in Seq(P) /\ suffix \in Seq(P)
    BY AcceptedSuffix, RenderedHash DEF IInv, FormatsAccepted, IsSuffix, IsHash
  <2> HIDE DEF P
  <2>2. n \in Seq(P)
    BY <2>1, ConcatElements
  <2> HIDE DEF n
  <2>3. n \o <<>> = n
    BY <2>2, ConcatEmptySeq
  <2> QED
    BY <2>3 DEF BlobFilename, n
<1> HIDE DEF name
<1> QED
  BY <1>1, <1>2, <1>3, NewFile

LEMMA DeriveInvariant ==
    ASSUME IInv, formats' = formats, NEW suffix \in formats, NEW hash \in Hashes,
           NEW words, NEW id \in Ids, NEW kind \in Kinds, words \o id \in Rests(kind),
           words \in Seq(Plain), Derive(suffix, hash, words, id, kind)
    PROVE  IInv'
<1> DEFINE name == DerivedFilename(BlobFilename(hash, suffix), suffix, words, id)
           w == words \o id
<1>1. files' \subseteq files \cup {File(name, suffix, kind)}
  BY DEF Derive
<1>2. IsSuffix(suffix) /\ IsHash(hash) /\ IsHash(id)
  BY AcceptedSuffix, RenderedHash DEF IInv, FormatsAccepted
<1>3. name = (hash \o suffix) \o w
  BY <1>2, DerivedName
<1> HIDE DEF name, w
<1>4. w \in Rests(kind)
  BY DEF w
<1> QED
  BY <1>1, <1>3, <1>4, NewFile

\* A step of Next other than opening a store is a store's own.
LEMMA StepKinds ==
    ASSUME Next
    PROVE  \/ \E tag \in Tags, suffix \in Suffixes, version \in Versions : Open(tag, suffix, version)
           \/ /\ formats' = formats
              /\ \E suffix \in formats :
                   \/ Cleanup(suffix)
                   \/ \E hash \in Hashes : Commit(suffix, hash)
                   \/ \E hash \in Hashes, id \in Ids, kind \in {"save", "clear"} :
                        Derive(suffix, hash, StagingWords(kind), id, kind)
                   \/ \E hash \in Hashes, id \in Ids :
                        Derive(suffix, hash, QuarantineWords, id, "quarantine")
BY DEF Next

LEMMA StagingDerived ==
    ASSUME NEW id \in Ids
    PROVE  /\ \A kind \in {"save", "clear"} :
                /\ kind \in Kinds /\ StagingWords(kind) \in Seq(Plain)
                /\ StagingWords(kind) \o id \in Rests(kind)
           /\ "quarantine" \in Kinds /\ QuarantineWords \in Seq(Plain)
           /\ QuarantineWords \o id \in Rests("quarantine")
<1>1. IsHash(id)
  BY RenderedHash
<1>2. ASSUME NEW kind \in {"save", "clear"}
      PROVE  /\ kind \in Kinds /\ StagingWords(kind) \in Seq(Plain)
             /\ StagingWords(kind) \o id \in Rests(kind)
  <2>1. StagingWords(kind) \in Seq(Plain)
    BY <1>1, StagingElements
  <2>2. kind \in Kinds /\ kind # "canonical" /\ kind # "quarantine"
    BY DEF Kinds
  <2> QED
    BY <2>1, <2>2 DEF Rests
<1>3. QuarantineWords \in Seq(Plain)
  <2> DEFINE P == Plain
  <2>1. {".", "quarantine-v1"} \subseteq P
    BY DEF Plain, Words
  <2> HIDE DEF P
  <2>2. QuarantineWords \in Seq(P)
    BY <2>1 DEF QuarantineWords
  <2> QED
    BY <2>2 DEF P
<1>4. "quarantine" \in Kinds /\ QuarantineWords \o id \in Rests("quarantine")
  BY DEF Kinds, Rests
<1> QED
  BY <1>2, <1>3, <1>4

LEMMA NextInvariant == IInv /\ [Next]_vars => IInv'
<1> SUFFICES ASSUME IInv, [Next]_vars PROVE IInv'
  OBVIOUS
<1>1. CASE UNCHANGED vars
  BY <1>1 DEF vars, IInv, FormatsAccepted, FilesNamed
<1>2. CASE \E tag \in Tags, suffix \in Suffixes, version \in Versions : Open(tag, suffix, version)
  <2>1. PICK tag \in Tags, suffix \in Suffixes, version \in Versions : Open(tag, suffix, version)
    BY <1>2
  <2>2. ValidateSuffix(suffix) /\ formats' = formats \cup {suffix} /\ files' = files
    BY <2>1 DEF Open, NewIdentity
  <2> QED
    BY <2>2 DEF IInv, FormatsAccepted, FilesNamed
<1>3. ASSUME formats' = formats, NEW suffix \in formats, Cleanup(suffix)
      PROVE  IInv'
  <2>1. files' \subseteq files
    BY <1>3 DEF Cleanup
  <2> QED
    BY <1>3, <2>1 DEF IInv, FormatsAccepted, FilesNamed
<1>4. ASSUME formats' = formats, NEW suffix \in formats, NEW hash \in Hashes, Commit(suffix, hash)
      PROVE  IInv'
  BY <1>4, CommitInvariant
<1>5. ASSUME formats' = formats, NEW suffix \in formats, NEW hash \in Hashes, NEW id \in Ids,
             NEW kind \in {"save", "clear"}, Derive(suffix, hash, StagingWords(kind), id, kind)
      PROVE  IInv'
  <2> DEFINE words == StagingWords(kind)
  <2>1. kind \in Kinds /\ words \in Seq(Plain) /\ words \o id \in Rests(kind)
    BY StagingDerived
  <2>2. Derive(suffix, hash, words, id, kind)
    BY <1>5
  <2> HIDE DEF words
  <2> QED
    BY <1>5, <2>1, <2>2, DeriveInvariant
<1>6. ASSUME formats' = formats, NEW suffix \in formats, NEW hash \in Hashes, NEW id \in Ids,
             Derive(suffix, hash, QuarantineWords, id, "quarantine")
      PROVE  IInv'
  <2>1. "quarantine" \in Kinds /\ QuarantineWords \in Seq(Plain)
        /\ QuarantineWords \o id \in Rests("quarantine")
    BY StagingDerived
  <2> QED
    BY <1>6, <2>1, DeriveInvariant
<1> QED
  BY <1>1, <1>2, <1>3, <1>4, <1>5, <1>6, StepKinds

LEMMA Invariant == Spec => []IInv
<1>1. Init => IInv
  BY DEF Init, IInv, FormatsAccepted, FilesNamed
<1> QED
  BY <1>1, NextInvariant, PTL DEF Spec

\* Stores of different formats in one namespace never touch each other's files: a
\* commit replaces only files of its own format, and a cleanup removes all staging
\* files of its format and nothing else (blob_filename, the staging and quarantine
\* names and is_owned_temporary_filename).
THEOREM FormatsKeepApart == Spec => StoresKeepApart
<1> DEFINE Apart ==
             /\ \A f \in files \ files' : f.suffix = actor'.suffix
             /\ actor'.step = "cleanup" =>
                  files' = {f \in files : f.suffix # actor'.suffix \/ f.kind \notin {"save", "clear"}}
<1>1. ASSUME IInv, Next
      PROVE  Apart
  <2>1. CASE \E tag \in Tags, suffix \in Suffixes, version \in Versions : Open(tag, suffix, version)
    BY <2>1 DEF Open
  <2>2. ASSUME NEW suffix \in formats, Cleanup(suffix)
        PROVE  Apart
    <3>1. \A f \in files : IsOwnedTemporaryFilename(f.name, suffix) <=>
                             f.suffix = suffix /\ f.kind \in {"save", "clear"}
      BY <1>1, CleanupExact
    <3>2. files' = {f \in files : ~IsOwnedTemporaryFilename(f.name, suffix)}
          /\ actor'.suffix = suffix /\ actor'.step = "cleanup"
      BY <2>2 DEF Cleanup
    <3>3. files' = {f \in files : f.suffix # suffix \/ f.kind \notin {"save", "clear"}}
      BY <3>1, <3>2
    <3> QED
      BY <3>2, <3>3
  <2>3. ASSUME NEW suffix \in formats, NEW hash \in Hashes, Commit(suffix, hash)
        PROVE  Apart
    <3>1. actor'.suffix = suffix /\ actor'.step = "save"
          /\ files \ files' \subseteq Clash(BlobFilename(hash, suffix))
      BY <2>3 DEF Commit
    <3>2. \A f \in Clash(BlobFilename(hash, suffix)) : f.suffix = suffix
      BY <1>1, CommitReplacesOwn
    <3> QED
      BY <3>1, <3>2
  <2>4. ASSUME NEW suffix, NEW hash, NEW words, NEW id,
               NEW kind \in {"save", "clear", "quarantine"}, Derive(suffix, hash, words, id, kind)
        PROVE  Apart
    <3>1. files \subseteq files' /\ actor'.step = kind
      BY <2>4 DEF Derive
    <3> QED
      BY <3>1
  <2> HIDE DEF Apart
  <2> QED
    BY <1>1, <2>1, <2>2, <2>3, <2>4, StepKinds
<1>2. IInv /\ [Next]_vars => [Apart]_vars
  BY <1>1
<1> QED
  BY <1>2, Invariant, PTL DEF Spec, StoresKeepApart
=============================================================================
