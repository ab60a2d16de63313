--------------------------- MODULE EnvelopeProofs ---------------------------
(* Proofs about the envelope codec.                                        *)
EXTENDS Envelope, SequenceTheorems, WellFoundedInduction, TLAPS

----------------------------------------------------------------------------
(* Induction on numbers, from the well-foundedness of <.                   *)

\* A set of numbers has a smallest one.
LEMMA LeastNumber ==
    ASSUME NEW T \in SUBSET Nat, T # {}
    PROVE  \E x \in T : \A y \in T : x <= y
<1> DEFINE R == OpToRel(<, Nat)
<1>1. \E x \in T : \A y \in T : ~(<<y, x>> \in R)
  BY WFMin, NatLessThanWellFounded
<1>2. \A x, y \in Nat : <<y, x>> \in R <=> y < x
  BY DEF OpToRel
<1> HIDE DEF R
<1>3. PICK x \in T : \A y \in T : ~(<<y, x>> \in R)
  BY <1>1
<1>4. ASSUME NEW y \in T
      PROVE  x <= y
  <2>1. ~(<<y, x>> \in R)
    BY <1>3
  <2>2. x \in Nat /\ y \in Nat
    OBVIOUS
  <2>3. ~(y < x)
    BY <1>2, <2>1, <2>2
  <2> QED
    BY <2>2, <2>3
<1> QED
  BY <1>4

\* A set with 0 that has n + 1 with every n has all numbers.
LEMMA SetInduction ==
    ASSUME NEW S, 0 \in S, \A n \in Nat : n \in S => n + 1 \in S
    PROVE  \A n \in Nat : n \in S
<1> SUFFICES ASSUME Nat \ S # {} PROVE FALSE
  OBVIOUS
<1>1. PICK x \in Nat \ S : \A y \in Nat \ S : x <= y
  BY LeastNumber
<1>2. x # 0
  BY <1>1
<1>3. x - 1 \in Nat
  BY <1>2
<1>4. x - 1 \in S
  BY <1>1, <1>3
<1> QED
  BY <1>1, <1>3, <1>4

\* The minimum of a set of numbers.
LEMMA MinProperties ==
    ASSUME NEW T \in SUBSET Nat, T # {}
    PROVE  Min(T) \in T /\ \A y \in T : Min(T) <= y
BY LeastNumber DEF Min

\* The minimum of two numbers.
LEMMA MinOfTwo ==
    ASSUME NEW a \in Int, NEW b \in Int
    PROVE  Min({a, b}) = IF a <= b THEN a ELSE b
<1> DEFINE m == IF a <= b THEN a ELSE b
<1>1. m \in {a, b} /\ m <= a /\ m <= b /\ m \in Int
  OBVIOUS
<1> HIDE DEF m
<1>2. \A x \in {a, b} : (\A y \in {a, b} : x <= y) => x = m
  BY <1>1
<1>3. \E x \in {a, b} : \A y \in {a, b} : x <= y
  BY <1>1
<1>4. Min({a, b}) = m
  BY <1>2, <1>3 DEF Min
<1> QED
  BY <1>4 DEF m

----------------------------------------------------------------------------
(* Folds.                                                                  *)

\* What a fold steps with.
IsStep(step, A, B) == step \in [A -> [B -> A]]

\* The values along a sequence, from base on.
IsRun(g, A, step, base, s) ==
    /\ g \in [0..Len(s) -> A]
    /\ g[0] = base
    /\ \A i \in 1..Len(s) : g[i] = step[g[i - 1]][s[i]]

\* Recursion along a sequence has a solution.
LEMMA Recursion ==
    ASSUME NEW A, NEW B, NEW step, IsStep(step, A, B), NEW base \in A, NEW s \in Seq(B)
    PROVE  \E g : IsRun(g, A, step, base, s)
<1> DEFINE N == Len(s)
           Solves(g, k) == g[0] = base /\ \A i \in 1..k : g[i] = step[g[i - 1]][s[i]]
           Good(k) == \E g \in [0..k -> A] : Solves(g, k)
           S == {k \in Nat : k <= N => Good(k)}
<1>0. N \in Nat /\ \A i \in 1..N : s[i] \in B
  OBVIOUS
<1> HIDE DEF N
<1>1. Good(0)
  <2>1. [i \in 0..0 |-> base] \in [0..0 -> A] /\ Solves([i \in 0..0 |-> base], 0)
    OBVIOUS
  <2> QED
    BY <2>1
<1>2. ASSUME NEW n \in Nat, Good(n), n + 1 <= N
      PROVE  Good(n + 1)
  <2>1. PICK g \in [0..n -> A] : Solves(g, n)
    BY <1>2
  <2> DEFINE y == step[g[n]][s[n + 1]]
             h == [i \in 0..(n + 1) |-> IF i <= n THEN g[i] ELSE y]
  <2>2. y \in A
    <3>1. s[n + 1] \in B /\ g[n] \in A
      BY <1>0, <1>2
    <3> QED
      BY <3>1 DEF IsStep
  <2>3. h \in [0..(n + 1) -> A]
    BY <2>2
  <2>4. h[0] = base
    BY <2>1
  <2>5. ASSUME NEW i \in 1..(n + 1)
        PROVE  h[i] = step[h[i - 1]][s[i]]
    <3>1. CASE i <= n
      BY <2>1, <3>1
    <3>2. CASE i = n + 1
      BY <3>2
    <3> QED
      BY <3>1, <3>2
  <2> QED
    BY <2>3, <2>4, <2>5
<1> HIDE DEF Good
<1>3. 0 \in S /\ \A n \in Nat : n \in S => n + 1 \in S
  BY <1>0, <1>1, <1>2
<1> HIDE DEF S
<1>4. N \in S
  BY <1>0, <1>3, SetInduction
<1>5. Good(N)
  BY <1>0, <1>4 DEF S
<1> QED
  BY <1>5 DEF Good, N, IsRun

\* What Fold computes: the last of the values along the sequence.
LEMMA FoldRun ==
    ASSUME NEW A, NEW B, NEW step, IsStep(step, A, B), NEW base \in A, NEW s \in Seq(B)
    PROVE  \E g : IsRun(g, A, step, base, s) /\ Fold(step, base, s) = g[Len(s)]
<1> DEFINE body(g) == [i \in 0..Len(s) |-> IF i = 0 THEN base ELSE step[g[i - 1]][s[i]]]
           after == CHOOSE g : g = body(g)
<1>1. PICK g : IsRun(g, A, step, base, s)
  BY Recursion
<1>2. g = body(g)
  BY <1>1 DEF IsRun
<1>3. after = body(after)
  <2>1. \E h : h = body(h)
    BY <1>2
  <2> HIDE DEF body
  <2> QED
    BY <2>1
<1>4. Fold(step, base, s) = after[Len(s)]
  BY DEF Fold
<1> HIDE DEF after
<1>5. after[0] = base
  BY <1>3
<1>6. ASSUME NEW i \in 1..Len(s)
      PROVE  after[i] = step[after[i - 1]][s[i]]
  <2>1. Len(s) \in Nat
    OBVIOUS
  <2>2. i \in 0..Len(s) /\ i # 0
    BY <2>1
  <2>3. body(after)[i] = step[after[i - 1]][s[i]]
    BY <2>2
  <2> HIDE DEF body
  <2> QED
    BY <1>3, <2>3
<1>7. after \in [0..Len(s) -> A]
  <2> DEFINE S == {i \in Nat : i <= Len(s) => after[i] \in A}
  <2>1. 0 \in S
    BY <1>5
  <2>2. ASSUME NEW n \in Nat, n \in S
        PROVE  n + 1 \in S
    <3> SUFFICES ASSUME n + 1 <= Len(s)
                 PROVE  after[n + 1] \in A
      OBVIOUS
    <3>1. after[n] \in A /\ s[n + 1] \in B
      BY <2>2
    <3>2. after[n + 1] = step[after[n]][s[n + 1]]
      BY <1>6
    <3> QED
      BY <3>1, <3>2 DEF IsStep
  <2> HIDE DEF S
  <2>3. \A n \in Nat : n \in S
    BY <2>1, <2>2, SetInduction
  <2>4. \A i \in 0..Len(s) : after[i] \in A
    BY <2>3 DEF S
  <2> QED
    BY <1>3, <2>4
<1> QED
  BY <1>4, <1>5, <1>6, <1>7 DEF IsRun


\* A set with the empty sequence and Append(u, x) with every u has all sequences.
LEMMA SeqInduction ==
    ASSUME NEW B, NEW S, <<>> \in S,
           \A u \in Seq(B), x \in B : u \in S => Append(u, x) \in S
    PROVE  \A t \in Seq(B) : t \in S
<1> DEFINE T == {n \in Nat : \A t \in Seq(B) : Len(t) = n => t \in S}
<1>1. 0 \in T
  <2>1. \A t \in Seq(B) : Len(t) = 0 => t = <<>>
    BY EmptySeq
  <2> QED
    BY <2>1
<1>2. ASSUME NEW n \in Nat, n \in T, NEW t \in Seq(B), Len(t) = n + 1
      PROVE  t \in S
  <2>1. t # <<>>
    BY <1>2
  <2>2. PICK u \in Seq(B), x \in B : t = Append(u, x)
    BY <2>1, SequenceEmptyOrAppend
  <2>3. Len(u) = n
    BY <1>2, <2>2
  <2> QED
    BY <1>2, <2>2, <2>3
<1>3. \A n \in Nat : n \in T => n + 1 \in T
  BY <1>2
<1> HIDE DEF T
<1>4. \A n \in Nat : n \in T
  BY <1>1, <1>3, SetInduction
<1>5. \A t \in Seq(B) : Len(t) \in Nat
  OBVIOUS
<1> QED
  BY <1>4, <1>5 DEF T

\* A fold stays in the set its steps stay in.
LEMMA FoldType ==
    ASSUME NEW A, NEW B, NEW step, IsStep(step, A, B), NEW base \in A, NEW s \in Seq(B)
    PROVE  Fold(step, base, s) \in A
<1>1. PICK g : IsRun(g, A, step, base, s) /\ Fold(step, base, s) = g[Len(s)]
  BY FoldRun
<1> QED
  BY <1>1 DEF IsRun

\* The fold of the empty sequence.
LEMMA FoldEmpty ==
    ASSUME NEW A, NEW B, NEW step, IsStep(step, A, B), NEW base \in A
    PROVE  Fold(step, base, <<>>) = base
<1> DEFINE s == <<>>
<1>1. s \in Seq(B) /\ Len(s) = 0
  OBVIOUS
<1> HIDE DEF s
<1>2. PICK g : IsRun(g, A, step, base, s) /\ Fold(step, base, s) = g[Len(s)]
  BY ZenonT(60), <1>1, FoldRun
<1>3. Fold(step, base, s) = base
  BY <1>1, <1>2 DEF IsRun
<1> QED
  BY <1>3 DEF s

\* The fold of a longer sequence is one more step.
LEMMA FoldAppend ==
    ASSUME NEW A, NEW B, NEW step, IsStep(step, A, B), NEW base \in A, NEW s \in Seq(B),
           NEW x \in B
    PROVE  Fold(step, base, Append(s, x)) = step[Fold(step, base, s)][x]
<1> DEFINE t == Append(s, x)
<1>1. /\ t \in Seq(B) /\ Len(t) = Len(s) + 1 /\ Len(s) \in Nat
      /\ \A i \in 1..Len(s) : t[i] = s[i]
      /\ t[Len(s) + 1] = x
  OBVIOUS
<1> HIDE DEF t
<1>2. PICK g : IsRun(g, A, step, base, s) /\ Fold(step, base, s) = g[Len(s)]
  BY FoldRun
<1>3. PICK h : IsRun(h, A, step, base, t) /\ Fold(step, base, t) = h[Len(t)]
  BY <1>1, FoldRun
<1> DEFINE S == {i \in Nat : i <= Len(s) => h[i] = g[i]}
<1>4. 0 \in S
  BY <1>2, <1>3 DEF IsRun
<1>5. ASSUME NEW n \in Nat, n \in S
      PROVE  n + 1 \in S
  <2> SUFFICES ASSUME n + 1 <= Len(s)
               PROVE  h[n + 1] = g[n + 1]
    OBVIOUS
  <2>1. n + 1 \in 1..Len(s) /\ n + 1 \in 1..Len(t) /\ (n + 1) - 1 = n /\ n <= Len(s)
    BY <1>1
  <2>2. g[n + 1] = step[g[n]][s[n + 1]]
    BY <1>2, <2>1 DEF IsRun
  <2>3. h[n + 1] = step[h[n]][t[n + 1]]
    BY <1>3, <2>1 DEF IsRun
  <2>4. h[n] = g[n] /\ t[n + 1] = s[n + 1]
    BY <1>1, <1>5, <2>1
  <2> QED
    BY <2>2, <2>3, <2>4
<1> HIDE DEF S
<1>6. Len(s) \in S
  BY <1>1, <1>4, <1>5, SetInduction
<1>7. h[Len(s)] = g[Len(s)]
  BY <1>1, <1>6 DEF S
<1>8. h[Len(t)] = step[h[Len(s)]][x]
  BY <1>1, <1>3 DEF IsRun
<1> QED
  BY <1>2, <1>3, <1>7, <1>8 DEF t

\* A fold can be continued.
LEMMA FoldConcat ==
    ASSUME NEW A, NEW B, NEW step, IsStep(step, A, B), NEW base \in A, NEW s \in Seq(B),
           NEW t \in Seq(B)
    PROVE  Fold(step, Fold(step, base, s), t) = Fold(step, base, s \o t)
<1> DEFINE mid == Fold(step, base, s)
           S == {u \in Seq(B) : Fold(step, mid, u) = Fold(step, base, s \o u)}
<1>0. mid \in A
  BY FoldType
<1> HIDE DEF mid
<1>1. <<>> \in S
  <2>1. s \o <<>> = s /\ <<>> \in Seq(B)
    OBVIOUS
  <2>2. Fold(step, mid, <<>>) = mid
    BY <1>0, FoldEmpty
  <2> QED
    BY <2>1, <2>2 DEF mid
<1>2. ASSUME NEW u \in Seq(B), NEW x \in B, u \in S
      PROVE  Append(u, x) \in S
  <2>1. Append(u, x) \in Seq(B) /\ s \o u \in Seq(B)
    OBVIOUS
  <2>2. s \o Append(u, x) = Append(s \o u, x)
    OBVIOUS
  <2>3. Fold(step, mid, Append(u, x)) = step[Fold(step, mid, u)][x]
    BY <1>0, FoldAppend
  <2>4. Fold(step, base, Append(s \o u, x)) = step[Fold(step, base, s \o u)][x]
    <3> DEFINE v == s \o u
    <3>1. v \in Seq(B)
      BY <2>1
    <3> HIDE DEF v
    <3>2. Fold(step, base, Append(v, x)) = step[Fold(step, base, v)][x]
      BY <3>1, FoldAppend
    <3> QED
      BY <3>2 DEF v
  <2>5. Fold(step, mid, u) = Fold(step, base, s \o u)
    BY <1>2
  <2> QED
    BY <2>1, <2>2, <2>3, <2>4, <2>5
<1> HIDE DEF S
<1>3. t \in S
  BY <1>1, <1>2, SeqInduction
<1> QED
  BY <1>3 DEF S, mid

----------------------------------------------------------------------------
(* Arithmetic.                                                             *)

\* Quotient and remainder.
LEMMA DivMod ==
    ASSUME NEW a \in Nat, NEW b \in Nat \ {0}
    PROVE  /\ a \div b \in Nat /\ a % b \in 0..(b - 1)
           /\ a = b * (a \div b) + (a % b)
           /\ b * (a \div b) <= a /\ a < b * ((a \div b) + 1)
OBVIOUS

\* They are the only ones.
LEMMA DivUnique ==
    ASSUME NEW a \in Nat, NEW b \in Nat \ {0}, NEW q \in Nat, b * q <= a, a < b * (q + 1)
    PROVE  a \div b = q
OBVIOUS

\* Dividing twice is dividing by the product.
LEMMA DivDiv ==
    ASSUME NEW a \in Nat, NEW b \in Nat \ {0}, NEW c \in Nat \ {0}
    PROVE  (a \div b) \div c = a \div (b * c)
<1> DEFINE q == a \div b  r == q \div c
<1>1. q \in Nat /\ b * q <= a /\ a < b * (q + 1)
  BY DivMod
<1> HIDE DEF q
<1>2. r \in Nat /\ c * r <= q /\ q < c * (r + 1)
  BY <1>1, DivMod
<1> HIDE DEF r
<1>3. q + 1 <= c * (r + 1) /\ c * r \in Nat /\ c * (r + 1) \in Nat
  BY <1>1, <1>2
<1>4. \A x, y \in Nat : x <= y => b * x <= b * y
  OBVIOUS
<1>5. b * (c * r) <= b * q /\ b * (q + 1) <= b * (c * (r + 1))
  BY <1>1, <1>2, <1>3, <1>4
<1>6. b * (c * r) = (b * c) * r /\ b * (c * (r + 1)) = (b * c) * (r + 1)
  BY <1>2
<1>7. b * c \in Nat \ {0}
  OBVIOUS
<1>8. (b * c) * r <= a /\ a < (b * c) * (r + 1)
  <2>1. b * q \in Nat /\ b * (q + 1) \in Nat /\ b * (c * r) \in Nat /\ b * (c * (r + 1)) \in Nat
    BY <1>1, <1>3
  <2> QED
    BY <1>1, <1>5, <1>6, <2>1
<1>9. a \div (b * c) = r
  BY <1>2, <1>7, <1>8, DivUnique
<1> QED
  BY <1>9 DEF r, q

\* Quotient and remainder of a number whose last digit is d.
LEMMA LastDigit ==
    ASSUME NEW n \in Nat, NEW b \in Nat \ {0}, NEW d \in 0..(b - 1)
    PROVE  (n * b + d) \div b = n /\ (n * b + d) % b = d
<1> DEFINE a == n * b + d
<1>1. a \in Nat /\ b * n <= a /\ a < b * (n + 1) /\ a - b * n = d
  OBVIOUS
<1> HIDE DEF a
<1>2. a \div b = n
  BY <1>1, DivUnique
<1>3. a = b * (a \div b) + (a % b) /\ a % b \in 0..(b - 1)
  BY <1>1, DivMod
<1>4. a % b = d
  BY <1>1, <1>2, <1>3
<1> QED
  BY <1>2, <1>4 DEF a

\* Powers of the base.
LEMMA PowerZero == Power(0) = 1
<1> DEFINE step == [p \in Nat |-> [b \in Nat |-> p * b]]
           s == [i \in 1..0 |-> Base]
<1>1. IsStep(step, Nat, Nat)
  BY DEF IsStep
<1>2. s = <<>>
  OBVIOUS
<1> HIDE DEF step, s
<1>3. Fold(step, 1, s) = 1
  BY <1>1, <1>2, FoldEmpty
<1> QED
  BY <1>3 DEF Power, step, s

LEMMA PowerStep ==
    ASSUME NEW k \in Nat
    PROVE  Power(k) \in Nat \ {0} /\ Power(k + 1) = Power(k) * Base
<1> USE FieldsAssumption
<1> DEFINE step == [p \in Nat |-> [b \in Nat |-> p * b]]
           bases(n) == [i \in 1..n |-> Base]
<1>1. IsStep(step, Nat, Nat)
  BY DEF IsStep
<1>2. ASSUME NEW n \in Nat
      PROVE  Power(n) \in Nat /\ Power(n + 1) = Power(n) * Base
  <2>1. bases(n) \in Seq(Nat) /\ bases(n + 1) = Append(bases(n), Base)
    OBVIOUS
  <2>2. Power(n) = Fold(step, 1, bases(n)) /\ Power(n + 1) = Fold(step, 1, bases(n + 1))
    BY DEF Power
  <2> HIDE DEF bases, step
  <2>3. Fold(step, 1, bases(n)) \in Nat
    BY <1>1, <2>1, FoldType
  <2>4. Fold(step, 1, bases(n + 1)) = step[Fold(step, 1, bases(n))][Base]
    <3> DEFINE N == Nat
    <3>1. IsStep(step, N, N) /\ 1 \in N /\ Base \in N /\ bases(n) \in Seq(N)
      BY <1>1, <2>1
    <3> HIDE DEF N
    <3>2. Fold(step, 1, Append(bases(n), Base)) = step[Fold(step, 1, bases(n))][Base]
      BY <3>1, FoldAppend
    <3> QED
      BY <2>1, <3>2
  <2>5. \A p \in Nat : step[p][Base] = p * Base
    BY DEF step
  <2> QED
    BY <2>2, <2>3, <2>4, <2>5
<1> HIDE DEF bases, step
<1> DEFINE S == {n \in Nat : Power(n) # 0}
<1>3. 0 \in S
  BY PowerZero
<1>4. ASSUME NEW n \in Nat, n \in S
      PROVE  n + 1 \in S
  <2>1. \A p \in Nat \ {0} : p * Base # 0
    OBVIOUS
  <2>2. Power(n) \in Nat \ {0} /\ Power(n + 1) = Power(n) * Base
    BY <1>2, <1>4
  <2> QED
    BY <2>1, <2>2
<1> HIDE DEF S
<1>5. k \in S
  BY <1>3, <1>4, SetInduction
<1> QED
  BY <1>2, <1>5 DEF S

----------------------------------------------------------------------------
(* Big-endian fields.                                                      *)

\* The number of a field, digit by digit.
LEMMA NumberStep ==
    /\ Number(<<>>) = 0
    /\ \A s \in Seq(Byte) :
         /\ Number(s) \in Nat
         /\ \A b \in Byte : Number(Append(s, b)) = Number(s) * Base + b
<1> DEFINE step == [n \in Nat |-> [b \in Byte |-> n * Base + b]]
           N == Nat
<1>1. IsStep(step, N, Byte) /\ 0 \in N
  <2>1. Base \in Nat
    BY FieldsAssumption
  <2>2. \A b \in Byte : b \in Nat
    BY <2>1 DEF Byte
  <2>3. \A n \in Nat, b \in Byte : n * Base + b \in Nat
    BY <2>1, <2>2
  <2> QED
    BY <2>3 DEF IsStep
<1>2. \A n \in Nat, b \in Byte : step[n][b] = n * Base + b
  OBVIOUS
<1>3. \A s : Number(s) = Fold(step, 0, s)
  BY DEF Number
<1> HIDE DEF step, N
<1>4. Number(<<>>) = 0
  <2> DEFINE z == 0
  <2>1. z \in N /\ Number(<<>>) = Fold(step, z, <<>>)
    BY <1>1, <1>3
  <2> HIDE DEF z
  <2>2. Number(<<>>) = z
    BY <1>1, <2>1, FoldEmpty
  <2> QED
    BY <2>2 DEF z
<1>5. ASSUME NEW s \in Seq(Byte)
      PROVE  Number(s) \in N
  BY <1>1, <1>3, FoldType
<1>6. ASSUME NEW s \in Seq(Byte), NEW b \in Byte
      PROVE  Number(Append(s, b)) = Number(s) * Base + b
  <2>1. Number(Append(s, b)) = step[Number(s)][b]
    BY <1>1, <1>3, FoldAppend
  <2> QED
    BY <1>2, <1>5, <2>1 DEF N
<1> QED
  BY <1>4, <1>5, <1>6 DEF N

\* One more element of a prefix.
LEMMA PrefixStep ==
    ASSUME NEW B, NEW s \in Seq(B), NEW i \in Nat, i + 1 <= Len(s)
    PROVE  /\ SubSeq(s, 1, i) \in Seq(B) /\ Len(SubSeq(s, 1, i)) = i /\ s[i + 1] \in B
           /\ SubSeq(s, 1, i + 1) = Append(SubSeq(s, 1, i), s[i + 1])
<1>1. Len(s) \in Nat /\ \A j \in 1..Len(s) : s[j] \in B
  OBVIOUS
<1>2. /\ SubSeq(s, 1, i) \in Seq(B) /\ Len(SubSeq(s, 1, i)) = i /\ s[i + 1] \in B
      /\ \A j \in 1..i : SubSeq(s, 1, i)[j] = s[j]
  OBVIOUS
<1>3. SubSeq(s, 1, i + 1) = SubSeq(s, 1, i) \o <<s[i + 1]>>
  <2>1. 1 \in 1..Len(s) /\ i + 1 \in 1..Len(s) /\ (i + 1) - 1 = i
    BY <1>1
  <2> QED
    BY <2>1, SubSeqRecursiveSecond
<1> QED
  BY <1>2, <1>3, AppendIsConcat

\* A field has width bytes.
LEMMA FieldType ==
    ASSUME NEW n \in Nat, NEW width \in Nat
    PROVE  /\ Field(n, width) \in Seq(Byte) /\ Len(Field(n, width)) = width
           /\ \A i \in 1..width : Field(n, width)[i] = (n \div Power(width - i)) % Base
<1>1. ASSUME NEW i \in 1..width
      PROVE  (n \div Power(width - i)) % Base \in Byte
  <2>1. width - i \in Nat
    OBVIOUS
  <2>2. Power(width - i) \in Nat \ {0}
    BY <2>1, PowerStep
  <2>3. n \div Power(width - i) \in Nat
    BY <2>2, DivMod
  <2>4. Base \in Nat \ {0}
    BY FieldsAssumption
  <2> QED
    BY <2>3, <2>4, DivMod DEF Byte
<1> QED
  BY <1>1 DEF Field

\* Reading back what was written.
LEMMA NumberOfField ==
    ASSUME NEW width \in Nat, NEW n \in Nat, n < Power(width)
    PROVE  Number(Field(n, width)) = n
<1> DEFINE s == Field(n, width)
           S == {i \in Nat : i <= width => Number(SubSeq(s, 1, i)) = n \div Power(width - i)}
<1>1. /\ s \in Seq(Byte) /\ Len(s) = width
      /\ \A i \in 1..width : s[i] = (n \div Power(width - i)) % Base
  BY FieldType
<1> HIDE DEF s
<1>2. 0 \in S
  <2>1. SubSeq(s, 1, 0) = <<>>
    BY SubSeqEmpty
  <2>2. Power(width) \in Nat \ {0} /\ width - 0 = width
    BY PowerStep
  <2>3. n \div Power(width) = 0
    <3>1. Power(width) * 0 <= n /\ n < Power(width) * (0 + 1) /\ 0 \in Nat
      BY <2>2
    <3> QED
      BY <2>2, <3>1, DivUnique
  <2> QED
    BY <2>1, <2>2, <2>3, NumberStep
<1>3. ASSUME NEW i \in Nat, i \in S
      PROVE  i + 1 \in S
  <2> SUFFICES ASSUME i + 1 <= width
               PROVE  Number(SubSeq(s, 1, i + 1)) = n \div Power(width - (i + 1))
    OBVIOUS
  <2> DEFINE k == width - (i + 1)
             q == n \div Power(k)
  <2>1. k \in Nat /\ width - i = k + 1 /\ i + 1 \in 1..width
    OBVIOUS
  <2>2. Power(k) \in Nat \ {0} /\ Power(k + 1) = Power(k) * Base /\ Base \in Nat \ {0}
    BY <2>1, PowerStep, FieldsAssumption
  <2>3. q \in Nat
    BY <2>2, DivMod
  <2>4. n \div Power(k + 1) = q \div Base
    BY <2>2, DivDiv
  <2>5. s[i + 1] = q % Base
    BY <1>1, <2>1
  <2>6. /\ SubSeq(s, 1, i) \in Seq(Byte) /\ s[i + 1] \in Byte
        /\ SubSeq(s, 1, i + 1) = Append(SubSeq(s, 1, i), s[i + 1])
    BY <1>1, PrefixStep
  <2>7. Number(SubSeq(s, 1, i + 1)) = Number(SubSeq(s, 1, i)) * Base + s[i + 1]
    BY <2>6, NumberStep
  <2>8. Number(SubSeq(s, 1, i)) = q \div Base
    <3>1. i <= width
      OBVIOUS
    <3>2. Number(SubSeq(s, 1, i)) = n \div Power(width - i)
      BY <1>3, <3>1
    <3> QED
      BY <2>1, <2>4, <3>2
  <2> HIDE DEF q
  <2>9. q \div Base \in Nat /\ q % Base \in Nat /\ q = Base * (q \div Base) + (q % Base)
    <3>1. Base \in Nat \ {0}
      BY <2>2
    <3>2. q \div Base \in Nat /\ q % Base \in 0..(Base - 1) /\ q = Base * (q \div Base) + (q % Base)
      BY <2>3, <3>1, DivMod
    <3> QED
      BY <3>1, <3>2
  <2>10. Number(SubSeq(s, 1, i + 1)) = q
    BY <2>2, <2>5, <2>7, <2>8, <2>9
  <2> QED
    BY <2>10 DEF q
<1> HIDE DEF S
<1>4. width \in S
  BY <1>2, <1>3, SetInduction
<1>5. Number(SubSeq(s, 1, width)) = n \div Power(width - width)
  BY <1>4 DEF S
<1>6. SubSeq(s, 1, width) = s
  BY <1>1, SubSeqFull
<1>7. width - width = 0 /\ n \div 1 = n
  OBVIOUS
<1> QED
  BY <1>5, <1>6, <1>7, PowerZero DEF s

\* Writing back what was read.
LEMMA FieldOfNumber ==
    ASSUME NEW s \in Seq(Byte)
    PROVE  Field(Number(s), Len(s)) = s /\ Number(s) < Power(Len(s))
<1> DEFINE width == Len(s)
           m == Number(s)
           S == {k \in Nat : k <= width => m \div Power(k) = Number(SubSeq(s, 1, width - k))}
<1>1. width \in Nat /\ m \in Nat
  BY NumberStep
<1>b. Base \in Nat \ {0}
  BY FieldsAssumption
<1>f. ASSUME NEW i \in 1..width
      PROVE  /\ SubSeq(s, 1, i) \in Seq(Byte) /\ SubSeq(s, 1, i - 1) \in Seq(Byte)
             /\ s[i] \in 0..(Base - 1)
             /\ Number(SubSeq(s, 1, i - 1)) \in Nat
             /\ Number(SubSeq(s, 1, i)) = Number(SubSeq(s, 1, i - 1)) * Base + s[i]
  <2> DEFINE j == i - 1
  <2>1. j \in Nat /\ j + 1 = i /\ j + 1 <= Len(s)
    BY <1>1
  <2> HIDE DEF j
  <2>2. /\ SubSeq(s, 1, j) \in Seq(Byte) /\ s[j + 1] \in Byte
        /\ SubSeq(s, 1, j + 1) = Append(SubSeq(s, 1, j), s[j + 1])
    BY <2>1, PrefixStep
  <2>3. /\ Number(SubSeq(s, 1, j)) \in Nat
        /\ Number(SubSeq(s, 1, j + 1)) = Number(SubSeq(s, 1, j)) * Base + s[j + 1]
        /\ SubSeq(s, 1, j + 1) \in Seq(Byte)
    <3> DEFINE u == SubSeq(s, 1, j)  b == s[j + 1]
    <3>1. u \in Seq(Byte) /\ b \in Byte /\ SubSeq(s, 1, j + 1) = Append(u, b)
      BY <2>2
    <3> HIDE DEF u, b
    <3>2. Number(u) \in Nat /\ Number(Append(u, b)) = Number(u) * Base + b
      BY <3>1, NumberStep
    <3>3. Append(u, b) \in Seq(Byte)
      BY <3>1
    <3> QED
      BY <3>1, <3>2, <3>3 DEF u, b
  <2> QED
    BY <2>1, <2>2, <2>3 DEF j, Byte
<1>d. ASSUME NEW i \in 1..width
      PROVE  /\ Number(SubSeq(s, 1, i)) \div Base = Number(SubSeq(s, 1, i - 1))
             /\ Number(SubSeq(s, 1, i)) % Base = s[i]
  <2> DEFINE u == Number(SubSeq(s, 1, i - 1))  b == s[i]
  <2>1. u \in Nat /\ b \in 0..(Base - 1) /\ Number(SubSeq(s, 1, i)) = u * Base + b
    BY <1>f
  <2> HIDE DEF u, b
  <2>2. (u * Base + b) \div Base = u /\ (u * Base + b) % Base = b
    BY <1>b, <2>1, LastDigit
  <2> QED
    BY <2>1, <2>2 DEF u, b
<1>2. 0 \in S
  <2>1. SubSeq(s, 1, width - 0) = s
    BY <1>1, SubSeqFull
  <2>2. m \div 1 = m
    BY <1>1
  <2> QED
    BY <2>1, <2>2, PowerZero
<1>3. ASSUME NEW k \in Nat, k \in S
      PROVE  k + 1 \in S
  <2> SUFFICES ASSUME k + 1 <= width
               PROVE  m \div Power(k + 1) = Number(SubSeq(s, 1, width - (k + 1)))
    OBVIOUS
  <2> DEFINE i == width - k
  <2>1. i \in 1..width /\ width - (k + 1) = i - 1
    BY <1>1
  <2>2. Power(k) \in Nat \ {0} /\ Power(k + 1) = Power(k) * Base
    BY PowerStep
  <2>3. m \div Power(k + 1) = (m \div Power(k)) \div Base
    BY <1>1, <1>b, <2>2, DivDiv
  <2>4. m \div Power(k) = Number(SubSeq(s, 1, i))
    BY <1>1, <1>3
  <2> HIDE DEF i
  <2>5. Number(SubSeq(s, 1, i)) \div Base = Number(SubSeq(s, 1, i - 1))
    BY <1>d, <2>1
  <2> QED
    BY <2>1, <2>3, <2>4, <2>5
<1> HIDE DEF S
<1>4. ASSUME NEW k \in 0..width
      PROVE  m \div Power(k) = Number(SubSeq(s, 1, width - k))
  <2>1. k \in Nat /\ k <= width
    BY <1>1
  <2>2. k \in S
    BY <1>2, <1>3, <2>1, SetInduction
  <2> QED
    BY <2>1, <2>2 DEF S
<1>5. /\ Field(m, width) \in Seq(Byte) /\ Len(Field(m, width)) = width
      /\ \A i \in 1..width : Field(m, width)[i] = (m \div Power(width - i)) % Base
  BY <1>1, FieldType
<1>6. ASSUME NEW i \in 1..width
      PROVE  Field(m, width)[i] = s[i]
  <2>1. width - i \in 0..width /\ width - (width - i) = i
    BY <1>1
  <2>2. m \div Power(width - i) = Number(SubSeq(s, 1, i))
    BY <1>4, <2>1
  <2>3. Number(SubSeq(s, 1, i)) % Base = s[i]
    BY <1>d
  <2> QED
    BY <1>5, <2>2, <2>3
<1>7. Field(m, width) = s
  BY <1>5, <1>6, SeqEqual
<1>8. m < Power(width)
  <2>1. Power(width) \in Nat \ {0}
    BY <1>1, PowerStep
  <2>2. m \div Power(width) = Number(SubSeq(s, 1, 0))
    BY <1>1, <1>4
  <2>3. SubSeq(s, 1, 0) = <<>>
    BY SubSeqEmpty
  <2>4. m \div Power(width) = 0
    BY <2>2, <2>3, NumberStep
  <2> HIDE DEF m, width
  <2>5. m < Power(width) * ((m \div Power(width)) + 1)
    BY <1>1, <2>1, DivMod
  <2> QED
    BY <1>1, <2>1, <2>4, <2>5
<1> QED
  BY <1>7, <1>8

----------------------------------------------------------------------------
(* Checksums and chunks.                                                   *)

\* A checksum can be continued.
LEMMA CrcStep ==
    ASSUME NEW c \in Byte
    PROVE  /\ CrcAppend(c, <<>>) = c
           /\ \A s \in Seq(Byte) : CrcAppend(c, s) \in Byte
           /\ \A s, t \in Seq(Byte) : CrcAppend(CrcAppend(c, s), t) = CrcAppend(c, s \o t)
<1> DEFINE step == [a \in Byte |-> [b \in Byte |-> (2 * a + b + 1) % Base]]
<1>1. IsStep(step, Byte, Byte)
  <2>1. \A a, b \in Byte : (2 * a + b + 1) % Base \in Byte
    <3>1. Base \in Nat \ {0}
      BY FieldsAssumption
    <3>2. \A x \in Nat : x % Base \in Byte
      BY <3>1, DivMod DEF Byte
    <3>3. \A a, b \in Byte : 2 * a + b + 1 \in Nat
      BY <3>1 DEF Byte
    <3> QED
      BY <3>2, <3>3
  <2> QED
    BY <2>1 DEF IsStep
<1>2. \A d, s : CrcAppend(d, s) = Fold(step, d, s)
  BY DEF CrcAppend
<1> HIDE DEF step
<1>3. CrcAppend(c, <<>>) = c
  BY <1>1, <1>2, FoldEmpty
<1>4. ASSUME NEW s \in Seq(Byte)
      PROVE  CrcAppend(c, s) \in Byte
  BY <1>1, <1>2, FoldType
<1>5. ASSUME NEW s \in Seq(Byte), NEW t \in Seq(Byte)
      PROVE  CrcAppend(CrcAppend(c, s), t) = CrcAppend(c, s \o t)
  BY <1>1, <1>2, FoldConcat
<1> QED
  BY <1>3, <1>4, <1>5

\* The checksum over chunks, chunk by chunk.
LEMMA CrcAllStep ==
    ASSUME NEW c \in Byte
    PROVE  /\ CrcAppendAll(c, <<>>) = c
           /\ \A chunks \in Seq(Seq(Byte)), s \in Seq(Byte) :
                CrcAppendAll(c, Append(chunks, s)) = CrcAppend(CrcAppendAll(c, chunks), s)
<1> DEFINE step == [a \in Byte |-> [s \in Seq(Byte) |-> CrcAppend(a, s)]]
           B == Seq(Byte)
<1>1. IsStep(step, Byte, B)
  BY CrcStep DEF IsStep
<1>2. \A chunks : CrcAppendAll(c, chunks) = Fold(step, c, chunks)
  BY DEF CrcAppendAll
<1>3. \A a \in Byte, s \in Seq(Byte) : step[a][s] = CrcAppend(a, s)
  OBVIOUS
<1> HIDE DEF step, B
<1>4. CrcAppendAll(c, <<>>) = c
  BY <1>1, <1>2, FoldEmpty
<1>5. ASSUME NEW chunks \in Seq(B), NEW s \in B
      PROVE  CrcAppendAll(c, Append(chunks, s)) = CrcAppend(CrcAppendAll(c, chunks), s)
  <2>1. Fold(step, c, chunks) \in Byte
    BY <1>1, FoldType
  <2>2. Fold(step, c, Append(chunks, s)) = step[Fold(step, c, chunks)][s]
    BY <1>1, FoldAppend
  <2> QED
    BY <1>2, <1>3, <2>1, <2>2 DEF B
<1> QED
  BY <1>4, <1>5 DEF B

\* What chunks hold together.
Joined(chunks) == Fold([p \in Seq(Byte) |-> [s \in Seq(Byte) |-> p \o s]], <<>>, chunks)

LEMMA JoinedStep ==
    /\ Joined(<<>>) = <<>>
    /\ \A chunks \in Seq(Seq(Byte)), s \in Seq(Byte) :
         Joined(Append(chunks, s)) = Joined(chunks) \o s
<1> DEFINE step == [p \in Seq(Byte) |-> [s \in Seq(Byte) |-> p \o s]]
           B == Seq(Byte)
           e == <<>>
<1>1. IsStep(step, B, B) /\ e \in B
  BY DEF IsStep
<1>2. \A chunks : Joined(chunks) = Fold(step, e, chunks)
  BY DEF Joined
<1>3. \A p, s \in Seq(Byte) : step[p][s] = p \o s
  OBVIOUS
<1> HIDE DEF step, B, e
<1>4. Fold(step, e, <<>>) = e
  BY <1>1, FoldEmpty
<1>5. ASSUME NEW chunks \in Seq(B), NEW s \in B
      PROVE  Joined(Append(chunks, s)) = Joined(chunks) \o s
  <2>1. Fold(step, e, chunks) \in B
    BY <1>1, FoldType
  <2>2. Fold(step, e, Append(chunks, s)) = step[Fold(step, e, chunks)][s]
    BY <1>1, FoldAppend
  <2> QED
    BY <1>2, <1>3, <2>1, <2>2 DEF B
<1>6. Joined(<<>>) = e
  BY <1>2, <1>4
<1> QED
  BY <1>5, <1>6 DEF B, e

\* The sizes of the chunks: all but the last begin and end inside the payload.
LEMMA ChunkArithmetic ==
    ASSUME NEW n \in Nat, NEW C \in Nat \ {0}, NEW count, count = (n + C - 1) \div C
    PROVE  /\ count \in Nat
           /\ n <= count * C
           /\ \A k \in Nat : k < count => k * C \in Nat /\ k * C < n
<1> DEFINE a == n + C - 1
<1>1. a \in Nat /\ a + 1 = n + C
  OBVIOUS
<1> HIDE DEF a
<1>2. count \in Nat /\ C * count <= a /\ a < C * (count + 1)
  BY <1>1, DivMod DEF a
<1>3. n <= count * C
  BY <1>1, <1>2
<1>4. ASSUME NEW k \in Nat, k < count
      PROVE  k * C \in Nat /\ k * C < n
  <2>1. C * (k + 1) <= C * count
    BY <1>2, <1>4
  <2>2. C * (k + 1) = k * C + C /\ k * C \in Nat
    OBVIOUS
  <2> QED
    BY <1>1, <1>2, <2>1, <2>2
<1> QED
  BY <1>2, <1>3, <1>4

\* The constants of the format are numbers.
LEMMA Sizes ==
    /\ Base \in Nat \ {0, 1} /\ ChunkSize \in Nat \ {0}
    /\ Len(Tag) \in Nat /\ Len(Version) \in Nat /\ LengthLen \in Nat \ {0}
    /\ HeaderLen \in Nat \ {0} /\ HeaderLen = Len(Tag) + Len(Version) + LengthLen
    /\ Overhead = HeaderLen + 1 /\ ChecksumLen = 1
    /\ Word \in Nat /\ Word + 1 = Power(LengthLen)
<1>1. /\ Base \in Nat \ {0, 1} /\ LengthLen \in Nat \ {0} /\ ChunkSize \in Nat \ {0}
      /\ Len(Tag) \in Nat /\ Len(Version) \in Nat
  BY FieldsAssumption
<1>2. Power(LengthLen) \in Nat \ {0}
  BY <1>1, PowerStep
<1> QED
  BY <1>1, <1>2 DEF HeaderLen, Overhead, ChecksumLen, Word

\* What Part returns.
LEMMA PartProperties ==
    ASSUME NEW f \in Seq(Byte), NEW at \in Nat, NEW n \in Nat
    PROVE  /\ Part(f, at, n) \in Seq(Byte)
           /\ Len(Part(f, at, n)) <= n
           /\ at + n <= Len(f) => /\ Part(f, at, n) = SubSeq(f, at + 1, at + n)
                                  /\ Len(Part(f, at, n)) = n
<1> DEFINE e == Min({at + n, Len(f)})
<1>1. Len(f) \in Nat /\ at + n \in Nat /\ \A i \in 1..Len(f) : f[i] \in Byte
  OBVIOUS
<1>2. e = IF at + n <= Len(f) THEN at + n ELSE Len(f)
  BY <1>1, MinOfTwo
<1>3. Part(f, at, n) = SubSeq(f, at + 1, e)
  BY DEF Part
<1> HIDE DEF e
<1>4. e \in Nat /\ e <= Len(f) /\ e <= at + n
  BY <1>1, <1>2
<1>5. \A i \in (at + 1)..e : f[i] \in Byte
  BY <1>1, <1>4
<1>6. /\ SubSeq(f, at + 1, e) \in Seq(Byte)
      /\ Len(SubSeq(f, at + 1, e)) = IF at + 1 <= e THEN e - (at + 1) + 1 ELSE 0
  BY <1>4, <1>5, SubSeqProperties
<1> QED
  BY <1>1, <1>2, <1>3, <1>4, <1>6

\* The declared length of any file is a number, and fits when the field is there.
LEMMA DeclaredType ==
    ASSUME NEW f \in Seq(Byte)
    PROVE  /\ DeclaredIn(f) \in Nat
           /\ HeaderLen <= Len(f) =>
                /\ DeclaredIn(f) <= Word
                /\ Field(DeclaredIn(f), LengthLen) = SubSeq(f, Len(Tag) + Len(Version) + 1, HeaderLen)
<1> DEFINE at == Len(Tag) + Len(Version)
           s == Part(f, at, LengthLen)
<1>1. at \in Nat /\ LengthLen \in Nat /\ HeaderLen = at + LengthLen
  BY Sizes
<1>2. DeclaredIn(f) = Number(s)
  BY DEF DeclaredIn
<1> HIDE DEF at
<1>3. s \in Seq(Byte) /\ (at + LengthLen <= Len(f) => Len(s) = LengthLen /\ s = SubSeq(f, at + 1, at + LengthLen))
  BY <1>1, PartProperties
<1> HIDE DEF s
<1>4. Number(s) \in Nat
  BY <1>3, NumberStep
<1>5. Field(Number(s), Len(s)) = s /\ Number(s) < Power(Len(s))
  BY <1>3, FieldOfNumber
<1>6. ASSUME HeaderLen <= Len(f)
      PROVE  /\ DeclaredIn(f) <= Word
             /\ Field(DeclaredIn(f), LengthLen) = SubSeq(f, at + 1, HeaderLen)
  <2>1. Len(s) = LengthLen /\ s = SubSeq(f, at + 1, HeaderLen)
    BY <1>1, <1>3, <1>6
  <2>2. Number(s) < Power(LengthLen)
    BY <1>5, <2>1
  <2>3. DeclaredIn(f) <= Word
    BY <1>2, <1>4, <2>2, Sizes
  <2>4. Field(DeclaredIn(f), LengthLen) = s
    BY <1>2, <1>5, <2>1
  <2> QED
    BY <2>1, <2>3, <2>4
<1> QED
  BY <1>2, <1>4, <1>6 DEF at

\* The chunks of the payload: where they start, how long they are, what they hold.
LEMMA ChunkShape ==
    ASSUME NEW f \in Seq(Byte)
    PROVE  LET n == DeclaredIn(f) IN
           /\ ChunkCount(f) \in Nat
           /\ n <= ChunkCount(f) * ChunkSize
           /\ \A k \in Nat : k < ChunkCount(f) =>
                /\ k * ChunkSize \in Nat /\ k * ChunkSize < n
                /\ ChunkAt(k + 1) = HeaderLen + k * ChunkSize
                /\ ChunkLen(f, k + 1) \in Nat \ {0}
                /\ k * ChunkSize + ChunkLen(f, k + 1) =
                     IF (k + 1) * ChunkSize <= n THEN (k + 1) * ChunkSize ELSE n
<1> DEFINE n == DeclaredIn(f)
<1>1. n \in Nat /\ ChunkSize \in Nat \ {0} /\ HeaderLen \in Nat
  BY DeclaredType, Sizes
<1>2. ChunkCount(f) = (n + ChunkSize - 1) \div ChunkSize
  BY DEF ChunkCount
<1> HIDE DEF n
<1>3. /\ ChunkCount(f) \in Nat
      /\ n <= ChunkCount(f) * ChunkSize
      /\ \A k \in Nat : k < ChunkCount(f) => k * ChunkSize \in Nat /\ k * ChunkSize < n
  BY <1>1, <1>2, ChunkArithmetic
<1>4. ASSUME NEW k \in Nat, k < ChunkCount(f)
      PROVE  /\ ChunkAt(k + 1) = HeaderLen + k * ChunkSize
             /\ ChunkLen(f, k + 1) \in Nat \ {0}
             /\ k * ChunkSize + ChunkLen(f, k + 1) =
                  IF (k + 1) * ChunkSize <= n THEN (k + 1) * ChunkSize ELSE n
  <2>1. k * ChunkSize \in Nat /\ k * ChunkSize < n
    BY <1>3, <1>4
  <2>2. (k + 1) - 1 = k /\ (k + 1) * ChunkSize = k * ChunkSize + ChunkSize
    BY <1>1
  <2>3. ChunkAt(k + 1) = HeaderLen + k * ChunkSize
    BY <2>2 DEF ChunkAt
  <2>4. ChunkLen(f, k + 1) = Min({ChunkSize, n - k * ChunkSize})
    BY <2>2 DEF ChunkLen, n
  <2> DEFINE r == k * ChunkSize
  <2>5. n - r \in Int /\ ChunkSize \in Int
    BY <1>1, <2>1
  <2>6. Min({ChunkSize, n - r}) = IF ChunkSize <= n - r THEN ChunkSize ELSE n - r
    BY <2>5, MinOfTwo
  <2> HIDE DEF r
  <2>7. ChunkLen(f, k + 1) = IF ChunkSize <= n - r THEN ChunkSize ELSE n - r
    BY <2>4, <2>6 DEF r
  <2>8. r \in Nat /\ r < n /\ (k + 1) * ChunkSize = r + ChunkSize
    BY <2>1, <2>2 DEF r
  <2>9. /\ ChunkLen(f, k + 1) \in Nat \ {0}
        /\ r + ChunkLen(f, k + 1) = IF r + ChunkSize <= n THEN r + ChunkSize ELSE n
    BY <1>1, <2>7, <2>8
  <2> QED
    BY <2>3, <2>8, <2>9 DEF r
<1> QED
  BY <1>3, <1>4 DEF n

\* Together the chunks hold the payload, in order, for the checksum and the sink.
LEMMA ChunksHold ==
    ASSUME NEW f \in Seq(Byte), NEW c \in Byte, HeaderLen + DeclaredIn(f) <= Len(f)
    PROVE  /\ PayloadIn(f) = SubSeq(f, HeaderLen + 1, HeaderLen + DeclaredIn(f))
           /\ CrcAppendAll(c, PayloadChunks(f)) = CrcAppend(c, PayloadIn(f))
           /\ Streamed(f) = PayloadIn(f)
<1> DEFINE n == DeclaredIn(f)
           count == ChunkCount(f)
           End(k) == IF k * ChunkSize <= n THEN k * ChunkSize ELSE n
           chunks == PayloadChunks(f)
           Piece(i, j) == SubSeq(f, HeaderLen + i + 1, HeaderLen + j)
           Held(k) == /\ CrcAppendAll(c, SubSeq(chunks, 1, k)) = CrcAppend(c, Piece(0, End(k)))
                      /\ Joined(SubSeq(chunks, 1, k)) = Piece(0, End(k))
           S == {k \in Nat : k <= count => Held(k)}
<1>1. n \in Nat /\ ChunkSize \in Nat \ {0} /\ HeaderLen \in Nat /\ Len(f) \in Nat
  BY DeclaredType, Sizes
<1>2. HeaderLen + n <= Len(f)
  OBVIOUS
<1>3. /\ count \in Nat /\ n <= count * ChunkSize
      /\ \A k \in Nat : k < count =>
           /\ k * ChunkSize \in Nat /\ k * ChunkSize < n
           /\ ChunkAt(k + 1) = HeaderLen + k * ChunkSize
           /\ ChunkLen(f, k + 1) \in Nat \ {0}
           /\ k * ChunkSize + ChunkLen(f, k + 1) = End(k + 1)
  BY ChunkShape
<1>4. chunks = [i \in 1..count |-> Part(f, ChunkAt(i), ChunkLen(f, i))]
  BY DEF PayloadChunks
<1>5. PayloadIn(f) = Piece(0, n)
  <2>1. Part(f, HeaderLen, n) = SubSeq(f, HeaderLen + 1, HeaderLen + n)
    BY <1>1, <1>2, PartProperties
  <2>2. HeaderLen + 0 + 1 = HeaderLen + 1
    BY <1>1
  <2> QED
    BY <2>1, <2>2 DEF PayloadIn
<1> HIDE DEF n, count, chunks
<1>6. ASSUME NEW i \in 0..n, NEW j \in i..n
      PROVE  /\ Piece(0, i) \in Seq(Byte) /\ Piece(i, j) \in Seq(Byte)
             /\ Piece(0, i) \o Piece(i, j) = Piece(0, j)
  <2> DEFINE a == HeaderLen + 1  b == HeaderLen + i  d == HeaderLen + j
  <2>1. /\ a \in 1..(Len(f) + 1) /\ b \in (a - 1)..Len(f) /\ d \in b..Len(f)
        /\ HeaderLen + 0 + 1 = a /\ HeaderLen + i + 1 = b + 1
        /\ HeaderLen + i = b /\ HeaderLen + j = d
    BY <1>1, <1>2
  <2>2. SubSeq(f, a, b) \in Seq(Byte) /\ SubSeq(f, b + 1, d) \in Seq(Byte)
    <3>1. \A m \in 1..Len(f) : f[m] \in Byte
      OBVIOUS
    <3>2. (\A m \in a..b : f[m] \in Byte) /\ \A m \in (b + 1)..d : f[m] \in Byte
      BY <1>1, <2>1, <3>1
    <3> HIDE DEF a, b, d
    <3>3. a \in Int /\ b \in Int /\ d \in Int /\ b + 1 \in Int
      BY <1>1, <2>1
    <3> QED
      BY <3>2, <3>3, SubSeqProperties
  <2> HIDE DEF a, b, d
  <2>3. SubSeq(f, a, b) \o SubSeq(f, b + 1, d) = SubSeq(f, a, d)
    BY <2>1, ConcatAdjacentSubSeq
  <2> QED
    BY <2>1, <2>2, <2>3
<1>7. ASSUME NEW k \in Nat, k < count
      PROVE  /\ End(k) \in 0..n /\ End(k + 1) \in End(k)..n
             /\ chunks[k + 1] = Piece(End(k), End(k + 1))
  <2> DEFINE r == k * ChunkSize  l == ChunkLen(f, k + 1)
  <2>1. /\ r \in Nat /\ r < n /\ ChunkAt(k + 1) = HeaderLen + r /\ l \in Nat \ {0}
        /\ r + l = End(k + 1)
    BY <1>3, <1>7
  <2>2. (k + 1) * ChunkSize \in Nat
    BY <1>1
  <2>3. End(k + 1) <= n /\ End(k + 1) \in Nat
    BY <1>1, <2>2
  <2>4. End(k) = r
    <3>1. r <= n
      BY <1>1, <2>1
    <3> QED
      BY <3>1
  <2>5. chunks[k + 1] = Part(f, HeaderLen + r, l)
    BY <1>3, <1>4, <1>7, <2>1
  <2> HIDE DEF r, l, End
  <2>6. HeaderLen + r \in Nat /\ (HeaderLen + r) + l <= Len(f)
        /\ (HeaderLen + r) + l = HeaderLen + End(k + 1)
    BY <1>1, <1>2, <2>1, <2>3
  <2>7. Part(f, HeaderLen + r, l) = SubSeq(f, HeaderLen + r + 1, HeaderLen + End(k + 1))
    <3> DEFINE at == HeaderLen + r
    <3>1. at \in Nat /\ l \in Nat /\ at + l <= Len(f)
      BY <2>1, <2>6
    <3> HIDE DEF at
    <3>2. Part(f, at, l) = SubSeq(f, at + 1, at + l)
      BY <3>1, PartProperties
    <3> QED
      BY <2>6, <3>2 DEF at
  <2>8. End(k) \in 0..n /\ End(k + 1) \in End(k)..n
    BY <1>1, <2>1, <2>3, <2>4
  <2> QED
    BY <2>4, <2>5, <2>7, <2>8
<1>8. chunks \in Seq(Seq(Byte)) /\ Len(chunks) = count
  <2>1. ASSUME NEW i \in 1..count
        PROVE  Part(f, ChunkAt(i), ChunkLen(f, i)) \in Seq(Byte)
    <3> DEFINE k == i - 1
    <3>1. k \in Nat /\ k < count /\ k + 1 = i
      BY <1>3
    <3> HIDE DEF k
    <3>2. chunks[i] = Part(f, ChunkAt(i), ChunkLen(f, i))
      BY <1>4
    <3>3. Piece(End(k), End(k + 1)) \in Seq(Byte)
      BY <1>6, <1>7, <3>1
    <3> QED
      BY <1>7, <3>1, <3>2, <3>3
  <2> QED
    BY <1>3, <1>4, <2>1
<1> HIDE DEF End, Piece
<1>9. 0 \in S
  <2>1. SubSeq(chunks, 1, 0) = <<>>
    BY SubSeqEmpty
  <2>2. 0 * ChunkSize = 0 /\ 0 <= n
    BY <1>1
  <2>3. End(0) = 0
    BY <2>2 DEF End
  <2>4. Piece(0, 0) = <<>>
    BY <1>1, SubSeqEmpty DEF Piece
  <2>5. CrcAppendAll(c, <<>>) = c /\ CrcAppend(c, <<>>) = c /\ Joined(<<>>) = <<>>
    BY CrcAllStep, CrcStep, JoinedStep
  <2>6. Held(0)
    BY <2>1, <2>3, <2>4, <2>5
  <2> QED
    BY <2>6
<1>10. ASSUME NEW k \in Nat, Held(k), k < count
       PROVE  Held(k + 1)
  <2> DEFINE u == SubSeq(chunks, 1, k)  x == chunks[k + 1]  p == Piece(0, End(k))
  <2>1. u \in Seq(Seq(Byte)) /\ x \in Seq(Byte) /\ SubSeq(chunks, 1, k + 1) = Append(u, x)
    <3> DEFINE B == Seq(Byte)
    <3>1. chunks \in Seq(B) /\ k + 1 <= Len(chunks)
      BY <1>3, <1>8, <1>10
    <3> HIDE DEF B
    <3>2. u \in Seq(B) /\ x \in B /\ SubSeq(chunks, 1, k + 1) = Append(u, x)
      BY <3>1, PrefixStep
    <3> QED
      BY <3>2 DEF B
  <2>2. p \in Seq(Byte) /\ p \o x = Piece(0, End(k + 1))
    BY <1>6, <1>7, <1>10
  <2>3. CrcAppendAll(c, u) = CrcAppend(c, p) /\ Joined(u) = p
    BY <1>10
  <2> HIDE DEF u, x, p
  <2>4. CrcAppendAll(c, Append(u, x)) = CrcAppend(CrcAppendAll(c, u), x)
    BY <2>1, CrcAllStep
  <2>5. CrcAppend(CrcAppend(c, p), x) = CrcAppend(c, p \o x)
    BY <2>1, <2>2, CrcStep
  <2>6. Joined(Append(u, x)) = Joined(u) \o x
    BY <2>1, JoinedStep
  <2> QED
    BY <2>1, <2>2, <2>3, <2>4, <2>5, <2>6
<1> HIDE DEF Held
<1>11. \A k \in Nat : k \in S => k + 1 \in S
  BY <1>3, <1>10
<1> HIDE DEF S
<1>12. count \in S
  BY <1>3, <1>9, <1>11, SetInduction
<1>13. Held(count)
  BY <1>3, <1>12 DEF S
<1>14. End(count) = n
  BY <1>1, <1>3 DEF End
<1>15. SubSeq(chunks, 1, count) = chunks
  BY <1>8, SubSeqFull
<1>16. CrcAppendAll(c, chunks) = CrcAppend(c, PayloadIn(f)) /\ Joined(chunks) = PayloadIn(f)
  BY <1>5, <1>13, <1>14, <1>15 DEF Held
<1>17. PayloadIn(f) = SubSeq(f, HeaderLen + 1, HeaderLen + DeclaredIn(f))
  <2>1. HeaderLen + 0 + 1 = HeaderLen + 1
    BY <1>1
  <2> QED
    BY <1>5, <2>1 DEF Piece, n
<1> QED
  BY <1>16, <1>17 DEF chunks, Joined, Streamed

----------------------------------------------------------------------------
(* Checks.                                                                 *)

\* The answer is Ok when every check is, else the one before which all are.
LEMMA FirstErrorProperties ==
    ASSUME NEW X, NEW checks \in Seq(X)
    PROVE  /\ FirstError(checks) = Ok <=> \A i \in 1..Len(checks) : checks[i] = Ok
           /\ FirstError(checks) # Ok =>
                \E k \in 1..Len(checks) :
                   /\ FirstError(checks) = checks[k] /\ checks[k] # Ok
                   /\ \A i \in 1..(k - 1) : checks[i] = Ok
<1> DEFINE failing == {i \in DOMAIN checks : checks[i] # Ok}
<1>1. DOMAIN checks = 1..Len(checks) /\ Len(checks) \in Nat
  OBVIOUS
<1>2. failing \in SUBSET Nat
  BY <1>1
<1>3. CASE failing = {}
  BY <1>1, <1>3 DEF FirstError
<1>4. CASE failing # {}
  <2> DEFINE k == Min(failing)
  <2>1. FirstError(checks) = checks[k]
    BY <1>4 DEF FirstError
  <2>2. k \in failing /\ \A y \in failing : k <= y
    BY <1>2, <1>4, MinProperties
  <2> HIDE DEF k
  <2>3. k \in 1..Len(checks) /\ checks[k] # Ok
    BY <1>1, <2>2
  <2>4. \A i \in 1..(k - 1) : checks[i] = Ok
    BY <1>1, <2>2, <2>3
  <2> QED
    BY <2>1, <2>3, <2>4
<1> QED
  BY <1>3, <1>4

\* The first failing check is the answer.
LEMMA FirstErrorAt ==
    ASSUME NEW X, NEW checks \in Seq(X), NEW k \in 1..Len(checks),
           checks[k] # Ok, \A i \in 1..(k - 1) : checks[i] = Ok
    PROVE  FirstError(checks) = checks[k]
<1>1. Len(checks) \in Nat
  OBVIOUS
<1>2. FirstError(checks) # Ok
  BY FirstErrorProperties
<1>3. PICK j \in 1..Len(checks) :
              /\ FirstError(checks) = checks[j] /\ checks[j] # Ok
              /\ \A i \in 1..(j - 1) : checks[i] = Ok
  BY <1>2, FirstErrorProperties
<1>4. ~(j < k) /\ ~(k < j)
  BY <1>1, <1>3
<1>5. j = k
  BY <1>1, <1>4
<1> QED
  BY <1>3, <1>5

\* Checks after checks.
LEMMA FirstErrorConcat ==
    ASSUME NEW X, NEW c \in Seq(X), NEW d \in Seq(X)
    PROVE  FirstError(c \o d) = IF FirstError(c) # Ok THEN FirstError(c) ELSE FirstError(d)
<1> DEFINE e == c \o d
<1>1. /\ e \in Seq(X) /\ Len(e) = Len(c) + Len(d) /\ Len(c) \in Nat /\ Len(d) \in Nat
      /\ \A i \in 1..Len(c) : e[i] = c[i]
      /\ \A i \in 1..Len(d) : e[Len(c) + i] = d[i]
  OBVIOUS
<1> HIDE DEF e
<1>2. CASE FirstError(c) # Ok
  <2>1. PICK k \in 1..Len(c) : /\ FirstError(c) = c[k] /\ c[k] # Ok
                               /\ \A i \in 1..(k - 1) : c[i] = Ok
    BY <1>2, FirstErrorProperties
  <2>2. k \in 1..Len(e) /\ e[k] = c[k] /\ \A i \in 1..(k - 1) : e[i] = Ok
    <3>1. \A i \in 1..(k - 1) : i \in 1..Len(c)
      BY <1>1
    <3>2. \A i \in 1..(k - 1) : e[i] = Ok
      BY <1>1, <2>1, <3>1
    <3> QED
      BY <1>1, <3>2
  <2>3. FirstError(e) = e[k]
    BY <1>1, <2>1, <2>2, FirstErrorAt
  <2> QED
    BY <1>2, <2>1, <2>2, <2>3 DEF e
<1>3. CASE FirstError(c) = Ok
  <2>1. \A i \in 1..Len(c) : e[i] = Ok
    BY <1>1, <1>3, FirstErrorProperties
  <2>2. CASE FirstError(d) = Ok
    <3>1. \A i \in 1..Len(d) : d[i] = Ok
      BY <2>2, FirstErrorProperties
    <3>2. ASSUME NEW i \in 1..Len(e)
          PROVE  e[i] = Ok
      <4>1. CASE i <= Len(c)
        BY <1>1, <2>1, <4>1
      <4>2. CASE ~(i <= Len(c))
        <5>1. i - Len(c) \in 1..Len(d) /\ Len(c) + (i - Len(c)) = i
          BY <1>1, <4>2
        <5> QED
          BY <1>1, <3>1, <5>1
      <4> QED
        BY <4>1, <4>2
    <3>3. FirstError(e) = Ok
      BY <1>1, <3>2, FirstErrorProperties
    <3> QED
      BY <1>3, <2>2, <3>3 DEF e
  <2>3. CASE FirstError(d) # Ok
    <3>1. PICK k \in 1..Len(d) : /\ FirstError(d) = d[k] /\ d[k] # Ok
                                 /\ \A i \in 1..(k - 1) : d[i] = Ok
      BY <2>3, FirstErrorProperties
    <3> DEFINE m == Len(c) + k
    <3>2. m \in 1..Len(e) /\ e[m] = d[k]
      BY <1>1
    <3>3. ASSUME NEW i \in 1..(m - 1)
          PROVE  e[i] = Ok
      <4>1. CASE i <= Len(c)
        BY <1>1, <2>1, <4>1
      <4>2. CASE ~(i <= Len(c))
        <5>1. i - Len(c) \in 1..(k - 1) /\ i - Len(c) \in 1..Len(d) /\ Len(c) + (i - Len(c)) = i
          BY <1>1, <4>2
        <5> QED
          BY <1>1, <3>1, <5>1
      <4> QED
        BY <1>1, <4>1, <4>2
    <3> HIDE DEF m
    <3>4. FirstError(e) = e[m]
      BY <1>1, <3>1, <3>2, <3>3, FirstErrorAt
    <3> QED
      BY <1>3, <3>1, <3>2, <3>4 DEF e
  <2> QED
    BY <2>2, <2>3
<1> QED
  BY <1>2, <1>3

\* Three checks.
LEMMA FirstErrorThree ==
    ASSUME NEW X, NEW x \in X, NEW y \in X, NEW z \in X
    PROVE  FirstError(<<x, y, z>>) = IF x # Ok THEN x ELSE IF y # Ok THEN y ELSE z
<1> DEFINE c == <<x, y, z>>
<1>1. c \in Seq(X) /\ Len(c) = 3 /\ c[1] = x /\ c[2] = y /\ c[3] = z
  OBVIOUS
<1> HIDE DEF c
<1>2. CASE x # Ok
  <2>1. 1 \in 1..Len(c) /\ \A i \in 1..(1 - 1) : c[i] = Ok
    BY <1>1
  <2> QED
    BY <1>1, <1>2, <2>1, FirstErrorAt DEF c
<1>3. CASE x = Ok /\ y # Ok
  <2>1. 2 \in 1..Len(c) /\ \A i \in 1..(2 - 1) : c[i] = Ok
    BY <1>1, <1>3
  <2> QED
    BY <1>1, <1>3, <2>1, FirstErrorAt DEF c
<1>4. CASE x = Ok /\ y = Ok /\ z # Ok
  <2>1. 3 \in 1..Len(c) /\ \A i \in 1..(3 - 1) : c[i] = Ok
    BY <1>1, <1>4
  <2> QED
    BY <1>1, <1>4, <2>1, FirstErrorAt DEF c
<1>5. CASE x = Ok /\ y = Ok /\ z = Ok
  <2>1. \A i \in 1..Len(c) : c[i] = Ok
    BY <1>1, <1>5
  <2> QED
    BY <1>1, <1>5, <2>1, FirstErrorProperties DEF c
<1> QED
  BY <1>2, <1>3, <1>4, <1>5

----------------------------------------------------------------------------
(* Reads.                                                                  *)

\* What answers are made of.
Sections == {"Magic", "Version", "PayloadLength", "Payload", "Checksum"}
Errors ==
    {"InvalidEnvelopeDomain", "UnsupportedEnvelopeVersion", "BlobTooLarge",
     "InvalidPayloadLength", "ChecksumMismatch"}
AnswerWords == {"Ok", "Io", "TrailingData", "TruncatedEnvelope"} \cup Sections \cup Errors
Answers == Seq(AnswerWords)

\* How far f can be read.
Readable(f, fault) == IF Len(f) <= fault THEN Len(f) ELSE fault

\* What a read that does not succeed answers.
ReadError(f, fault, section) == IF fault <= Len(f) THEN <<"Io">> ELSE Truncated(section)

\* Short tuples are sequences.
LEMMA ShortTuples ==
    ASSUME NEW X, NEW x \in X, NEW y \in X
    PROVE  /\ <<x>> \in Seq(X) /\ <<x>>[1] = x
           /\ <<x, y>> \in Seq(X) /\ <<x, y>>[1] = x
OBVIOUS

\* The answers of the decoders are told apart.
LEMMA AnswersDiffer ==
    /\ Ok \in Answers /\ <<"Io">> \in Answers /\ <<"TrailingData">> \in Answers
    /\ Ok # <<"Io">> /\ Ok # <<"TrailingData">>
    /\ \A error \in Sections :
         /\ Truncated(error) \in Answers /\ Truncated(error) # Ok
         /\ Truncated(error)[1] = "TruncatedEnvelope"
    /\ \A condition \in BOOLEAN, error \in Errors :
         /\ Require(condition, error) \in Answers
         /\ Require(condition, error) = Ok <=> condition
<1> DEFINE X == AnswerWords
<1>1. /\ "Ok" \in X /\ "Io" \in X /\ "TrailingData" \in X /\ "TruncatedEnvelope" \in X
      /\ Sections \subseteq X /\ Errors \subseteq X /\ "Ok" \notin Errors
  BY DEF AnswerWords, Errors, Sections
<1>2. Answers = Seq(X)
  BY DEF Answers
<1> HIDE DEF X
<1>3. Ok \in Answers /\ <<"Io">> \in Answers /\ <<"TrailingData">> \in Answers
  BY <1>1, <1>2, ShortTuples DEF Ok
<1>4. ASSUME NEW e \in X \ {"Ok"}
      PROVE  <<e>> # Ok /\ <<e>> \in Answers
  <2>1. <<e>>[1] = e /\ Ok[1] = "Ok"
    BY <1>1, ShortTuples DEF Ok
  <2> QED
    BY <1>2, <2>1, ShortTuples
<1>t. ASSUME NEW e \in X
      PROVE  /\ Truncated(e) \in Answers /\ Truncated(e) # Ok
             /\ Truncated(e)[1] = "TruncatedEnvelope"
  <2>1. Truncated(e) \in Answers /\ Truncated(e)[1] = "TruncatedEnvelope"
    BY <1>1, <1>2, ShortTuples DEF Truncated
  <2>2. Ok[1] = "Ok"
    BY <1>1, ShortTuples DEF Ok
  <2> QED
    BY <2>1, <2>2
<1>5. Ok # <<"Io">> /\ Ok # <<"TrailingData">>
  BY <1>1, <1>4
<1>6. ASSUME NEW condition \in BOOLEAN, NEW e \in X \ {"Ok"}
      PROVE  /\ Require(condition, e) \in Answers
             /\ Require(condition, e) = Ok <=> condition
  BY <1>3, <1>4 DEF Require
<1> QED
  BY <1>1, <1>3, <1>5, <1>6, <1>t

\* A section is read when it lies in what can be read, or is empty.
Has(f, fault, at, n) == n = 0 \/ at + n <= Readable(f, fault)

LEMMA ReadSectionAnswer ==
    ASSUME NEW f \in Seq(Byte), NEW fault \in Nat, NEW at \in Nat, NEW n \in Nat,
           NEW section \in Sections
    PROVE  /\ ReadSection(f, fault, at, n, section) \in Answers
           /\ Has(f, fault, at, n) => ReadSection(f, fault, at, n, section) = Ok
           /\ ~Has(f, fault, at, n) =>
                ReadSection(f, fault, at, n, section) = ReadError(f, fault, section)
           /\ ReadError(f, fault, section) # Ok
<1>1. Len(f) \in Nat
  OBVIOUS
<1>2. Min({Len(f), fault}) = Readable(f, fault)
  BY <1>1, MinOfTwo DEF Readable
<1>3. ReadSection(f, fault, at, n, section) =
        IF Has(f, fault, at, n) THEN Ok ELSE ReadError(f, fault, section)
  BY <1>2 DEF ReadSection, ReadError, Has
<1>4. ReadError(f, fault, section) \in Answers /\ ReadError(f, fault, section) # Ok
  BY AnswersDiffer DEF ReadError
<1> QED
  BY <1>3, <1>4, AnswersDiffer

\* The end is found when nothing follows and the read that looks for it succeeds.
LEMMA ReadEndAnswer ==
    ASSUME NEW f \in Seq(Byte), NEW fault \in Nat, NEW at \in Nat
    PROVE  /\ ReadEnd(f, fault, at) \in Answers
           /\ ReadEnd(f, fault, at) =
                IF at + 1 <= Readable(f, fault) THEN <<"TrailingData">>
                ELSE IF fault <= Len(f) THEN <<"Io">> ELSE Ok
           /\ ReadEnd(f, fault, at) = Ok <=> Len(f) < fault /\ Len(f) <= at
<1>1. Len(f) \in Nat
  OBVIOUS
<1>2. Min({Len(f), fault}) = Readable(f, fault)
  BY <1>1, MinOfTwo DEF Readable
<1>3. ReadEnd(f, fault, at) =
        IF at + 1 <= Readable(f, fault) THEN <<"TrailingData">>
        ELSE IF fault <= Len(f) THEN <<"Io">> ELSE Ok
  BY <1>2 DEF ReadEnd
<1>4. ReadEnd(f, fault, at) = Ok <=> ~(at + 1 <= Readable(f, fault)) /\ ~(fault <= Len(f))
  BY <1>3, AnswersDiffer
<1>5. ~(at + 1 <= Readable(f, fault)) /\ ~(fault <= Len(f)) <=> Len(f) < fault /\ Len(f) <= at
  BY <1>1 DEF Readable
<1> QED
  BY <1>3, <1>4, <1>5, AnswersDiffer

----------------------------------------------------------------------------
(* The decoders' answers, spelled out.                                     *)

HeaderFits(f, fault) ==
    /\ HeaderLen <= Readable(f, fault)
    /\ TagOf(f) = Tag /\ VersionOf(f) = Version
    /\ DeclaredIn(f) <= maximum

\* The header is accepted when it can be read and its fields are as configured.
LEMMA HeaderAnswer ==
    ASSUME NEW f \in Seq(Byte), NEW fault \in Nat
    PROVE  /\ HeaderChecks(f, fault) \in Seq(Answers)
           /\ FirstError(HeaderChecks(f, fault)) = Ok <=> HeaderFits(f, fault)
<1> DEFINE R == Readable(f, fault)
           at == Len(Tag) + Len(Version)
           c1 == ReadSection(f, fault, 0, Len(Tag), "Magic")
           c2 == Require(TagOf(f) = Tag, "InvalidEnvelopeDomain")
           c3 == ReadSection(f, fault, Len(Tag), Len(Version), "Version")
           c4 == Require(VersionOf(f) = Version, "UnsupportedEnvelopeVersion")
           c5 == ReadSection(f, fault, at, LengthLen, "PayloadLength")
           c6 == Require(DeclaredIn(f) <= maximum, "BlobTooLarge")
<1>1. HeaderChecks(f, fault) = <<c1, c2, c3, c4, c5, c6>>
  BY DEF HeaderChecks
<1>2. /\ Len(f) \in Nat /\ R \in Nat /\ Len(Tag) \in Nat /\ Len(Version) \in Nat
      /\ at \in Nat /\ LengthLen \in Nat \ {0} /\ HeaderLen = at + LengthLen
      /\ at = Len(Tag) + Len(Version)
  BY Sizes DEF Readable
<1>3. {"Magic", "Version", "PayloadLength"} \subseteq Sections
  BY DEF Sections
<1>4. {"InvalidEnvelopeDomain", "UnsupportedEnvelopeVersion", "BlobTooLarge"} \subseteq Errors
  BY DEF Errors
<1>r. ASSUME NEW a \in Nat, NEW n \in Nat, NEW section \in Sections
      PROVE  /\ ReadSection(f, fault, a, n, section) \in Answers
             /\ ReadSection(f, fault, a, n, section) = Ok <=> Has(f, fault, a, n)
  BY ReadSectionAnswer
<1>5. c1 \in Answers /\ (c1 = Ok <=> Has(f, fault, 0, Len(Tag)))
  BY <1>2, <1>3, <1>r
<1>6. c3 \in Answers /\ (c3 = Ok <=> Has(f, fault, Len(Tag), Len(Version)))
  BY <1>2, <1>3, <1>r
<1> HIDE DEF at
<1>7. c5 \in Answers /\ (c5 = Ok <=> Has(f, fault, at, LengthLen))
  BY <1>2, <1>3, <1>r
<1>8. c2 \in Answers /\ (c2 = Ok <=> TagOf(f) = Tag)
  BY <1>4, AnswersDiffer
<1>9. c4 \in Answers /\ (c4 = Ok <=> VersionOf(f) = Version)
  BY <1>4, AnswersDiffer
<1>10. c6 \in Answers /\ (c6 = Ok <=> DeclaredIn(f) <= maximum)
  <2> DEFINE fits == DeclaredIn(f) <= maximum
  <2>1. fits \in BOOLEAN
    OBVIOUS
  <2> HIDE DEF fits
  <2>2. Require(fits, "BlobTooLarge") \in Answers /\ (Require(fits, "BlobTooLarge") = Ok <=> fits)
    BY <1>4, <2>1, AnswersDiffer
  <2> QED
    BY <2>2 DEF fits
<1> DEFINE A == Answers
<1> HIDE DEF c1, c2, c3, c4, c5, c6, R, A
<1>11. <<c1, c2, c3, c4, c5, c6>> \in Seq(A) /\ Len(<<c1, c2, c3, c4, c5, c6>>) = 6
  BY <1>5, <1>6, <1>7, <1>8, <1>9, <1>10 DEF A
<1>12. FirstError(<<c1, c2, c3, c4, c5, c6>>) = Ok <=>
         c1 = Ok /\ c2 = Ok /\ c3 = Ok /\ c4 = Ok /\ c5 = Ok /\ c6 = Ok
  <2> DEFINE s == <<c1, c2, c3, c4, c5, c6>>
  <2>1. s[1] = c1 /\ s[2] = c2 /\ s[3] = c3 /\ s[4] = c4 /\ s[5] = c5 /\ s[6] = c6
    OBVIOUS
  <2>2. s \in Seq(A) /\ Len(s) = 6
    BY <1>11
  <2> HIDE DEF s
  <2>3. FirstError(s) = Ok <=> \A i \in 1..6 : s[i] = Ok
    BY <2>2, FirstErrorProperties
  <2>4. (\A i \in 1..6 : s[i] = Ok) <=>
          s[1] = Ok /\ s[2] = Ok /\ s[3] = Ok /\ s[4] = Ok /\ s[5] = Ok /\ s[6] = Ok
    OBVIOUS
  <2> QED
    BY <2>1, <2>3, <2>4 DEF s
<1>13. c1 = Ok /\ c3 = Ok /\ c5 = Ok <=> HeaderLen <= R
  BY <1>2, <1>5, <1>6, <1>7 DEF Has, R
<1> QED
  BY <1>1, <1>8, <1>9, <1>10, <1>11, <1>12, <1>13 DEF HeaderFits, R, A

\* The chunk reads together answer what one read of the payload does.
LEMMA ChunkReads ==
    ASSUME NEW f \in Seq(Byte), NEW fault \in Nat
    PROVE  LET reads == [i \in 1..ChunkCount(f) |->
                           ReadSection(f, fault, ChunkAt(i), ChunkLen(f, i), "Payload")]
           IN  /\ reads \in Seq(Answers)
               /\ FirstError(reads) = ReadSection(f, fault, HeaderLen, DeclaredIn(f), "Payload")
<1> DEFINE n == DeclaredIn(f)
           count == ChunkCount(f)
           R == Readable(f, fault)
           read(i) == ReadSection(f, fault, ChunkAt(i), ChunkLen(f, i), "Payload")
           reads == [i \in 1..count |-> read(i)]
           whole == ReadSection(f, fault, HeaderLen, n, "Payload")
           error == ReadError(f, fault, "Payload")
           End(k) == IF k * ChunkSize <= n THEN k * ChunkSize ELSE n
<1>1. /\ n \in Nat /\ ChunkSize \in Nat \ {0} /\ HeaderLen \in Nat /\ Len(f) \in Nat /\ R \in Nat
      /\ "Payload" \in Sections
  BY DeclaredType, Sizes DEF Readable, Sections
<1>2. /\ count \in Nat /\ n <= count * ChunkSize
      /\ \A k \in Nat : k < count =>
           /\ k * ChunkSize \in Nat /\ k * ChunkSize < n
           /\ ChunkAt(k + 1) = HeaderLen + k * ChunkSize
           /\ ChunkLen(f, k + 1) \in Nat \ {0}
           /\ k * ChunkSize + ChunkLen(f, k + 1) = End(k + 1)
  BY ChunkShape
<1> HIDE DEF n, count, R
<1>3. whole = IF n = 0 \/ HeaderLen + n <= R THEN Ok ELSE error
  BY <1>1, ReadSectionAnswer DEF R, Has
<1>4. error # Ok
  BY <1>1, ReadSectionAnswer
<1>5. ASSUME NEW i \in 1..count
      PROVE  /\ read(i) \in Answers /\ End(i) \in 1..n
             /\ read(i) = IF HeaderLen + End(i) <= R THEN Ok ELSE error
  <2> DEFINE k == i - 1  a == ChunkAt(i)  l == ChunkLen(f, i)
  <2>1. k \in Nat /\ k < count /\ k + 1 = i
    BY <1>2
  <2> HIDE DEF k
  <2>2. /\ k * ChunkSize \in Nat /\ k * ChunkSize < n
        /\ a = HeaderLen + k * ChunkSize /\ l \in Nat \ {0} /\ k * ChunkSize + l = End(i)
    BY <1>2, <2>1
  <2>3. End(i) <= n
    <3>1. i * ChunkSize \in Nat
      BY <1>1, <1>2
    <3> QED
      BY <1>1, <3>1
  <2> HIDE DEF a, l, End
  <2>4. a \in Nat /\ l \in Nat /\ l # 0 /\ a + l = HeaderLen + End(i) /\ End(i) \in 1..n
    BY <1>1, <2>2, <2>3
  <2>5. /\ ReadSection(f, fault, a, l, "Payload") \in Answers
        /\ ReadSection(f, fault, a, l, "Payload") = IF l = 0 \/ a + l <= R THEN Ok ELSE error
    BY <1>1, <2>4, ReadSectionAnswer DEF R, Has
  <2> QED
    BY <2>4, <2>5 DEF a, l
<1>6. reads \in Seq(Answers) /\ Len(reads) = count /\ \A i \in 1..count : reads[i] = read(i)
  <2> DEFINE A == Answers
  <2>1. \A i \in 1..count : read(i) \in A
    BY <1>5
  <2> HIDE DEF A, read
  <2>2. reads \in Seq(A) /\ Len(reads) = count /\ \A i \in 1..count : reads[i] = read(i)
    BY <1>2, <2>1
  <2> QED
    BY <2>2 DEF A
<1> HIDE DEF read, reads, whole, error, End
<1>7. \A i \in 1..count : reads[i] = IF HeaderLen + End(i) <= R THEN Ok ELSE error
  BY <1>5, <1>6
<1>8. ASSUME whole = Ok
      PROVE  FirstError(reads) = whole
  <2>1. n = 0 \/ HeaderLen + n <= R
    BY <1>3, <1>4, <1>8
  <2>2. ASSUME NEW i \in 1..count
        PROVE  reads[i] = Ok
    <3>1. End(i) \in 1..n
      BY <1>5
    <3>2. HeaderLen + End(i) <= R
      BY <1>1, <2>1, <3>1
    <3> QED
      BY <1>7, <3>2
  <2>3. FirstError(reads) = Ok
    BY <1>6, <2>2, FirstErrorProperties
  <2> QED
    BY <1>8, <2>3
<1>9. ASSUME whole # Ok
      PROVE  FirstError(reads) = whole
  <2>1. n # 0 /\ ~(HeaderLen + n <= R) /\ whole = error
    BY <1>3, <1>9
  <2>2. count \in 1..count /\ End(count) = n
    <3>1. count # 0
      BY <1>1, <1>2, <2>1
    <3>2. End(count) = n
      BY <1>1, <1>2 DEF End
    <3> QED
      BY <1>2, <3>1, <3>2
  <2>3. reads[count] = error
    BY <1>7, <2>1, <2>2
  <2>4. FirstError(reads) # Ok
    BY <1>4, <1>6, <2>2, <2>3, FirstErrorProperties
  <2>5. PICK k \in 1..count : FirstError(reads) = reads[k] /\ reads[k] # Ok
    BY <1>6, <2>4, FirstErrorProperties
  <2>6. reads[k] = error
    BY <1>7, <2>5
  <2> QED
    BY <2>1, <2>5, <2>6
<1>10. FirstError(reads) = whole
  BY <1>8, <1>9
<1> QED
  BY <1>6, <1>10 DEF reads, read, whole, n, count

----------------------------------------------------------------------------
(* Headers in files.                                                       *)

\* The elements of a concatenation.
LEMMA ConcatElements ==
    ASSUME NEW X, NEW c \in Seq(X), NEW d \in Seq(X)
    PROVE  /\ c \o d \in Seq(X) /\ Len(c \o d) = Len(c) + Len(d)
           /\ \A i \in 1..Len(c) : (c \o d)[i] = c[i]
           /\ \A i \in 1..Len(d) : (c \o d)[Len(c) + i] = d[i]
OBVIOUS

\* The bytes of a header, field after field.
LEMMA HeaderShape ==
    ASSUME NEW n \in Nat
    PROVE  LET h == EnvelopeHeader(n)
               at == Len(Tag) + Len(Version)
           IN  /\ h \in Seq(Byte) /\ Len(h) = HeaderLen
               /\ \A i \in 1..Len(Tag) : h[i] = Tag[i]
               /\ \A i \in 1..Len(Version) : h[Len(Tag) + i] = Version[i]
               /\ \A i \in 1..LengthLen : h[at + i] = Field(n, LengthLen)[i]
<1> DEFINE w == Field(n, LengthLen)
           u == Tag \o Version
           h == u \o w
           at == Len(Tag) + Len(Version)
<1>1. /\ Len(Tag) \in Nat /\ Len(Version) \in Nat /\ LengthLen \in Nat
      /\ HeaderLen = Len(Tag) + Len(Version) + LengthLen
      /\ Tag \in Seq(Byte) /\ Version \in Seq(Byte)
  BY Sizes, FieldsAssumption
<1>2. w \in Seq(Byte) /\ Len(w) = LengthLen
  BY <1>1, FieldType
<1>3. /\ u \in Seq(Byte) /\ Len(u) = at /\ at \in Nat
      /\ \A i \in 1..Len(Tag) : u[i] = Tag[i]
      /\ \A i \in 1..Len(Version) : u[Len(Tag) + i] = Version[i]
  <2> DEFINE B == Byte  t == Tag  v == Version
  <2>1. t \in Seq(B) /\ v \in Seq(B)
    BY <1>1
  <2>2. /\ Len(t) \in Nat /\ Len(v) \in Nat
    BY <1>1
  <2> HIDE DEF B, t, v
  <2>3. /\ t \o v \in Seq(B) /\ Len(t \o v) = Len(t) + Len(v)
        /\ \A i \in 1..Len(t) : (t \o v)[i] = t[i]
        /\ \A i \in 1..Len(v) : (t \o v)[Len(t) + i] = v[i]
    BY <2>1, ConcatElements
  <2>4. Len(t) + Len(v) \in Nat
    BY <2>2
  <2> QED
    BY <2>3, <2>4 DEF B, t, v
<1>4. EnvelopeHeader(n) = h
  BY DEF EnvelopeHeader
<1> HIDE DEF u, w
<1>5. /\ h \in Seq(Byte) /\ Len(h) = at + LengthLen
      /\ \A i \in 1..at : h[i] = u[i]
      /\ \A i \in 1..LengthLen : h[at + i] = w[i]
  <2> DEFINE B == Byte
  <2>1. u \in Seq(B) /\ w \in Seq(B)
    BY <1>2, <1>3
  <2> HIDE DEF B
  <2>2. /\ u \o w \in Seq(B) /\ Len(u \o w) = Len(u) + Len(w)
        /\ \A i \in 1..Len(u) : (u \o w)[i] = u[i]
        /\ \A i \in 1..Len(w) : (u \o w)[Len(u) + i] = w[i]
    BY <2>1, ConcatElements
  <2>3. Len(u) = at /\ Len(w) = LengthLen
    BY <1>2, <1>3
  <2> HIDE DEF at
  <2> QED
    BY <2>2, <2>3 DEF B
<1> HIDE DEF h
<1>6. \A i \in 1..Len(Tag) : h[i] = Tag[i]
  BY <1>1, <1>3, <1>5
<1>7. ASSUME NEW i \in 1..Len(Version)
      PROVE  h[Len(Tag) + i] = Version[i]
  <2>1. Len(Tag) + i \in 1..at
    BY <1>1
  <2> QED
    BY <1>3, <1>5, <2>1
<1> QED
  BY <1>1, <1>4, <1>5, <1>6, <1>7 DEF w

\* f begins like a header that declares n, as far as it goes.
Begins(f, n) == \A i \in 1..Len(f) : i <= HeaderLen => f[i] = EnvelopeHeader(n)[i]

\* The fields that such a file has are the header's.
LEMMA FieldsOfHeader ==
    ASSUME NEW f \in Seq(Byte), NEW n \in 0..Word, Begins(f, n)
    PROVE  /\ Len(Tag) <= Len(f) => TagOf(f) = Tag
           /\ Len(Tag) + Len(Version) <= Len(f) => VersionOf(f) = Version
           /\ HeaderLen <= Len(f) => DeclaredIn(f) = n
<1> DEFINE h == EnvelopeHeader(n)
           at == Len(Tag) + Len(Version)
           w == Field(n, LengthLen)
<1>1. /\ Len(Tag) \in Nat /\ Len(Version) \in Nat /\ LengthLen \in Nat /\ n \in Nat
      /\ Word \in Nat /\ Word + 1 = Power(LengthLen) /\ at \in Nat
      /\ HeaderLen = at + LengthLen /\ Len(f) \in Nat
      /\ Tag \in Seq(Byte) /\ Version \in Seq(Byte)
  BY Sizes, FieldsAssumption
<1>2. /\ h \in Seq(Byte) /\ Len(h) = HeaderLen
      /\ \A i \in 1..Len(Tag) : h[i] = Tag[i]
      /\ \A i \in 1..Len(Version) : h[Len(Tag) + i] = Version[i]
      /\ \A i \in 1..LengthLen : h[at + i] = w[i]
  BY <1>1, HeaderShape
<1>3. w \in Seq(Byte) /\ Len(w) = LengthLen /\ Number(w) = n
  BY <1>1, FieldType, NumberOfField
<1>4. \A i \in 1..Len(f) : i <= HeaderLen => f[i] = h[i]
  BY DEF Begins
<1> HIDE DEF h, w
<1>5. ASSUME NEW a \in Nat, NEW s \in Seq(Byte), a + Len(s) <= Len(f), a + Len(s) <= HeaderLen,
             \A i \in 1..Len(s) : h[a + i] = s[i]
      PROVE  Part(f, a, Len(s)) = s
  <2> DEFINE p == Part(f, a, Len(s))  l == Len(s)
  <2>1. l \in Nat
    OBVIOUS
  <2>2. p \in Seq(Byte) /\ Len(p) = l /\ p = SubSeq(f, a + 1, a + l)
    BY <1>5, <2>1, PartProperties
  <2>3. ASSUME NEW i \in 1..l
        PROVE  p[i] = s[i]
    <3>1. a + i \in 1..Len(f) /\ a + i <= HeaderLen /\ (a + 1) + i - 1 = a + i
      BY <1>1, <1>5, <2>1
    <3>2. p[i] = f[a + i]
      <4>1. \A j \in (a + 1)..(a + l) : f[j] \in Byte
        BY <1>1, <1>5, <2>1
      <4>2. \A j \in 1..(a + l) - (a + 1) + 1 : SubSeq(f, a + 1, a + l)[j] = f[(a + 1) + j - 1]
        BY SMTT(60), <2>1, <4>1, SubSeqProperties
      <4>3. i \in 1..(a + l) - (a + 1) + 1
        BY <2>1
      <4> QED
        BY <2>2, <3>1, <4>2, <4>3
    <3> QED
      BY <1>4, <1>5, <3>1, <3>2
  <2> HIDE DEF p
  <2>4. p = s
    BY <2>2, <2>3, SeqEqual
  <2> QED
    BY <2>4 DEF p
<1>6. Len(Tag) <= Len(f) => TagOf(f) = Tag
  <2>1. \A i \in 1..Len(Tag) : h[0 + i] = Tag[i]
    BY <1>1, <1>2
  <2>2. 0 \in Nat /\ 0 + Len(Tag) = Len(Tag) /\ Len(Tag) <= HeaderLen
    BY <1>1
  <2>3. Len(Tag) <= Len(f) => Part(f, 0, Len(Tag)) = Tag
    BY <1>1, <1>5, <2>1, <2>2
  <2> QED
    BY <2>3 DEF TagOf
<1>7. at <= Len(f) => VersionOf(f) = Version
  <2>1. Len(Tag) + Len(Version) <= HeaderLen
    BY <1>1
  <2>2. at <= Len(f) => Part(f, Len(Tag), Len(Version)) = Version
    BY <1>1, <1>2, <1>5, <2>1
  <2> QED
    BY <2>2 DEF VersionOf
<1>8. HeaderLen <= Len(f) => DeclaredIn(f) = n
  <2> HIDE DEF at
  <2>1. HeaderLen <= Len(f) => Part(f, at, LengthLen) = w
    <3>1. at + Len(w) = HeaderLen /\ HeaderLen <= HeaderLen /\ \A i \in 1..Len(w) : h[at + i] = w[i]
      BY <1>1, <1>2, <1>3
    <3>2. HeaderLen <= Len(f) => Part(f, at, Len(w)) = w
      BY <1>1, <1>3, <1>5, <3>1
    <3> QED
      BY <1>3, <3>2
  <2> QED
    BY <1>3, <2>1 DEF DeclaredIn, at
<1> QED
  BY <1>6, <1>7, <1>8

\* A file with the fields of an accepted header begins with that header.
LEMMA HeaderOfFields ==
    ASSUME NEW f \in Seq(Byte), HeaderLen <= Len(f), TagOf(f) = Tag, VersionOf(f) = Version
    PROVE  SubSeq(f, 1, HeaderLen) = EnvelopeHeader(DeclaredIn(f))
<1> DEFINE at == Len(Tag) + Len(Version)
<1>1. /\ Len(Tag) \in Nat /\ Len(Version) \in Nat /\ LengthLen \in Nat /\ at \in Nat
      /\ HeaderLen = at + LengthLen /\ Len(f) \in Nat /\ HeaderLen <= Len(f)
  BY Sizes
<1>p. ASSUME NEW i \in Nat, NEW l \in Nat, i + l <= Len(f)
      PROVE  Part(f, i, l) = SubSeq(f, i + 1, i + l)
  BY <1>p, PartProperties
<1>2. Tag = SubSeq(f, 1, Len(Tag))
  <2>1. 0 \in Nat /\ 0 + Len(Tag) = Len(Tag) /\ Len(Tag) <= Len(f) /\ 0 + 1 = 1
    BY <1>1
  <2>2. Part(f, 0, Len(Tag)) = SubSeq(f, 0 + 1, 0 + Len(Tag))
    BY <1>1, <1>p, <2>1
  <2> QED
    BY <2>1, <2>2 DEF TagOf
<1>3. Version = SubSeq(f, Len(Tag) + 1, at)
  <2>1. Len(Tag) + Len(Version) <= Len(f)
    BY <1>1
  <2>2. Part(f, Len(Tag), Len(Version)) = SubSeq(f, Len(Tag) + 1, Len(Tag) + Len(Version))
    BY <1>1, <1>p, <2>1
  <2> QED
    BY <2>2 DEF VersionOf
<1>4. Field(DeclaredIn(f), LengthLen) = SubSeq(f, at + 1, HeaderLen)
  BY DeclaredType
<1>5. EnvelopeHeader(DeclaredIn(f)) = (Tag \o Version) \o Field(DeclaredIn(f), LengthLen)
  BY DEF EnvelopeHeader
<1> DEFINE a == Len(Tag)  H == HeaderLen
<1>6. 1 \in 1..Len(f) + 1 /\ a \in (1 - 1)..Len(f) /\ at \in a..Len(f) /\ at \in (1 - 1)..Len(f)
      /\ H \in at..Len(f)
  BY <1>1
<1> HIDE DEF a, at, H
<1>7. SubSeq(f, 1, a) \o SubSeq(f, a + 1, at) = SubSeq(f, 1, at)
  BY <1>6, ConcatAdjacentSubSeq
<1>8. SubSeq(f, 1, at) \o SubSeq(f, at + 1, H) = SubSeq(f, 1, H)
  BY <1>6, ConcatAdjacentSubSeq
<1> QED
  BY <1>2, <1>3, <1>4, <1>5, <1>7, <1>8 DEF a, H

----------------------------------------------------------------------------
(* The checksums the decoders compute.                                     *)

DecodeCrc(f) ==
    CrcAppend(CrcAppend(CrcAppend(Crc(Tag), Version), Field(DeclaredIn(f), LengthLen)), PayloadIn(f))
ValidateCrc(f) == CrcAppendAll(Crc(Part(f, 0, HeaderLen)), PayloadChunks(f))

\* Field by field or chunk by chunk, both are the checksum of the bytes before it.
LEMMA CrcOfEnvelope ==
    ASSUME NEW f \in Seq(Byte), HeaderLen + DeclaredIn(f) <= Len(f),
           TagOf(f) = Tag, VersionOf(f) = Version
    PROVE  LET covered == SubSeq(f, 1, HeaderLen + DeclaredIn(f))
           IN  DecodeCrc(f) = Crc(covered) /\ ValidateCrc(f) = Crc(covered)
<1> DEFINE n == DeclaredIn(f)  H == HeaderLen
           w == Field(n, LengthLen)
           p == PayloadIn(f)
           h == SubSeq(f, 1, H)
           B == Byte
           zero == 0
<1>1. /\ n \in Nat /\ H \in Nat /\ Len(f) \in Nat /\ H <= Len(f) /\ H + n <= Len(f)
      /\ Tag \in Seq(B) /\ Version \in Seq(B) /\ LengthLen \in Nat
  BY DeclaredType, Sizes, FieldsAssumption
<1>2. w \in Seq(B)
  BY <1>1, FieldType
<1>3. h = (Tag \o Version) \o w
  BY <1>1, HeaderOfFields DEF EnvelopeHeader
<1>4. h \in Seq(B) /\ Part(f, 0, H) = h
  <2>1. 0 + H = H /\ 0 + 1 = 1 /\ H <= Len(f)
    BY <1>1
  <2>2. Part(f, 0, H) \in Seq(Byte) /\ Part(f, 0, H) = SubSeq(f, 0 + 1, 0 + H)
    BY <1>1, <2>1, PartProperties
  <2> QED
    BY <2>1, <2>2
<1>5. zero \in B
  BY Sizes DEF Byte
<1>6. Crc(h) \in B
  BY <1>4, <1>5, CrcStep DEF Crc
<1>7. /\ p = SubSeq(f, H + 1, H + n)
      /\ CrcAppendAll(Crc(h), PayloadChunks(f)) = CrcAppend(Crc(h), p)
  BY <1>1, <1>6, ChunksHold
<1>8. p \in Seq(B)
  BY <1>1, PartProperties DEF PayloadIn
<1>9. h \o p = SubSeq(f, 1, H + n)
  <2> DEFINE m == H + n
  <2>1. 1 \in 1..Len(f) + 1 /\ H \in (1 - 1)..Len(f) /\ m \in H..Len(f)
    BY <1>1
  <2> HIDE DEF H, m
  <2>2. SubSeq(f, 1, H) \o SubSeq(f, H + 1, m) = SubSeq(f, 1, m)
    BY <2>1, ConcatAdjacentSubSeq
  <2> QED
    BY <1>7, <2>2 DEF m
<1>10. CrcAppend(Crc(h), p) = Crc(h \o p)
  <2> HIDE DEF h, p, B, zero
  <2>1. CrcAppend(CrcAppend(zero, h), p) = CrcAppend(zero, h \o p)
    BY <1>4, <1>5, <1>8, CrcStep DEF B
  <2> QED
    BY <2>1 DEF Crc, zero
<1>11. CrcAppend(CrcAppend(Crc(Tag), Version), w) = Crc((Tag \o Version) \o w)
  <2> DEFINE t == Tag  v == Version  u == t \o v
  <2>1. t \in Seq(B) /\ v \in Seq(B)
    BY <1>1
  <2> HIDE DEF t, v, w, B, zero
  <2>2. u \in Seq(B)
    BY <2>1, ConcatElements
  <2>3. CrcAppend(CrcAppend(zero, t), v) = CrcAppend(zero, u)
    BY <1>5, <2>1, CrcStep DEF B
  <2> HIDE DEF u
  <2>4. CrcAppend(CrcAppend(zero, u), w) = CrcAppend(zero, u \o w)
    BY <1>2, <1>5, <2>2, CrcStep DEF B
  <2> QED
    BY <2>3, <2>4 DEF Crc, zero, t, v, u
<1>12. DecodeCrc(f) = Crc(h \o p)
  <2>1. DecodeCrc(f) = CrcAppend(CrcAppend(CrcAppend(Crc(Tag), Version), w), p)
    BY DEF DecodeCrc
  <2> HIDE DEF h, p, w
  <2> QED
    BY <1>3, <1>10, <1>11, <2>1
<1>13. ValidateCrc(f) = Crc(h \o p)
  <2>1. ValidateCrc(f) = CrcAppendAll(Crc(h), PayloadChunks(f))
    BY <1>4 DEF ValidateCrc
  <2> QED
    BY <1>7, <1>10, <2>1
<1> QED
  BY <1>9, <1>12, <1>13

----------------------------------------------------------------------------
(* The answers of the decoders, part after part.                           *)

\* A check whose result only matters when the one before it succeeded.
Then(x, y) == IF x # Ok THEN x ELSE y

\* The first error of six checks.
LEMMA FirstErrorSix ==
    ASSUME NEW X, NEW u \in X, NEW v \in X, NEW w \in X, NEW x \in X, NEW y \in X, NEW z \in X
    PROVE  /\ <<u, v, w, x, y, z>> \in Seq(X)
           /\ FirstError(<<u, v, w, x, y, z>>) =
                Then(u, Then(v, Then(w, Then(x, Then(y, z)))))
<1> DEFINE c == <<u, v, w>>  d == <<x, y, z>>
<1>1. c \in Seq(X) /\ d \in Seq(X) /\ <<u, v, w, x, y, z>> \in Seq(X)
  OBVIOUS
<1>2. <<u, v, w, x, y, z>> = c \o d
  OBVIOUS
<1>3. FirstError(c) = Then(u, Then(v, w))
  BY FirstErrorThree DEF Then
<1>4. FirstError(d) = Then(x, Then(y, z))
  BY FirstErrorThree DEF Then
<1> HIDE DEF c, d
<1>5. FirstError(c \o d) = Then(FirstError(c), FirstError(d))
  BY <1>1, FirstErrorConcat DEF Then
<1> QED
  BY <1>1, <1>2, <1>3, <1>4, <1>5 DEF Then

HeaderResult(f, fault) == FirstError(HeaderChecks(f, fault))
PayloadRead(f, fault) == ReadSection(f, fault, HeaderLen, DeclaredIn(f), "Payload")
ChecksumRead(f, fault) == ReadSection(f, fault, HeaderLen + DeclaredIn(f), ChecksumLen, "Checksum")
EndRead(f, fault) == ReadEnd(f, fault, HeaderLen + DeclaredIn(f) + ChecksumLen)
Compared(f, actual) == Require(ChecksumIn(f) = actual, "ChecksumMismatch")
Ending(f, fault, actual) ==
    Then(ChecksumRead(f, fault), Then(EndRead(f, fault), Compared(f, actual)))

LEMMA PartAnswers ==
    ASSUME NEW f \in Seq(Byte), NEW fault \in Nat, NEW actual
    PROVE  /\ PayloadRead(f, fault) \in Answers
           /\ ChecksumRead(f, fault) \in Answers
           /\ EndRead(f, fault) \in Answers
           /\ Compared(f, actual) \in Answers
           /\ Compared(f, actual) = Ok <=> ChecksumIn(f) = actual
<1> DEFINE n == DeclaredIn(f)  m == HeaderLen + n  e == m + ChecksumLen
           same == ChecksumIn(f) = actual
<1>1. HeaderLen \in Nat /\ n \in Nat /\ m \in Nat /\ ChecksumLen \in Nat /\ e \in Nat
  <2>1. HeaderLen \in Nat /\ ChecksumLen \in Nat
    BY Sizes
  <2>2. n \in Nat
    BY DeclaredType
  <2> HIDE DEF n
  <2> QED
    BY <2>1, <2>2
<1>2. {"Payload", "Checksum"} \subseteq Sections /\ "ChecksumMismatch" \in Errors
  BY DEF Sections, Errors
<1>3. same \in BOOLEAN
  OBVIOUS
<1> HIDE DEF n, m, e, same
<1>4. ReadSection(f, fault, HeaderLen, n, "Payload") \in Answers
  BY <1>1, <1>2, ReadSectionAnswer
<1>5. ReadSection(f, fault, m, ChecksumLen, "Checksum") \in Answers
  BY <1>1, <1>2, ReadSectionAnswer
<1>6. ReadEnd(f, fault, e) \in Answers
  BY <1>1, ReadEndAnswer
<1>7. /\ Require(same, "ChecksumMismatch") \in Answers
      /\ Require(same, "ChecksumMismatch") = Ok <=> same
  BY <1>2, <1>3, AnswersDiffer
<1> QED
  BY <1>4, <1>5, <1>6, <1>7 DEF PayloadRead, ChecksumRead, EndRead, Compared, n, m, e, same

\* load: the header, whether the blob fits in memory, payload, checksum, end.
LEMMA DecodeAnswer ==
    ASSUME NEW f \in Seq(Byte), NEW fault \in Nat, usize \in Nat
    PROVE  /\ DeclaredIn(f) + Overhead <= usize =>
                Decode(f, fault) =
                  Then(HeaderResult(f, fault),
                       Then(PayloadRead(f, fault), Ending(f, fault, DecodeCrc(f))))
           /\ ~(DeclaredIn(f) + Overhead <= usize) =>
                Decode(f, fault) = Then(HeaderResult(f, fault), <<"InvalidPayloadLength">>)
<1> DEFINE n == DeclaredIn(f)
           fits == n <= usize
           fitsWhole == n + Overhead <= usize
           d1 == Require(fits, "InvalidPayloadLength")
           d2 == Require(fitsWhole, "InvalidPayloadLength")
           d3 == PayloadRead(f, fault)
           d4 == ChecksumRead(f, fault)
           d5 == EndRead(f, fault)
           d6 == Compared(f, DecodeCrc(f))
           h == HeaderChecks(f, fault)
           d == DecodeChecks(f, fault)
<1>1. d = <<d1, d2, d3, d4, d5, d6>>
  BY DEF DecodeChecks, PayloadRead, ChecksumRead, EndRead, Compared, DecodeCrc
<1>2. n \in Nat /\ Overhead \in Nat
  BY Sizes, DeclaredType
<1>3. fits \in BOOLEAN /\ fitsWhole \in BOOLEAN /\ "InvalidPayloadLength" \in Errors
  BY DEF Errors
<1>4. fitsWhole => fits
  BY <1>2
<1>5. Decode(f, fault) = FirstError(h \o d)
  BY DEF Decode
<1> HIDE DEF fits, fitsWhole
<1>6. /\ d1 \in Answers /\ (d1 = Ok <=> fits) /\ (~fits => d1 = <<"InvalidPayloadLength">>)
      /\ d2 \in Answers /\ (d2 = Ok <=> fitsWhole)
      /\ (~fitsWhole => d2 = <<"InvalidPayloadLength">>)
  <2>1. (~fits => d1 = <<"InvalidPayloadLength">>) /\ (~fitsWhole => d2 = <<"InvalidPayloadLength">>)
    BY DEF Require
  <2> QED
    BY <1>3, <2>1, AnswersDiffer
<1>7. d3 \in Answers /\ d4 \in Answers /\ d5 \in Answers /\ d6 \in Answers
  BY PartAnswers
<1>8. h \in Seq(Answers) /\ HeaderResult(f, fault) = FirstError(h)
  BY HeaderAnswer DEF HeaderResult
<1> DEFINE A == Answers
<1>9. d1 \in A /\ d2 \in A /\ d3 \in A /\ d4 \in A /\ d5 \in A /\ d6 \in A /\ h \in Seq(A)
  BY <1>6, <1>7, <1>8
<1> HIDE DEF A, d1, d2, d3, d4, d5, d6, h, d
<1>10. d \in Seq(A) /\ FirstError(d) = Then(d1, Then(d2, Then(d3, Then(d4, Then(d5, d6)))))
  BY <1>1, <1>9, FirstErrorSix
<1>11. FirstError(h \o d) = Then(FirstError(h), FirstError(d))
  BY <1>9, <1>10, FirstErrorConcat DEF Then
<1>12. Ending(f, fault, DecodeCrc(f)) = Then(d4, Then(d5, d6))
  BY DEF Ending, d4, d5, d6
<1>13. fitsWhole => FirstError(d) = Then(d3, Then(d4, Then(d5, d6)))
  BY <1>4, <1>6, <1>10 DEF Then
<1>14. ~fitsWhole => FirstError(d) = <<"InvalidPayloadLength">>
  <2>1. ~fitsWhole => d2 # Ok
    BY <1>6
  <2> QED
    BY <1>6, <1>10, <2>1 DEF Then
<1> QED
  BY <1>5, <1>8, <1>11, <1>12, <1>13, <1>14 DEF fitsWhole, d3

\* load_into: the same without the memory test, the payload read as if at once.
LEMMA ValidateAnswer ==
    ASSUME NEW f \in Seq(Byte), NEW fault \in Nat
    PROVE  Validate(f, fault) =
             Then(HeaderResult(f, fault),
                  Then(PayloadRead(f, fault), Ending(f, fault, ValidateCrc(f))))
<1> DEFINE reads == [i \in 1..ChunkCount(f) |->
                       ReadSection(f, fault, ChunkAt(i), ChunkLen(f, i), "Payload")]
           d4 == ChecksumRead(f, fault)
           d5 == EndRead(f, fault)
           d6 == Compared(f, ValidateCrc(f))
           h == HeaderChecks(f, fault)
           e == <<d4, d5, d6>>
           A == Answers
<1>1. Validate(f, fault) = FirstError(h \o (reads \o e))
  BY DEF Validate, ValidateChecks, ChecksumRead, EndRead, Compared, ValidateCrc
<1>2. d4 \in A /\ d5 \in A /\ d6 \in A
  BY PartAnswers
<1>3. h \in Seq(A) /\ HeaderResult(f, fault) = FirstError(h)
  BY HeaderAnswer DEF HeaderResult
<1>4. reads \in Seq(A) /\ FirstError(reads) = PayloadRead(f, fault)
  BY ChunkReads DEF PayloadRead
<1>5. Ending(f, fault, ValidateCrc(f)) = Then(d4, Then(d5, d6))
  BY DEF Ending
<1> HIDE DEF A, reads, d4, d5, d6, h
<1>6. FirstError(e) = Then(d4, Then(d5, d6))
  BY <1>2, FirstErrorThree DEF Then
<1>7. e \in Seq(A)
  BY <1>2
<1> HIDE DEF e
<1>8. FirstError(reads \o e) = Then(FirstError(reads), FirstError(e))
  BY <1>4, <1>7, FirstErrorConcat DEF Then
<1> DEFINE r == reads \o e
<1>9. r \in Seq(A)
  BY <1>4, <1>7, ConcatElements
<1> HIDE DEF r
<1>10. FirstError(h \o r) = Then(FirstError(h), FirstError(r))
  BY <1>3, <1>9, FirstErrorConcat DEF Then
<1> QED
  BY <1>1, <1>3, <1>4, <1>5, <1>6, <1>8, <1>10 DEF r

\* What the parts that succeed say of the file.
LEMMA PartsSucceed ==
    ASSUME NEW f \in Seq(Byte), NEW fault \in Nat
    PROVE  /\ HeaderResult(f, fault) = Ok <=> HeaderFits(f, fault)
           /\ PayloadRead(f, fault) = Ok <=> Has(f, fault, HeaderLen, DeclaredIn(f))
           /\ ChecksumRead(f, fault) = Ok <=>
                HeaderLen + DeclaredIn(f) + 1 <= Readable(f, fault)
           /\ EndRead(f, fault) = Ok <=>
                Len(f) < fault /\ Len(f) <= HeaderLen + DeclaredIn(f) + 1
<1> DEFINE n == DeclaredIn(f)  m == HeaderLen + n  e == m + ChecksumLen
<1>1. HeaderLen \in Nat /\ n \in Nat /\ m \in Nat /\ ChecksumLen = 1 /\ e \in Nat /\ e = m + 1
  BY Sizes, DeclaredType
<1>2. {"Payload", "Checksum"} \subseteq Sections
  BY DEF Sections
<1>3. HeaderResult(f, fault) = Ok <=> HeaderFits(f, fault)
  BY HeaderAnswer DEF HeaderResult
<1> HIDE DEF n, m, e
<1>4. ReadSection(f, fault, HeaderLen, n, "Payload") = Ok <=> Has(f, fault, HeaderLen, n)
  BY <1>1, <1>2, ReadSectionAnswer
<1>5. ReadSection(f, fault, m, ChecksumLen, "Checksum") = Ok <=> Has(f, fault, m, ChecksumLen)
  BY <1>1, <1>2, ReadSectionAnswer
<1>6. Has(f, fault, m, ChecksumLen) <=> m + 1 <= Readable(f, fault)
  BY <1>1 DEF Has
<1>7. ReadEnd(f, fault, e) = Ok <=> Len(f) < fault /\ Len(f) <= e
  BY <1>1, ReadEndAnswer
<1>8. e = m + 1
  BY <1>1
<1> QED
  BY <1>3, <1>4, <1>5, <1>6, <1>7, <1>8 DEF PayloadRead, ChecksumRead, EndRead, n, m, e

\* When header and payload can be read, both decoders compare with the same checksum.
LEMMA SameChecksum ==
    ASSUME NEW f \in Seq(Byte), NEW fault \in Nat,
           HeaderResult(f, fault) = Ok, PayloadRead(f, fault) = Ok
    PROVE  /\ HeaderLen + DeclaredIn(f) <= Readable(f, fault)
           /\ HeaderLen + DeclaredIn(f) <= Len(f)
           /\ DecodeCrc(f) = Crc(SubSeq(f, 1, HeaderLen + DeclaredIn(f)))
           /\ ValidateCrc(f) = Crc(SubSeq(f, 1, HeaderLen + DeclaredIn(f)))
<1>1. HeaderFits(f, fault) /\ Has(f, fault, HeaderLen, DeclaredIn(f))
  BY PartsSucceed
<1>2. HeaderLen \in Nat /\ DeclaredIn(f) \in Nat /\ Len(f) \in Nat
  BY Sizes, DeclaredType
<1>3. /\ HeaderLen + DeclaredIn(f) <= Readable(f, fault)
      /\ HeaderLen + DeclaredIn(f) <= Len(f)
  BY <1>1, <1>2 DEF HeaderFits, Has, Readable
<1>4. TagOf(f) = Tag /\ VersionOf(f) = Version
  BY <1>1 DEF HeaderFits
<1> QED
  BY <1>3, <1>4, CrcOfEnvelope

\* The two decoders agree on every file, whatever byte of it cannot be read.
LEMMA Agreement ==
    ASSUME NEW f \in Seq(Byte), NEW fault \in Nat, usize \in Nat, maximum \in Nat
    PROVE  \/ Decode(f, fault) = Validate(f, fault)
           \/ /\ Decode(f, fault) = <<"InvalidPayloadLength">>
              /\ DeclaredIn(f) \in (usize - Overhead + 1)..maximum
<1>1. DeclaredIn(f) \in Nat /\ Overhead \in Nat
  BY Sizes, DeclaredType
<1> DEFINE h == HeaderResult(f, fault)  p == PayloadRead(f, fault)
           d == Ending(f, fault, DecodeCrc(f))  v == Ending(f, fault, ValidateCrc(f))
<1>2. h = Ok /\ p = Ok => d = v
  BY SameChecksum
<1>3. h = Ok => DeclaredIn(f) <= maximum
  BY PartsSucceed DEF HeaderFits
<1>4. Validate(f, fault) = Then(h, Then(p, v))
  BY ValidateAnswer
<1>5. DeclaredIn(f) + Overhead <= usize => Decode(f, fault) = Then(h, Then(p, d))
  BY DecodeAnswer
<1>6. ~(DeclaredIn(f) + Overhead <= usize) => Decode(f, fault) = Then(h, <<"InvalidPayloadLength">>)
  BY DecodeAnswer
<1> HIDE DEF h, p, d, v
<1>7. CASE DeclaredIn(f) + Overhead <= usize
  BY <1>2, <1>4, <1>5, <1>7 DEF Then
<1>8. CASE ~(DeclaredIn(f) + Overhead <= usize)
  <2>1. CASE h # Ok
    BY <1>4, <1>6, <1>8, <2>1 DEF Then
  <2>2. CASE h = Ok
    <3>1. Decode(f, fault) = <<"InvalidPayloadLength">>
      BY <1>6, <1>8, <2>2 DEF Then
    <3>2. DeclaredIn(f) \in (usize - Overhead + 1)..maximum
      BY <1>1, <1>3, <1>8, <2>2
    <3> QED
      BY <3>1, <3>2
  <2> QED
    BY <2>1, <2>2
<1> QED
  BY <1>7, <1>8

----------------------------------------------------------------------------
(* Failing reads.                                                          *)

\* The answer x of a read that may fail, when y is the answer without a failure.
Spoiled(x, y) == x = <<"Io">> \/ x = y

LEMMA SpoiledThen ==
    ASSUME NEW a, NEW b, NEW c, NEW d, Spoiled(a, c), Spoiled(b, d)
    PROVE  Spoiled(Then(a, b), Then(c, d))
<1>1. Ok # <<"Io">>
  BY AnswersDiffer
<1> DEFINE io == <<"Io">>
<1>2. (a = io \/ a = c) /\ (b = io \/ b = d) /\ Ok # io
  BY <1>1 DEF Spoiled
<1> HIDE DEF io
<1>3. Then(a, b) = io \/ Then(a, b) = Then(c, d)
  BY <1>2 DEF Then
<1> QED
  BY <1>3 DEF Spoiled, io

LEMMA SpoiledReads ==
    ASSUME NEW f \in Seq(Byte), NEW fault \in 0..Len(f), NEW none \in Nat, Len(f) < none,
           NEW at \in Nat
    PROVE  /\ \A n \in Nat, section \in Sections :
                Spoiled(ReadSection(f, fault, at, n, section), ReadSection(f, none, at, n, section))
           /\ Spoiled(ReadEnd(f, fault, at), ReadEnd(f, none, at))
<1>1. Len(f) \in Nat /\ fault \in Nat /\ fault <= Len(f)
  OBVIOUS
<1>2. Readable(f, fault) = fault /\ Readable(f, none) = Len(f)
  BY <1>1 DEF Readable
<1>3. ASSUME NEW n \in Nat, NEW section \in Sections
      PROVE  Spoiled(ReadSection(f, fault, at, n, section), ReadSection(f, none, at, n, section))
  <2>1. CASE Has(f, fault, at, n)
    <3>1. Has(f, none, at, n)
      BY <1>1, <1>2, <2>1 DEF Has
    <3> QED
      BY <1>1, <2>1, <3>1, ReadSectionAnswer DEF Spoiled
  <2>2. CASE ~Has(f, fault, at, n)
    <3>1. ReadSection(f, fault, at, n, section) = ReadError(f, fault, section)
      BY <1>1, <2>2, ReadSectionAnswer
    <3> QED
      BY <1>1, <3>1 DEF ReadError, Spoiled
  <2> QED
    BY <2>1, <2>2
<1>4. Spoiled(ReadEnd(f, fault, at), ReadEnd(f, none, at))
  <2>1. CASE at + 1 <= fault
    <3>1. at + 1 <= Len(f)
      BY <1>1, <2>1
    <3>2. ReadEnd(f, fault, at) = <<"TrailingData">>
      BY ZenonT(60), <1>1, <1>2, <2>1, ReadEndAnswer
    <3>3. ReadEnd(f, none, at) = <<"TrailingData">>
      <4>1. ReadEnd(f, none, at) =
              IF at + 1 <= Readable(f, none) THEN <<"TrailingData">>
              ELSE IF none <= Len(f) THEN <<"Io">> ELSE Ok
        BY ReadEndAnswer
      <4> QED
        BY <1>2, <3>1, <4>1
    <3> QED
      BY <3>2, <3>3 DEF Spoiled
  <2>2. CASE ~(at + 1 <= fault)
    <3>1. ReadEnd(f, fault, at) = <<"Io">>
      BY <1>1, <1>2, <2>2, ReadEndAnswer
    <3> QED
      BY <3>1 DEF Spoiled
  <2> QED
    BY <2>1, <2>2
<1> QED
  BY <1>3, <1>4

\* A read that fails spoils the header's answer at most, as it does every other part's.
LEMMA SpoiledParts ==
    ASSUME NEW f \in Seq(Byte), NEW fault \in 0..Len(f), NEW none \in Nat, Len(f) < none,
           NEW actual
    PROVE  /\ Spoiled(HeaderResult(f, fault), HeaderResult(f, none))
           /\ Spoiled(PayloadRead(f, fault), PayloadRead(f, none))
           /\ Spoiled(Ending(f, fault, actual), Ending(f, none, actual))
<1>1. fault \in Nat
  OBVIOUS
<1> DEFINE n == DeclaredIn(f)  m == HeaderLen + n  e == m + ChecksumLen
           at == Len(Tag) + Len(Version)
<1>2. /\ HeaderLen \in Nat /\ n \in Nat /\ m \in Nat /\ ChecksumLen \in Nat /\ e \in Nat
      /\ Len(Tag) \in Nat /\ Len(Version) \in Nat /\ at \in Nat /\ LengthLen \in Nat /\ 0 \in Nat
  <2>1. /\ HeaderLen \in Nat /\ ChecksumLen \in Nat /\ LengthLen \in Nat
        /\ Len(Tag) \in Nat /\ Len(Version) \in Nat
    BY Sizes
  <2>2. n \in Nat
    BY DeclaredType
  <2> HIDE DEF n
  <2> QED
    BY <2>1, <2>2
<1>3. {"Magic", "Version", "PayloadLength", "Payload", "Checksum"} \subseteq Sections
  BY DEF Sections
<1>r. \A x \in Nat : \A k \in Nat, section \in Sections :
        Spoiled(ReadSection(f, fault, x, k, section), ReadSection(f, none, x, k, section))
  BY SpoiledReads
<1>4. Spoiled(PayloadRead(f, fault), PayloadRead(f, none))
  BY <1>2, <1>3, <1>r DEF PayloadRead
<1>5. Spoiled(ChecksumRead(f, fault), ChecksumRead(f, none))
  <2> HIDE DEF m
  <2>1. Spoiled(ReadSection(f, fault, m, ChecksumLen, "Checksum"), ReadSection(f, none, m, ChecksumLen, "Checksum"))
    BY <1>2, <1>3, <1>r
  <2> QED
    BY <2>1 DEF ChecksumRead, m
<1>6. Spoiled(EndRead(f, fault), EndRead(f, none))
  <2> HIDE DEF e
  <2>1. Spoiled(ReadEnd(f, fault, e), ReadEnd(f, none, e))
    BY <1>2, SpoiledReads
  <2> QED
    BY <2>1 DEF EndRead, e
<1>s. \A x : Spoiled(x, x)
  BY DEF Spoiled
<1>7. Spoiled(Ending(f, fault, actual), Ending(f, none, actual))
  <2>1. Spoiled(Then(EndRead(f, fault), Compared(f, actual)), Then(EndRead(f, none), Compared(f, actual)))
    BY <1>6, <1>s, SpoiledThen
  <2> QED
    BY <1>5, <2>1, SpoiledThen DEF Ending
<1>8. Spoiled(HeaderResult(f, fault), HeaderResult(f, none))
  <2> DEFINE c1(x) == ReadSection(f, x, 0, Len(Tag), "Magic")
             c2 == Require(TagOf(f) = Tag, "InvalidEnvelopeDomain")
             c3(x) == ReadSection(f, x, Len(Tag), Len(Version), "Version")
             c4 == Require(VersionOf(f) = Version, "UnsupportedEnvelopeVersion")
             c5(x) == ReadSection(f, x, at, LengthLen, "PayloadLength")
             c6 == Require(DeclaredIn(f) <= maximum, "BlobTooLarge")
  <2>1. \A x : HeaderChecks(f, x) = <<c1(x), c2, c3(x), c4, c5(x), c6>>
    BY DEF HeaderChecks
  <2>2. ASSUME NEW x \in Nat
        PROVE  HeaderResult(f, x) = Then(c1(x), Then(c2, Then(c3(x), Then(c4, Then(c5(x), c6)))))
    <3> HIDE DEF at
    <3>1. c1(x) \in Answers /\ c3(x) \in Answers /\ c5(x) \in Answers
      BY <1>2, <1>3, ReadSectionAnswer
    <3>2. c2 \in Answers /\ c4 \in Answers /\ c6 \in Answers
      <4> DEFINE fits == DeclaredIn(f) <= maximum  tag == TagOf(f) = Tag  version == VersionOf(f) = Version
      <4>1. fits \in BOOLEAN /\ tag \in BOOLEAN /\ version \in BOOLEAN
        OBVIOUS
      <4>2. {"InvalidEnvelopeDomain", "UnsupportedEnvelopeVersion", "BlobTooLarge"} \subseteq Errors
        BY DEF Errors
      <4> HIDE DEF fits, tag, version
      <4>3. /\ Require(tag, "InvalidEnvelopeDomain") \in Answers
            /\ Require(version, "UnsupportedEnvelopeVersion") \in Answers
            /\ Require(fits, "BlobTooLarge") \in Answers
        BY <4>1, <4>2, AnswersDiffer
      <4> QED
        BY <4>3 DEF fits, tag, version
    <3>3. HeaderResult(f, x) = FirstError(<<c1(x), c2, c3(x), c4, c5(x), c6>>)
      BY <2>1 DEF HeaderResult
    <3> DEFINE A == Answers  b1 == c1(x)  b3 == c3(x)  b5 == c5(x)
    <3>4. b1 \in A /\ c2 \in A /\ b3 \in A /\ c4 \in A /\ b5 \in A /\ c6 \in A
      BY <3>1, <3>2
    <3> HIDE DEF A, b1, c2, b3, c4, b5, c6
    <3>5. FirstError(<<b1, c2, b3, c4, b5, c6>>) = Then(b1, Then(c2, Then(b3, Then(c4, Then(b5, c6)))))
      BY <3>4, FirstErrorSix
    <3> QED
      BY <3>3, <3>5 DEF b1, b3, b5
  <2>3. Spoiled(c1(fault), c1(none)) /\ Spoiled(c3(fault), c3(none))
    BY <1>2, <1>3, <1>r
  <2>4. Spoiled(c5(fault), c5(none))
    <3> HIDE DEF at
    <3> QED
      BY <1>2, <1>3, <1>r
  <2>5. Spoiled(c2, c2) /\ Spoiled(c4, c4) /\ Spoiled(c6, c6)
    BY <1>s
  <2>6. /\ HeaderResult(f, fault) = Then(c1(fault), Then(c2, Then(c3(fault), Then(c4, Then(c5(fault), c6)))))
        /\ HeaderResult(f, none) = Then(c1(none), Then(c2, Then(c3(none), Then(c4, Then(c5(none), c6)))))
    BY <1>1, <2>2
  <2> DEFINE a1 == c1(fault)  b1 == c1(none)  a3 == c3(fault)  b3 == c3(none)  a5 == c5(fault)  b5 == c5(none)
  <2>7. Spoiled(a1, b1) /\ Spoiled(a3, b3) /\ Spoiled(a5, b5)
    BY <2>3, <2>4
  <2> HIDE DEF a1, b1, a3, b3, a5, b5, c2, c4, c6
  <2>8. Spoiled(Then(a5, c6), Then(b5, c6))
    BY <2>5, <2>7, SpoiledThen
  <2>9. Spoiled(Then(c4, Then(a5, c6)), Then(c4, Then(b5, c6)))
    BY <2>5, <2>8, SpoiledThen
  <2>10. Spoiled(Then(a3, Then(c4, Then(a5, c6))), Then(b3, Then(c4, Then(b5, c6))))
    BY <2>7, <2>9, SpoiledThen
  <2>11. Spoiled(Then(c2, Then(a3, Then(c4, Then(a5, c6)))), Then(c2, Then(b3, Then(c4, Then(b5, c6)))))
    BY <2>5, <2>10, SpoiledThen
  <2>12. Spoiled(Then(a1, Then(c2, Then(a3, Then(c4, Then(a5, c6))))),
                 Then(b1, Then(c2, Then(b3, Then(c4, Then(b5, c6))))))
    BY <2>7, <2>11, SpoiledThen
  <2> QED
    BY <2>6, <2>12 DEF a1, b1, a3, b3, a5, b5
<1> QED
  BY <1>4, <1>7, <1>8

\* No answer is turned into another one by a failing read, and none into a success.
LEMMA SpoiledAnswers ==
    ASSUME NEW f \in Seq(Byte), NEW fault \in 0..Len(f), NEW none \in Nat, Len(f) < none,
           usize \in Nat
    PROVE  /\ Decode(f, fault) \in {<<"Io">>, Decode(f, none)} \ {Ok}
           /\ Validate(f, fault) \in {<<"Io">>, Validate(f, none)} \ {Ok}
<1>1. fault \in Nat /\ Len(f) \in Nat /\ ~(Len(f) < fault)
  OBVIOUS
<1>2. EndRead(f, fault) # Ok
  BY <1>1, PartsSucceed
<1>3. \A actual : Ending(f, fault, actual) # Ok
  BY <1>2 DEF Ending, Then
<1>i. <<"InvalidPayloadLength">> # Ok
  <2>1. "InvalidPayloadLength" \in Errors /\ FALSE \in BOOLEAN
    BY DEF Errors
  <2>2. Require(FALSE, "InvalidPayloadLength") # Ok
    BY <2>1, AnswersDiffer
  <2> QED
    BY <2>2 DEF Require
<1> DEFINE h(x) == HeaderResult(f, x)
           p(x) == PayloadRead(f, x)
           d(x) == Ending(f, x, DecodeCrc(f))
           v(x) == Ending(f, x, ValidateCrc(f))
           invalid == <<"InvalidPayloadLength">>
           whole == DeclaredIn(f) + Overhead <= usize
<1>4. /\ Spoiled(h(fault), h(none)) /\ Spoiled(p(fault), p(none))
      /\ Spoiled(d(fault), d(none)) /\ Spoiled(v(fault), v(none))
  BY SpoiledParts
<1>5. d(fault) # Ok /\ v(fault) # Ok /\ invalid # Ok
  BY <1>3, <1>i
<1>6. /\ Validate(f, fault) = Then(h(fault), Then(p(fault), v(fault)))
      /\ Validate(f, none) = Then(h(none), Then(p(none), v(none)))
  BY <1>1, ValidateAnswer
<1>7. /\ whole => /\ Decode(f, fault) = Then(h(fault), Then(p(fault), d(fault)))
                  /\ Decode(f, none) = Then(h(none), Then(p(none), d(none)))
      /\ ~whole => /\ Decode(f, fault) = Then(h(fault), invalid)
                   /\ Decode(f, none) = Then(h(none), invalid)
  BY <1>1, DecodeAnswer
<1> HIDE DEF h, p, d, v, invalid, whole
<1>8. Spoiled(Then(h(fault), Then(p(fault), v(fault))), Then(h(none), Then(p(none), v(none))))
  BY <1>4, SpoiledThen
<1>9. Spoiled(Then(h(fault), Then(p(fault), d(fault))), Then(h(none), Then(p(none), d(none))))
  BY <1>4, SpoiledThen
<1>10. Spoiled(Then(h(fault), invalid), Then(h(none), invalid))
  <2>1. Spoiled(invalid, invalid)
    BY DEF Spoiled
  <2> QED
    BY <1>4, <2>1, SpoiledThen
<1>11. Spoiled(Validate(f, fault), Validate(f, none)) /\ Validate(f, fault) # Ok
  BY <1>5, <1>6, <1>8 DEF Then
<1>12. Spoiled(Decode(f, fault), Decode(f, none)) /\ Decode(f, fault) # Ok
  BY <1>5, <1>7, <1>9, <1>10 DEF Then
<1> QED
  BY <1>11, <1>12 DEF Spoiled

----------------------------------------------------------------------------
(* Accepted files.                                                         *)

\* A checksum field of one byte holds that byte.
LEMMA OneByteField ==
    ASSUME NEW c \in Byte
    PROVE  /\ Field(c, ChecksumLen) \in Seq(Byte) /\ Len(Field(c, ChecksumLen)) = 1
           /\ Number(Field(c, ChecksumLen)) = c
<1>1. ChecksumLen = 1 /\ Base \in Nat \ {0, 1}
  BY Sizes
<1>2. c \in Nat /\ c < Base
  BY <1>1 DEF Byte
<1>3. Power(1) = Base
  <2>1. Power(0) = 1 /\ 0 \in Nat /\ 0 + 1 = 1
    BY PowerZero
  <2>2. Power(0 + 1) = Power(0) * Base
    BY <2>1, PowerStep
  <2> QED
    BY <1>1, <2>1, <2>2
<1>4. 1 \in Nat /\ c < Power(1)
  BY <1>2, <1>3
<1>5. Number(Field(c, 1)) = c
  BY <1>2, <1>4, NumberOfField
<1>6. Field(c, 1) \in Seq(Byte) /\ Len(Field(c, 1)) = 1
  BY <1>2, <1>4, FieldType
<1> QED
  BY <1>1, <1>5, <1>6

\* The checksum field of a file with one byte after the payload.
LEMMA ChecksumField ==
    ASSUME NEW f \in Seq(Byte), Len(f) = HeaderLen + DeclaredIn(f) + 1, NEW c \in Byte
    PROVE  ChecksumIn(f) = c <=>
             SubSeq(f, HeaderLen + DeclaredIn(f) + 1, Len(f)) = Field(c, ChecksumLen)
<1> DEFINE m == HeaderLen + DeclaredIn(f)
           s == SubSeq(f, m + 1, m + 1)
<1>1. m \in Nat /\ Len(f) = m + 1 /\ ChecksumLen = 1
  BY Sizes, DeclaredType
<1> HIDE DEF m
<1>2. Part(f, m, 1) = s /\ Len(Part(f, m, 1)) = 1 /\ Part(f, m, 1) \in Seq(Byte)
  <2> DEFINE one == 1
  <2>1. one \in Nat /\ m + one <= Len(f)
    BY <1>1
  <2> HIDE DEF one
  <2>2. /\ Part(f, m, one) \in Seq(Byte) /\ Len(Part(f, m, one)) = one
        /\ Part(f, m, one) = SubSeq(f, m + 1, m + one)
    BY <1>1, <2>1, PartProperties
  <2> QED
    BY <2>2 DEF one
<1>3. ChecksumIn(f) = Number(s)
  BY <1>1, <1>2 DEF ChecksumIn, m
<1> HIDE DEF s
<1>4. s \in Seq(Byte) /\ Len(s) = 1
  BY <1>2
<1>5. Field(Number(s), Len(s)) = s
  BY <1>4, FieldOfNumber
<1>6. Number(Field(c, 1)) = c
  BY <1>1, OneByteField
<1>7. Number(s) = c <=> s = Field(c, 1)
  BY <1>4, <1>5, <1>6
<1> QED
  BY <1>1, <1>3, <1>7 DEF s, m

\* A file that starts with a header begins like it.
LEMMA BeginsWithHeader ==
    ASSUME NEW f \in Seq(Byte), NEW n \in Nat, HeaderLen <= Len(f),
           SubSeq(f, 1, HeaderLen) = EnvelopeHeader(n)
    PROVE  Begins(f, n)
<1> DEFINE H == HeaderLen
<1>1. H \in Nat /\ Len(f) \in Nat /\ H <= Len(f)
  BY Sizes
<1> HIDE DEF H
<1>2. \A i \in 1..H : f[i] \in Byte
  BY <1>1
<1>3. \A i \in 1..H - 1 + 1 : SubSeq(f, 1, H)[i] = f[1 + i - 1]
  BY <1>1, <1>2, SubSeqProperties
<1>4. ASSUME NEW i \in 1..Len(f), i <= H
      PROVE  f[i] = SubSeq(f, 1, H)[i]
  <2>1. i \in 1..H - 1 + 1 /\ 1 + i - 1 = i
    BY <1>1, <1>4
  <2> QED
    BY <1>3, <2>1
<1> QED
  BY <1>4 DEF Begins, H

\* Without failing reads, the files accepted are the files of the format.
LEMMA Acceptance ==
    ASSUME NEW f \in Seq(Byte), NEW none \in Nat, Len(f) < none, maximum \in 0..Word
    PROVE  Validate(f, none) = Ok <=> IsEnvelope(f)
<1> DEFINE n == DeclaredIn(f)
           m == HeaderLen + n
           c == Crc(SubSeq(f, 1, m))
<1>1. /\ HeaderLen \in Nat /\ n \in Nat /\ m \in Nat /\ Len(f) \in Nat /\ ChecksumLen = 1
      /\ Word \in Nat /\ maximum \in Nat
  BY Sizes, DeclaredType
<1>2. Readable(f, none) = Len(f)
  BY <1>1 DEF Readable
<1>3. Validate(f, none) =
        Then(HeaderResult(f, none), Then(PayloadRead(f, none),
          Then(ChecksumRead(f, none), Then(EndRead(f, none), Compared(f, ValidateCrc(f))))))
  BY ValidateAnswer DEF Ending
<1>4. Validate(f, none) = Ok <=>
        /\ HeaderResult(f, none) = Ok /\ PayloadRead(f, none) = Ok
        /\ ChecksumRead(f, none) = Ok /\ EndRead(f, none) = Ok
        /\ Compared(f, ValidateCrc(f)) = Ok
  BY <1>3 DEF Then
<1>5. m <= Len(f) => c \in Byte
  <2>1. m <= Len(f) => SubSeq(f, 1, m) \in Seq(Byte)
    <3> HIDE DEF m
    <3>1. m <= Len(f) => \A i \in 1..m : f[i] \in Byte
      BY <1>1
    <3> QED
      BY <1>1, <3>1, SubSeqProperties
  <2>2. 0 \in Byte
    BY Sizes DEF Byte
  <2> QED
    BY <2>1, <2>2, CrcStep DEF Crc
<1>6. ASSUME Validate(f, none) = Ok
      PROVE  IsEnvelope(f)
  <2>1. /\ HeaderResult(f, none) = Ok /\ PayloadRead(f, none) = Ok
        /\ ChecksumRead(f, none) = Ok /\ EndRead(f, none) = Ok
        /\ Compared(f, ValidateCrc(f)) = Ok
    BY <1>4, <1>6
  <2>2. HeaderFits(f, none) /\ m + 1 <= Len(f) /\ Len(f) <= m + 1
    BY <1>2, <2>1, PartsSucceed
  <2>3. Len(f) = HeaderLen + n + ChecksumLen /\ Len(f) = m + 1 /\ m <= Len(f)
    BY <1>1, <2>2
  <2>4. TagOf(f) = Tag /\ VersionOf(f) = Version /\ n \in 0..maximum /\ HeaderLen <= Len(f)
    BY <1>1, <1>2, <2>2 DEF HeaderFits
  <2>5. SubSeq(f, 1, HeaderLen) = Tag \o Version \o Field(n, LengthLen)
    BY <2>4, HeaderOfFields DEF EnvelopeHeader
  <2>6. ValidateCrc(f) = c /\ c \in Byte
    BY <1>5, <2>1, <2>3, SameChecksum
  <2>7. ChecksumIn(f) = c
    BY <2>1, <2>6, PartAnswers
  <2>8. SubSeq(f, m + 1, Len(f)) = Field(c, ChecksumLen)
    BY <2>3, <2>6, <2>7, ChecksumField
  <2> QED
    BY <2>3, <2>4, <2>5, <2>8 DEF IsEnvelope
<1>7. ASSUME IsEnvelope(f)
      PROVE  Validate(f, none) = Ok
  <2>1. PICK k \in 0..maximum :
          /\ Len(f) = HeaderLen + k + ChecksumLen
          /\ SubSeq(f, 1, HeaderLen) = Tag \o Version \o Field(k, LengthLen)
          /\ SubSeq(f, HeaderLen + k + 1, Len(f)) = Field(Crc(SubSeq(f, 1, HeaderLen + k)), ChecksumLen)
    BY <1>7 DEF IsEnvelope
  <2>2. /\ k \in 0..Word /\ k \in Nat /\ k <= maximum /\ HeaderLen <= Len(f)
        /\ Len(Tag) \in Nat /\ Len(Version) \in Nat
        /\ Len(Tag) <= Len(f) /\ Len(Tag) + Len(Version) <= Len(f)
    BY SMTT(60), <1>1, <2>1, Sizes
  <2>3. Begins(f, k)
    BY <2>1, <2>2, BeginsWithHeader DEF EnvelopeHeader
  <2>4. TagOf(f) = Tag /\ VersionOf(f) = Version /\ n = k
    BY <2>2, <2>3, FieldsOfHeader
  <2>5. Len(f) = m + 1 /\ m + 1 <= Len(f) /\ Len(f) <= m + 1 /\ m <= Len(f)
    BY <1>1, <2>1, <2>4
  <2>6. HeaderFits(f, none)
    BY <1>2, <2>2, <2>4 DEF HeaderFits
  <2>7. Has(f, none, HeaderLen, n)
    BY <1>2, <2>5 DEF Has
  <2>8. /\ HeaderResult(f, none) = Ok /\ PayloadRead(f, none) = Ok
        /\ ChecksumRead(f, none) = Ok /\ EndRead(f, none) = Ok
    BY <1>2, <2>5, <2>6, <2>7, PartsSucceed
  <2>9. ValidateCrc(f) = c /\ c \in Byte
    BY <1>5, <2>5, <2>8, SameChecksum
  <2>10. SubSeq(f, m + 1, Len(f)) = Field(c, ChecksumLen)
    BY <2>1, <2>4
  <2>11. ChecksumIn(f) = c
    BY <2>5, <2>9, <2>10, ChecksumField
  <2>12. Compared(f, ValidateCrc(f)) = Ok
    BY <2>9, <2>11, PartAnswers
  <2> QED
    BY <1>4, <2>8, <2>12
<1> QED
  BY <1>6, <1>7

----------------------------------------------------------------------------
(* Files cut short.                                                        *)

\* A header cut short is truncated: the fields that are there are right.
LEMMA TruncatedHeader ==
    ASSUME NEW f \in Seq(Byte), NEW n \in 0..Word, n <= maximum, Begins(f, n),
           NEW none \in Nat, Len(f) < none, HeaderResult(f, none) # Ok
    PROVE  \E section \in Sections : HeaderResult(f, none) = Truncated(section)
<1> DEFINE at == Len(Tag) + Len(Version)
           c1 == ReadSection(f, none, 0, Len(Tag), "Magic")
           c2 == Require(TagOf(f) = Tag, "InvalidEnvelopeDomain")
           c3 == ReadSection(f, none, Len(Tag), Len(Version), "Version")
           c4 == Require(VersionOf(f) = Version, "UnsupportedEnvelopeVersion")
           c5 == ReadSection(f, none, at, LengthLen, "PayloadLength")
           c6 == Require(DeclaredIn(f) <= maximum, "BlobTooLarge")
           A == Answers
           checks == <<c1, c2, c3, c4, c5, c6>>
<1>1. HeaderChecks(f, none) = checks
  BY DEF HeaderChecks
<1>2. /\ Len(f) \in Nat /\ Len(Tag) \in Nat /\ Len(Version) \in Nat /\ at \in Nat
      /\ LengthLen \in Nat \ {0} /\ HeaderLen = at + LengthLen /\ 0 \in Nat
      /\ at = Len(Tag) + Len(Version)
  BY Sizes
<1>3. Readable(f, none) = Len(f) /\ ~(none <= Len(f))
  BY <1>2 DEF Readable
<1>4. {"Magic", "Version", "PayloadLength"} \subseteq Sections
  BY DEF Sections
<1>r. ASSUME NEW a \in Nat, NEW k \in Nat, NEW section \in Sections
      PROVE  /\ Has(f, none, a, k) => ReadSection(f, none, a, k, section) = Ok
             /\ ~Has(f, none, a, k) => ReadSection(f, none, a, k, section) = Truncated(section)
             /\ ReadSection(f, none, a, k, section) = Ok <=> Has(f, none, a, k)
  <2>1. ReadError(f, none, section) = Truncated(section)
    BY <1>3 DEF ReadError
  <2>2. /\ Has(f, none, a, k) => ReadSection(f, none, a, k, section) = Ok
        /\ ~Has(f, none, a, k) => ReadSection(f, none, a, k, section) = ReadError(f, none, section)
        /\ ReadError(f, none, section) # Ok
    BY ReadSectionAnswer
  <2> QED
    BY <2>1, <2>2
<1>5. c1 = Ok \/ c1 = Truncated("Magic")
  BY <1>2, <1>4, <1>r
<1>6. c3 = Ok \/ c3 = Truncated("Version")
  BY <1>2, <1>4, <1>r
<1>7. /\ c1 = Ok => Has(f, none, 0, Len(Tag))
      /\ c3 = Ok => Has(f, none, Len(Tag), Len(Version))
  BY <1>2, <1>4, <1>r
<1>8. /\ c5 = Ok \/ c5 = Truncated("PayloadLength")
      /\ c5 = Ok => Has(f, none, at, LengthLen)
  <2> HIDE DEF at
  <2> QED
    BY <1>2, <1>4, <1>r
<1>9. c1 = Ok => c2 = Ok
  <2>1. c1 = Ok => Len(Tag) <= Len(f)
    BY <1>2, <1>3, <1>7 DEF Has
  <2> QED
    BY <2>1, FieldsOfHeader DEF Require
<1>10. c1 = Ok /\ c3 = Ok => c4 = Ok
  <2>1. c1 = Ok /\ c3 = Ok => Len(Tag) + Len(Version) <= Len(f)
    BY <1>2, <1>3, <1>7 DEF Has
  <2> QED
    BY <2>1, FieldsOfHeader DEF Require
<1>11. c5 = Ok => c6 = Ok
  <2>1. c5 = Ok => HeaderLen <= Len(f)
    <3> HIDE DEF at
    <3> QED
      BY <1>2, <1>3, <1>8 DEF Has
  <2> QED
    BY <2>1, FieldsOfHeader DEF Require
<1>12. HeaderResult(f, none) = FirstError(checks) /\ checks \in Seq(A)
  BY <1>1, HeaderAnswer DEF HeaderResult
<1>13. Len(checks) = 6 /\ checks[1] = c1 /\ checks[2] = c2 /\ checks[3] = c3 /\ checks[4] = c4
       /\ checks[5] = c5 /\ checks[6] = c6
  <2> HIDE DEF c1, c2, c3, c4, c5, c6
  <2> QED
    OBVIOUS
<1> HIDE DEF checks, c1, c2, c3, c4, c5, c6, A
<1>14. PICK k \in 1..6 : /\ FirstError(checks) = checks[k] /\ checks[k] # Ok
                         /\ \A i \in 1..(k - 1) : checks[i] = Ok
  BY <1>12, <1>13, FirstErrorProperties
<1>15. k = 1 \/ k = 3 \/ k = 5
  <2>1. k = 1 \/ k = 2 \/ k = 3 \/ k = 4 \/ k = 5 \/ k = 6
    OBVIOUS
  <2>2. k # 2
    BY <1>9, <1>13, <1>14
  <2>3. k # 4
    BY <1>10, <1>13, <1>14
  <2>4. k # 6
    BY <1>11, <1>13, <1>14
  <2> QED
    BY <2>1, <2>2, <2>3, <2>4
<1>16. \/ HeaderResult(f, none) = Truncated("Magic")
       \/ HeaderResult(f, none) = Truncated("Version")
       \/ HeaderResult(f, none) = Truncated("PayloadLength")
  BY <1>5, <1>6, <1>8, <1>12, <1>13, <1>14, <1>15
<1> QED
  BY <1>4, <1>16

\* The start of an envelope that ends before its checksum is truncated.
LEMMA Truncation ==
    ASSUME NEW f \in Seq(Byte), NEW n \in 0..Word, n <= maximum, Begins(f, n),
           Len(f) <= HeaderLen + n, NEW none \in Nat, Len(f) < none
    PROVE  Validate(f, none)[1] = "TruncatedEnvelope"
<1>1. HeaderLen \in Nat /\ n \in Nat /\ Len(f) \in Nat /\ Word \in Nat
  BY Sizes
<1>2. Readable(f, none) = Len(f) /\ ~(none <= Len(f))
  BY <1>1 DEF Readable
<1>3. Validate(f, none) =
        Then(HeaderResult(f, none), Then(PayloadRead(f, none), Ending(f, none, ValidateCrc(f))))
  BY ValidateAnswer
<1>4. SUFFICES \E section \in Sections : Validate(f, none) = Truncated(section)
  BY <1>4, AnswersDiffer
<1>5. CASE HeaderResult(f, none) # Ok
  BY <1>3, <1>5, TruncatedHeader DEF Then
<1>6. CASE HeaderResult(f, none) = Ok
  <2>1. HeaderFits(f, none)
    BY <1>6, PartsSucceed
  <2>2. DeclaredIn(f) = n
    BY <1>2, <2>1, FieldsOfHeader DEF HeaderFits
  <2>3. {"Payload", "Checksum"} \subseteq Sections /\ ChecksumLen \in Nat /\ HeaderLen + n \in Nat
    BY <1>1, Sizes DEF Sections
  <2>4. PayloadRead(f, none) = Ok \/ PayloadRead(f, none) = Truncated("Payload")
    <3>1. ReadError(f, none, "Payload") = Truncated("Payload")
      BY <1>2 DEF ReadError
    <3>2. \/ ReadSection(f, none, HeaderLen, n, "Payload") = Ok
          \/ ReadSection(f, none, HeaderLen, n, "Payload") = ReadError(f, none, "Payload")
      BY <1>1, <2>3, ReadSectionAnswer
    <3> QED
      BY <2>2, <3>1, <3>2 DEF PayloadRead
  <2>5. ChecksumRead(f, none) # Ok
    BY <1>1, <1>2, <2>2, PartsSucceed
  <2>6. ChecksumRead(f, none) = Truncated("Checksum")
    <3> DEFINE m == HeaderLen + n
    <3>1. ReadError(f, none, "Checksum") = Truncated("Checksum")
      BY <1>2 DEF ReadError
    <3>2. m \in Nat
      BY <2>3
    <3> HIDE DEF m
    <3>3. \/ ReadSection(f, none, m, ChecksumLen, "Checksum") = Ok
          \/ ReadSection(f, none, m, ChecksumLen, "Checksum") = ReadError(f, none, "Checksum")
      BY <2>3, <3>2, ReadSectionAnswer
    <3> QED
      BY <2>2, <2>5, <3>1, <3>3 DEF ChecksumRead, m
  <2>7. Ending(f, none, ValidateCrc(f)) = Truncated("Checksum")
    BY <2>5, <2>6 DEF Ending, Then
  <2>8. Validate(f, none) = Truncated("Payload") \/ Validate(f, none) = Truncated("Checksum")
    BY <1>3, <1>6, <2>4, <2>7 DEF Then
  <2> QED
    BY <2>3, <2>8
<1> QED
  BY <1>5, <1>6

\* So is every prefix of it.
LEMMA BeginsPrefix ==
    ASSUME NEW f \in Seq(Byte), NEW n, Begins(f, n), NEW k \in 0..Len(f)
    PROVE  LET g == SubSeq(f, 1, k) IN g \in Seq(Byte) /\ Len(g) = k /\ Begins(g, n)
<1> DEFINE g == SubSeq(f, 1, k)
<1>1. k \in Nat /\ Len(f) \in Nat /\ k <= Len(f) /\ \A i \in 1..k : f[i] \in Byte
  OBVIOUS
<1>2. g \in Seq(Byte) /\ Len(g) = k /\ \A i \in 1..k - 1 + 1 : g[i] = f[1 + i - 1]
  BY <1>1, SubSeqProperties
<1> HIDE DEF g
<1>3. ASSUME NEW i \in 1..Len(g), i <= HeaderLen
      PROVE  g[i] = EnvelopeHeader(n)[i]
  <2>1. i \in 1..k - 1 + 1 /\ 1 + i - 1 = i /\ i \in 1..Len(f)
    BY <1>1, <1>2
  <2> QED
    BY <1>2, <1>3, <2>1 DEF Begins
<1> QED
  BY <1>2, <1>3 DEF Begins, g

----------------------------------------------------------------------------
(* The inductive invariant.                                                *)

\* The values of the variables.  No file is as long as the offset NoFault.
Typed ==
    /\ maximum \in 0..Word /\ maximum + Overhead <= Word
    /\ usize \in 0..Word /\ declared \in 0..Word
    /\ stage \in {"header", "payload", "done", "failed", "damaged"}
    /\ file \in Seq(Byte) /\ Len(file) <= MaxFile + Word + Overhead
    /\ payload \in Seq(Byte) /\ crc \in Byte

\* What a save has written: header and payload, with the checksum of both; at the
\* end that checksum; and after a failure the start of such a file.
Covered == EnvelopeHeader(declared) \o payload
WritingHeader == stage = "header" => file = <<>> /\ payload = <<>>
WritingPayload ==
    stage = "payload" =>
        /\ declared <= maximum /\ Len(payload) <= declared
        /\ file = Covered /\ crc = Crc(file)
WritingDone ==
    stage = "done" =>
        /\ declared <= maximum /\ Len(payload) = declared
        /\ file = Covered \o Field(Crc(Covered), ChecksumLen)
WritingFailed ==
    stage = "failed" =>
        \/ file = <<>>
        \/ declared <= maximum /\ Begins(file, declared) /\ Len(file) <= HeaderLen + declared

Written == WritingHeader /\ WritingPayload /\ WritingDone /\ WritingFailed
IInv == Typed /\ Written

\* The two parts of a concatenation.
LEMMA ConcatParts ==
    ASSUME NEW X, NEW c \in Seq(X), NEW d \in Seq(X)
    PROVE  /\ SubSeq(c \o d, 1, Len(c)) = c
           /\ SubSeq(c \o d, Len(c) + 1, Len(c) + Len(d)) = d
<1> DEFINE s == c \o d  k == Len(c)  l == Len(d)
<1>1. /\ s \in Seq(X) /\ Len(s) = k + l /\ k \in Nat /\ l \in Nat
      /\ \A i \in 1..k : s[i] = c[i]
      /\ \A i \in 1..l : s[k + i] = d[i]
  BY ConcatElements
<1> HIDE DEF s
<1>2. SubSeq(s, 1, k) = c
  <2> DEFINE u == SubSeq(s, 1, k)
  <2>1. \A i \in 1..k : s[i] \in X
    BY <1>1
  <2>2. u \in Seq(X) /\ Len(u) = k /\ \A i \in 1..k - 1 + 1 : u[i] = s[1 + i - 1]
    BY <1>1, <2>1, SubSeqProperties
  <2> HIDE DEF u
  <2>3. \A i \in 1..Len(u) : u[i] = c[i]
    BY <1>1, <2>2
  <2>4. u = c
    BY <2>2, <2>3, SeqEqual
  <2> QED
    BY <2>4 DEF u
<1>3. SubSeq(s, k + 1, k + l) = d
  <2> DEFINE u == SubSeq(s, k + 1, k + l)
  <2>1. \A i \in (k + 1)..(k + l) : s[i] \in X
    BY <1>1
  <2>2. u \in Seq(X) /\ Len(u) = l
        /\ \A i \in 1..(k + l) - (k + 1) + 1 : u[i] = s[(k + 1) + i - 1]
    BY <1>1, <2>1, SubSeqProperties
  <2> HIDE DEF u
  <2>3. ASSUME NEW i \in 1..l
        PROVE  u[i] = d[i]
    <3>1. i \in 1..(k + l) - (k + 1) + 1 /\ (k + 1) + i - 1 = k + i
      BY <1>1
    <3> QED
      BY <1>1, <2>2, <3>1
  <2>4. u = d
    BY <2>2, <2>3, SeqEqual
  <2> QED
    BY <2>4 DEF u
<1> QED
  BY <1>2, <1>3 DEF s

\* Bytes after the header leave it as it is.
LEMMA BeginsMore ==
    ASSUME NEW f \in Seq(Byte), NEW g \in Seq(Byte), NEW n, Begins(f, n), HeaderLen <= Len(f)
    PROVE  Begins(f \o g, n)
<1> DEFINE s == f \o g
<1>1. Len(s) = Len(f) + Len(g) /\ Len(f) \in Nat /\ Len(g) \in Nat /\ \A i \in 1..Len(f) : s[i] = f[i]
  BY ConcatElements
<1>2. HeaderLen \in Nat
  BY Sizes
<1> HIDE DEF s
<1>3. ASSUME NEW i \in 1..Len(s), i <= HeaderLen
      PROVE  s[i] = EnvelopeHeader(n)[i]
  <2>1. i \in 1..Len(f)
    BY <1>1, <1>2, <1>3
  <2> QED
    BY <1>1, <1>3, <2>1 DEF Begins
<1> QED
  BY <1>3 DEF Begins, s

\* The file of a save that is under way.
LEMMA CoveredShape ==
    ASSUME Typed
    PROVE  /\ EnvelopeHeader(declared) \in Seq(Byte) /\ Len(EnvelopeHeader(declared)) = HeaderLen
           /\ Covered \in Seq(Byte) /\ Len(Covered) = HeaderLen + Len(payload)
           /\ Begins(Covered, declared) /\ Crc(Covered) \in Byte
           /\ CrcAppend(Crc(EnvelopeHeader(declared)), payload) = Crc(Covered)
<1> DEFINE h == EnvelopeHeader(declared)  p == payload  B == Byte  zero == 0
<1>1. declared \in Nat /\ HeaderLen \in Nat /\ Word \in Nat
  BY Sizes DEF Typed
<1>2. h \in Seq(B) /\ Len(h) = HeaderLen /\ p \in Seq(B) /\ Len(p) \in Nat
  BY <1>1, HeaderShape DEF Typed
<1>3. zero \in B
  BY Sizes DEF Byte
<1>4. Begins(h, declared)
  BY DEF Begins
<1>5. Begins(h \o p, declared)
  <2>1. h \in Seq(Byte) /\ p \in Seq(Byte) /\ HeaderLen <= Len(h)
    BY <1>1, <1>2
  <2> HIDE DEF h, p
  <2> QED
    BY <1>4, <2>1, BeginsMore
<1> HIDE DEF h, p, B, zero
<1>6. h \o p \in Seq(B) /\ Len(h \o p) = Len(h) + Len(p)
  BY <1>2, ConcatElements
<1> DEFINE c == h \o p
<1>7. CrcAppend(zero, c) \in B
  <2> HIDE DEF c
  <2> QED
    BY <1>3, <1>6, CrcStep DEF B, c
<1>8. CrcAppend(CrcAppend(zero, h), p) = CrcAppend(zero, c)
  BY <1>2, <1>3, CrcStep DEF B
<1> QED
  BY <1>2, <1>5, <1>6, <1>7, <1>8 DEF Covered, Crc, h, p, B, zero, c

LEMMA InitInvariant == Init => IInv
<1> SUFFICES ASSUME Init PROVE IInv
  OBVIOUS
<1>1. maximum \in 0..Word /\ maximum + Overhead <= Word /\ usize \in 0..Word /\ declared \in 0..Word
  BY LimitsAssumption DEF Init, ValidMaximum
<1>2. stage = "header" /\ file = <<>> /\ payload = <<>> /\ crc = 0
  BY DEF Init
<1>3. 0 \in Byte /\ Word \in Nat /\ Overhead \in Nat /\ MaxFile \in Nat
  BY Sizes, LimitsAssumption DEF Byte
<1>4. <<>> \in Seq(Byte) /\ Len(<<>>) = 0
  OBVIOUS
<1>5. Typed
  BY <1>1, <1>2, <1>3, <1>4 DEF Typed
<1>6. Written
  BY <1>2 DEF Written, WritingHeader, WritingPayload, WritingDone, WritingFailed
<1> QED
  BY <1>5, <1>6 DEF IInv

\* What a write that fails leaves of the bytes.
LEMMA FailingWrite ==
    ASSUME NEW bytes \in Seq(Byte), WriteFails(bytes)
    PROVE  \E k \in 0..Len(bytes) :
             /\ k < Len(bytes)
             /\ SubSeq(bytes, 1, k) \in Seq(Byte) /\ Len(SubSeq(bytes, 1, k)) = k
             /\ file' = file \o SubSeq(bytes, 1, k)
<1>1. PICK k \in 0..(Len(bytes) - 1) : file' = file \o SubSeq(bytes, 1, k)
  BY DEF WriteFails
<1>2. k \in 0..Len(bytes) /\ k < Len(bytes) /\ \A i \in 1..k : bytes[i] \in Byte
  OBVIOUS
<1>3. SubSeq(bytes, 1, k) \in Seq(Byte) /\ Len(SubSeq(bytes, 1, k)) = k
  BY <1>2, SubSeqProperties
<1> QED
  BY <1>1, <1>2, <1>3

\* A failed step keeps what was written, cut somewhere.
LEMMA FailedInvariant ==
    ASSUME Typed, stage' = "failed", UNCHANGED <<crc, payload, maximum, usize, declared>>,
           file' \in Seq(Byte), Len(file') <= HeaderLen + declared,
           file' = <<>> \/ (declared <= maximum /\ Begins(file', declared))
    PROVE  IInv'
<1>1. Word \in Nat /\ Overhead = HeaderLen + 1 /\ HeaderLen \in Nat /\ MaxFile \in Nat
  BY Sizes, LimitsAssumption
<1>2. declared \in 0..Word /\ Len(file') \in Nat
  BY DEF Typed
<1>3. Len(file') <= MaxFile + Word + Overhead
  BY <1>1, <1>2
<1>4. Typed'
  BY <1>3 DEF Typed
<1>5. Begins(file', declared) => Begins(file, declared)'
  BY DEF Begins
<1>6. Written'
  BY <1>5 DEF Written, WritingHeader, WritingPayload, WritingDone, WritingFailed
<1> QED
  BY <1>4, <1>6 DEF IInv

LEMMA WriteHeaderInvariant ==
    ASSUME IInv, WriteHeader
    PROVE  IInv'
<1> DEFINE h == EnvelopeHeader(declared)
<1>1. Typed /\ stage = "header" /\ file = <<>> /\ payload = <<>>
  BY DEF IInv, Written, WritingHeader, WriteHeader
<1>2. UNCHANGED <<maximum, usize, declared>>
  BY DEF WriteHeader, limits
<1>3. /\ h \in Seq(Byte) /\ Len(h) = HeaderLen /\ Begins(h, declared)
      /\ HeaderLen \in Nat /\ declared \in Nat /\ Word \in Nat
      /\ Overhead = HeaderLen + 1 /\ MaxFile \in Nat /\ declared <= Word
  <2>1. Begins(h, declared)
    BY DEF Begins
  <2> QED
    BY <1>1, <2>1, CoveredShape, Sizes, LimitsAssumption DEF Typed
<1> HIDE DEF h
<1>4. ASSUME Failed, UNCHANGED file
      PROVE  IInv'
  <2>1. file' = <<>> /\ file' \in Seq(Byte) /\ Len(file') = 0
    BY <1>1, <1>4
  <2>2. Len(file') <= HeaderLen + declared
    BY <1>3, <2>1
  <2>3. stage' = "failed" /\ UNCHANGED <<crc, payload, maximum, usize, declared>>
    BY <1>2, <1>4 DEF Failed
  <2> QED
    BY <1>1, <2>1, <2>2, <2>3, FailedInvariant
<1>5. ASSUME declared <= maximum, WriteFails(h)
      PROVE  IInv'
  <2>1. PICK k \in 0..Len(h) :
          /\ k < Len(h)
          /\ SubSeq(h, 1, k) \in Seq(Byte) /\ Len(SubSeq(h, 1, k)) = k
          /\ file' = file \o SubSeq(h, 1, k)
    BY <1>3, <1>5, FailingWrite
  <2>2. Begins(SubSeq(h, 1, k), declared)
    BY <1>3, BeginsPrefix
  <2> DEFINE g == SubSeq(h, 1, k)
  <2> HIDE DEF g
  <2>3. file' = g /\ g \in Seq(Byte) /\ Len(g) = k /\ Begins(g, declared)
    <3>1. g \in Seq(Byte) /\ Len(g) = k /\ Begins(g, declared) /\ file' = <<>> \o g
      BY <1>1, <2>1, <2>2 DEF g
    <3>2. <<>> \o g = g
      BY <3>1, ConcatEmptySeq
    <3> QED
      BY <3>1, <3>2
  <2>4. Len(file') <= HeaderLen + declared
    BY <1>3, <2>1, <2>3
  <2>5. stage' = "failed" /\ UNCHANGED <<crc, payload, maximum, usize, declared>>
    BY <1>2, <1>5 DEF WriteFails, Failed
  <2> QED
    BY <1>1, <1>5, <2>3, <2>4, <2>5, FailedInvariant
<1>6. ASSUME declared <= maximum, file' = h, crc' = Crc(file'), stage' = "payload", UNCHANGED payload
      PROVE  IInv'
  <2>1. Len(file') <= MaxFile + Word + Overhead
    BY <1>3, <1>6
  <2>2. Covered = h
    <3>1. h \o <<>> = h
      BY <1>3, ConcatEmptySeq
    <3> QED
      BY <1>1, <3>1 DEF Covered, h
  <2>3. crc' \in Byte
    BY <1>1, <1>6, <2>2, CoveredShape
  <2>4. Typed'
    BY <1>1, <1>2, <1>3, <1>6, <2>1, <2>3 DEF Typed
  <2>5. Covered' = h
    BY <1>2, <1>6, <2>2 DEF Covered
  <2>6. Crc(file)' = Crc(file')
    BY DEF Crc
  <2>7. payload' = <<>> /\ Len(payload') = 0
    BY <1>1, <1>6
  <2>8. Written'
    BY <1>2, <1>3, <1>6, <2>5, <2>6, <2>7
       DEF Written, WritingHeader, WritingPayload, WritingDone, WritingFailed
  <2> QED
    BY <2>4, <2>8 DEF IInv
<1>7. \/ Failed /\ UNCHANGED file
      \/ declared <= maximum /\ WriteFails(h)
      \/ declared <= maximum /\ file' = h /\ crc' = Crc(file') /\ stage' = "payload" /\ UNCHANGED payload
  BY DEF WriteHeader, h
<1> QED
  BY <1>4, <1>5, <1>6, <1>7

\* A payload that fails to be written further leaves the start of an envelope.
LEMMA FailedPayload ==
    ASSUME IInv, stage = "payload", stage' = "failed",
           UNCHANGED <<crc, payload, maximum, usize, declared>>,
           NEW g \in Seq(Byte), file' = file \o g, Len(payload) + Len(g) <= declared
    PROVE  IInv'
<1>1. Typed /\ declared <= maximum /\ file = Covered
  BY DEF IInv, Written, WritingPayload
<1>2. /\ Covered \in Seq(Byte) /\ Len(Covered) = HeaderLen + Len(payload) /\ Begins(Covered, declared)
      /\ HeaderLen \in Nat /\ Len(payload) \in Nat /\ Len(g) \in Nat /\ declared \in Nat
  BY SMTT(60), <1>1, CoveredShape, Sizes DEF Typed
<1> DEFINE c == Covered
<1> HIDE DEF c
<1>3. c \in Seq(Byte) /\ Len(c) = HeaderLen + Len(payload) /\ Begins(c, declared) /\ file' = c \o g
  BY <1>1, <1>2 DEF c
<1>4. c \o g \in Seq(Byte) /\ Len(c \o g) = Len(c) + Len(g)
  BY <1>3, ConcatElements
<1>5. HeaderLen <= Len(c) /\ Len(c \o g) <= HeaderLen + declared
  BY <1>2, <1>3, <1>4
<1>6. Begins(c \o g, declared)
  BY <1>3, <1>5, BeginsMore
<1>7. file' \in Seq(Byte) /\ Len(file') <= HeaderLen + declared /\ Begins(file', declared)
  BY <1>3, <1>4, <1>5, <1>6
<1> QED
  BY <1>1, <1>7, FailedInvariant

\* The same when nothing more was written.
LEMMA FailedAtOnce ==
    ASSUME IInv, stage = "payload", stage' = "failed",
           UNCHANGED <<crc, payload, maximum, usize, declared, file>>
    PROVE  IInv'
<1>1. Typed /\ declared <= maximum /\ file = Covered /\ Len(payload) <= declared
  BY DEF IInv, Written, WritingPayload
<1> DEFINE g == <<>>
<1>2. g \in Seq(Byte) /\ Len(g) = 0
  OBVIOUS
<1>3. file \o <<>> = file
  BY <1>1, ConcatEmptySeq DEF Typed
<1>4. file' = file \o g
  BY <1>3
<1>5. Len(payload) + 0 <= declared
  BY <1>1 DEF Typed
<1> HIDE DEF g
<1> QED
  BY <1>2, <1>4, <1>5, FailedPayload

LEMMA WriteChunkInvariant ==
    ASSUME IInv, NEW chunk \in Chunks, WriteChunk(chunk)
    PROVE  IInv'
<1>1. /\ Typed /\ stage = "payload" /\ declared <= maximum /\ Len(payload) <= declared
      /\ file = Covered /\ crc = Crc(file)
  BY DEF IInv, Written, WritingPayload, WriteChunk
<1>2. UNCHANGED <<maximum, usize, declared>>
  BY DEF WriteChunk, limits
<1>3. chunk \in Seq(Byte)
  <2>1. ChunkSize \in Nat
    BY Sizes
  <2>2. PICK n \in 1..ChunkSize : chunk \in [1..n -> Byte]
    BY DEF Chunks
  <2>3. n \in Nat
    BY <2>1
  <2> QED
    BY <2>2, <2>3
<1>4. Len(chunk) \in Nat /\ Len(payload) \in Nat /\ payload \in Seq(Byte) /\ declared \in Nat
  BY <1>1, <1>3 DEF Typed
<1>5. ASSUME Failed, UNCHANGED file
      PROVE  IInv'
  <2>1. stage' = "failed" /\ UNCHANGED <<crc, payload, maximum, usize, declared, file>>
    BY <1>2, <1>5 DEF Failed
  <2> QED
    BY <1>1, <2>1, FailedAtOnce
<1>6. ASSUME Len(payload) + Len(chunk) <= declared, WriteFails(chunk)
      PROVE  IInv'
  <2>1. PICK k \in 0..Len(chunk) :
          /\ k < Len(chunk)
          /\ SubSeq(chunk, 1, k) \in Seq(Byte) /\ Len(SubSeq(chunk, 1, k)) = k
          /\ file' = file \o SubSeq(chunk, 1, k)
    BY <1>3, <1>6, FailingWrite
  <2>2. Len(payload) + k <= declared
    BY <1>4, <1>6, <2>1
  <2>3. stage' = "failed" /\ UNCHANGED <<crc, payload, maximum, usize, declared>>
    BY <1>2, <1>6 DEF WriteFails, Failed
  <2> DEFINE g == SubSeq(chunk, 1, k)
  <2>4. g \in Seq(Byte) /\ file' = file \o g /\ Len(payload) + Len(g) <= declared
    BY <2>1, <2>2
  <2> HIDE DEF g
  <2> QED
    BY <1>1, <2>3, <2>4, FailedPayload
<1>7. ASSUME Len(payload) + Len(chunk) <= declared, file' = file \o chunk,
             crc' = CrcAppend(crc, chunk), payload' = payload \o chunk, UNCHANGED stage
      PROVE  IInv'
  <2> DEFINE h == EnvelopeHeader(declared)  p == payload  c == Covered  B == Byte  zero == 0
  <2>1. h \in Seq(B) /\ Len(h) = HeaderLen /\ p \in Seq(B) /\ chunk \in Seq(B)
    BY <1>1, <1>3, <1>4, CoveredShape
  <2>2. c \in Seq(B) /\ Len(c) = HeaderLen + Len(p) /\ c = h \o p /\ file = c
    BY <1>1, CoveredShape DEF Covered
  <2>3. zero \in B /\ crc \in Byte /\ crc = CrcAppend(zero, c)
    BY <1>1, Sizes DEF Byte, Crc, Typed
  <2>4. Covered' = h \o (p \o chunk)
    BY <1>2, <1>7 DEF Covered
  <2> HIDE DEF h, p, c, B, zero
  <2>5. p \o chunk \in Seq(B) /\ Len(p \o chunk) = Len(p) + Len(chunk)
    BY <2>1, ConcatElements
  <2>6. c \o chunk \in Seq(B) /\ Len(c \o chunk) = Len(c) + Len(chunk)
    BY <2>1, <2>2, ConcatElements
  <2>7. h \o (p \o chunk) = c \o chunk
    BY SMTT(60), <2>1, <2>2, ConcatAssociative
  <2>8. CrcAppend(CrcAppend(zero, c), chunk) = CrcAppend(zero, c \o chunk)
    <3>1. c \in Seq(Byte) /\ chunk \in Seq(Byte) /\ zero \in Byte
      BY <2>1, <2>2, <2>3 DEF B
    <3> QED
      BY <3>1, CrcStep
  <2>9. crc' \in Byte
    BY <1>3, <1>7, <2>3, CrcStep
  <2>10. file' = Covered' /\ crc' = Crc(file')
    BY <1>7, <2>2, <2>3, <2>4, <2>7, <2>8 DEF Crc, zero
  <2>11. Len(payload') <= declared /\ payload' \in Seq(Byte)
    BY <1>7, <2>5 DEF p, B
  <2>12. file' \in Seq(Byte) /\ Len(file') <= MaxFile + Word + Overhead
    <3>1. HeaderLen \in Nat /\ Word \in Nat /\ MaxFile \in Nat /\ Overhead = HeaderLen + 1
          /\ declared <= Word
      BY <1>1, Sizes, LimitsAssumption DEF Typed
    <3>2. file' \in Seq(Byte) /\ Len(file') = HeaderLen + Len(payload) + Len(chunk)
      BY <1>7, <2>2, <2>6 DEF B, p
    <3> QED
      BY <1>4, <1>7, <3>1, <3>2
  <2>13. Typed'
    BY <1>1, <1>2, <1>7, <2>9, <2>11, <2>12 DEF Typed
  <2>14. Crc(file)' = Crc(file')
    BY DEF Crc
  <2>15. Written'
    BY <1>1, <1>2, <1>7, <2>10, <2>11, <2>14
       DEF Written, WritingHeader, WritingPayload, WritingDone, WritingFailed
  <2> QED
    BY <2>13, <2>15 DEF IInv
<1>8. \/ Failed /\ UNCHANGED file
      \/ Len(payload) + Len(chunk) <= declared /\ WriteFails(chunk)
      \/ /\ Len(payload) + Len(chunk) <= declared /\ file' = file \o chunk
         /\ crc' = CrcAppend(crc, chunk) /\ payload' = payload \o chunk /\ UNCHANGED stage
  BY DEF WriteChunk
<1> QED
  BY <1>5, <1>6, <1>7, <1>8

LEMMA WriteChecksumInvariant ==
    ASSUME IInv, WriteChecksum
    PROVE  IInv'
<1>1. /\ Typed /\ stage = "payload" /\ declared <= maximum /\ Len(payload) <= declared
      /\ file = Covered /\ crc = Crc(file)
  BY DEF IInv, Written, WritingPayload, WriteChecksum
<1>2. UNCHANGED <<maximum, usize, declared>>
  BY DEF WriteChecksum, limits
<1>3. Checksum \in Seq(Byte) /\ Len(Checksum) = 1
  BY <1>1, OneByteField DEF Checksum, Typed
<1>4. ASSUME Failed, UNCHANGED file
      PROVE  IInv'
  <2>1. stage' = "failed" /\ UNCHANGED <<crc, payload, maximum, usize, declared, file>>
    BY <1>2, <1>4 DEF Failed
  <2> QED
    BY <1>1, <2>1, FailedAtOnce
<1>5. ASSUME WriteFails(Checksum)
      PROVE  IInv'
  <2>1. PICK k \in 0..Len(Checksum) :
          /\ k < Len(Checksum)
          /\ SubSeq(Checksum, 1, k) \in Seq(Byte) /\ Len(SubSeq(Checksum, 1, k)) = k
          /\ file' = file \o SubSeq(Checksum, 1, k)
    BY <1>3, <1>5, FailingWrite
  <2>2. k = 0
    BY <1>3, <2>1
  <2>3. stage' = "failed" /\ UNCHANGED <<crc, payload, maximum, usize, declared>>
    BY <1>2, <1>5 DEF WriteFails, Failed
  <2> DEFINE g == SubSeq(Checksum, 1, k)
  <2>4. g \in Seq(Byte) /\ file' = file \o g /\ Len(payload) + Len(g) <= declared
    <3>1. Len(payload) + 0 <= declared
      BY <1>1 DEF Typed
    <3> QED
      BY <2>1, <2>2, <3>1
  <2> HIDE DEF g
  <2> QED
    BY <1>1, <2>3, <2>4, FailedPayload
<1>6. ASSUME Len(payload) = declared, file' = file \o Checksum, stage' = "done",
             UNCHANGED <<crc, payload>>
      PROVE  IInv'
  <2> DEFINE c == Covered  k == Checksum
  <2>1. c \in Seq(Byte) /\ Len(c) = HeaderLen + declared /\ k \in Seq(Byte) /\ Len(k) = 1
    BY <1>1, <1>3, <1>6, CoveredShape
  <2>2. file' = c \o k /\ k = Field(Crc(c), ChecksumLen)
    BY <1>1, <1>6 DEF Checksum
  <2>3. Covered' = c
    BY <1>2, <1>6 DEF Covered
  <2> HIDE DEF c, k
  <2>4. c \o k \in Seq(Byte) /\ Len(c \o k) = Len(c) + Len(k)
    BY <2>1, ConcatElements
  <2>5. file' \in Seq(Byte) /\ Len(file') <= MaxFile + Word + Overhead
    <3>1. HeaderLen \in Nat /\ Word \in Nat /\ MaxFile \in Nat /\ Overhead = HeaderLen + 1
          /\ declared <= Word /\ declared \in Nat
      BY <1>1, Sizes, LimitsAssumption DEF Typed
    <3> QED
      BY <2>1, <2>2, <2>4, <3>1
  <2>6. Typed'
    BY <1>1, <1>2, <1>6, <2>5 DEF Typed
  <2>7. Field(Crc(Covered), ChecksumLen)' = Field(Crc(c), ChecksumLen)
    BY <2>3 DEF Field, Crc, ChecksumLen
  <2>8. Written'
    BY <1>1, <1>2, <1>6, <2>2, <2>3, <2>7
       DEF Written, WritingHeader, WritingPayload, WritingDone, WritingFailed
  <2> QED
    BY <2>6, <2>8 DEF IInv
<1>7. \/ Failed /\ UNCHANGED file
      \/ WriteFails(Checksum)
      \/ /\ Len(payload) = declared /\ file' = file \o Checksum /\ stage' = "done"
         /\ UNCHANGED <<crc, payload>>
  BY DEF WriteChecksum
<1> QED
  BY <1>4, <1>5, <1>6, <1>7

LEMMA DamageInvariant ==
    ASSUME IInv, Damage
    PROVE  IInv'
<1>1. Typed
  BY DEF IInv
<1>2. /\ stage' = "damaged" /\ payload' = <<>> /\ crc' = 0 /\ declared' = 0
      /\ UNCHANGED <<maximum, usize>>
  BY DEF Damage
<1>3. /\ 0 \in Byte /\ Word \in Nat /\ Overhead \in Nat /\ MaxFile \in Nat
      /\ file \in Seq(Byte) /\ Len(file) \in Nat /\ Len(file) <= MaxFile + Word + Overhead
  BY <1>1, Sizes, LimitsAssumption DEF Byte, Typed
<1>4. file' \in Seq(Byte) /\ Len(file') <= MaxFile + Word + Overhead
  <2>1. CASE \E b \in Byte : Len(file) < MaxFile /\ file' = Append(file, b)
    <3>1. PICK b \in Byte : Len(file) < MaxFile /\ file' = Append(file, b)
      BY <2>1
    <3>2. Append(file, b) \in Seq(Byte) /\ Len(Append(file, b)) = Len(file) + 1
      BY <1>3, AppendProperties
    <3> QED
      BY <1>3, <3>1, <3>2
  <2>2. CASE file # <<>> /\ file' = SubSeq(file, 1, Len(file) - 1)
    <3> DEFINE k == Len(file) - 1
    <3>1. k \in Nat /\ k <= Len(file) /\ \A i \in 1..k : file[i] \in Byte
      BY <1>3, <2>2
    <3> HIDE DEF k
    <3>2. SubSeq(file, 1, k) \in Seq(Byte) /\ Len(SubSeq(file, 1, k)) = k
      BY <3>1, SubSeqProperties
    <3> QED
      BY <1>3, <2>2, <3>1, <3>2 DEF k
  <2> QED
    BY <2>1, <2>2 DEF Damage
<1>5. Typed'
  BY <1>1, <1>2, <1>3, <1>4 DEF Typed
<1>6. Written'
  BY <1>2 DEF Written, WritingHeader, WritingPayload, WritingDone, WritingFailed
<1> QED
  BY <1>5, <1>6 DEF IInv

LEMMA NextInvariant == IInv /\ [Next]_vars => IInv'
<1> SUFFICES ASSUME IInv, [Next]_vars PROVE IInv'
  OBVIOUS
<1>1. CASE WriteHeader
  BY <1>1, WriteHeaderInvariant
<1>2. CASE \E chunk \in Chunks : WriteChunk(chunk)
  BY <1>2, WriteChunkInvariant
<1>3. CASE WriteChecksum
  BY <1>3, WriteChecksumInvariant
<1>4. CASE Disconnected
  <2>1. stage = "payload" /\ stage' = "failed"
        /\ UNCHANGED <<crc, payload, maximum, usize, declared, file>>
    BY <1>4 DEF Disconnected, Failed, limits
  <2> QED
    BY <2>1, FailedAtOnce
<1>5. CASE Damage
  BY <1>5, DamageInvariant
<1>6. CASE UNCHANGED vars
  BY <1>6 DEF IInv, Typed, Written, WritingHeader, WritingPayload, WritingDone, WritingFailed,
              Covered, Begins, vars
<1> QED
  BY <1>1, <1>2, <1>3, <1>4, <1>5, <1>6 DEF Next

LEMMA Invariant == Spec => []IInv
<1> QED
  BY InitInvariant, NextInvariant, PTL DEF Spec

----------------------------------------------------------------------------
(* The theorems.                                                           *)

\* What the invariant says of the constants of a state.
LEMMA Reading ==
    ASSUME IInv
    PROVE  /\ file \in Seq(Byte) /\ Len(file) \in Nat
           /\ maximum \in 0..Word /\ maximum \in Nat /\ usize \in Nat
           /\ NoFault \in Nat /\ Len(file) < NoFault
<1>1. Word \in Nat /\ Overhead \in Nat /\ MaxFile \in Nat
  BY Sizes, LimitsAssumption
<1> QED
  BY <1>1 DEF IInv, Typed, NoFault

\* load (decode_reader_with_usize_limit) and load_into (validate_envelope_reader)
\* give the same answer for every file and every byte at which reading it fails,
\* except that load alone turns away what does not fit in memory.
THEOREM LoadsAgree == Spec => []DecodersAgree
<1>1. ASSUME IInv
      PROVE  DecodersAgree
  <2>1. ASSUME NEW fault \in Faults
        PROVE  \/ Decode(file, fault) = Validate(file, fault)
               \/ /\ Decode(file, fault) = <<"InvalidPayloadLength">>
                  /\ DeclaredIn(file) \in (usize - Overhead + 1)..maximum
    <3>1. /\ file \in Seq(Byte) /\ Len(file) \in Nat /\ maximum \in Nat /\ usize \in Nat
          /\ NoFault \in Nat
      BY <1>1, Reading
    <3>2. fault \in Nat
      BY <3>1 DEF Faults
    <3> QED
      BY <3>1, <3>2, Agreement
  <2> QED
    BY <2>1 DEF DecodersAgree
<1> QED
  BY <1>1, Invariant, PTL

\* The files accepted are those of the documented format: tag, version, length,
\* payload, checksum and the end, in one encoding only.
THEOREM FormatAccepted == Spec => []AcceptsExactly
<1>1. ASSUME IInv
      PROVE  AcceptsExactly
  <2>1. file \in Seq(Byte) /\ maximum \in 0..Word /\ NoFault \in Nat /\ Len(file) < NoFault
    BY <1>1, Reading
  <2>2. Validate(file, NoFault) = Ok <=> IsEnvelope(file)
    BY <2>1, Acceptance
  <2> QED
    BY <2>2 DEF AcceptsExactly
<1> QED
  BY <1>1, Invariant, PTL

\* A read that fails makes load and load_into answer with the I/O error, or comes
\* after the answer was found; no file is accepted with a byte that cannot be read.
THEOREM FaultsReported == Spec => []FaultNeverMisleads
<1>1. ASSUME IInv
      PROVE  FaultNeverMisleads
  <2>1. file \in Seq(Byte) /\ NoFault \in Nat /\ Len(file) < NoFault /\ usize \in Nat
    BY <1>1, Reading
  <2>2. ASSUME NEW fault \in 0..Len(file)
        PROVE  /\ Decode(file, fault) \in {<<"Io">>, Decode(file, NoFault)} \ {Ok}
               /\ Validate(file, fault) \in {<<"Io">>, Validate(file, NoFault)} \ {Ok}
    BY <2>1, SpoiledAnswers
  <2> QED
    BY <2>2 DEF FaultNeverMisleads
<1> QED
  BY <1>1, Invariant, PTL

\* A finished streamed save is an envelope of its payload.
LEMMA FinishedSave ==
    ASSUME IInv, stage = "done"
    PROVE  /\ file = EncodeEnvelope(payload)
           /\ IsEnvelope(file)
           /\ DeclaredIn(file) = declared /\ declared <= maximum
           /\ Streamed(file) = payload /\ PayloadIn(file) = payload
<1> DEFINE h == EnvelopeHeader(declared)  p == payload  c == Covered  n == declared  H == HeaderLen
           w == Field(Crc(c), ChecksumLen)  B == Byte
<1>1. Typed /\ n <= maximum /\ Len(p) = n /\ file = c \o w
  BY DEF IInv, Written, WritingDone
<1>2. /\ h \in Seq(B) /\ Len(h) = H /\ p \in Seq(B) /\ c \in Seq(B) /\ Len(c) = H + n
      /\ c = h \o p /\ Crc(c) \in Byte /\ CrcAppend(Crc(h), p) = Crc(c)
  BY <1>1, CoveredShape DEF Covered, Typed
<1>3. w \in Seq(B) /\ Len(w) = 1 /\ ChecksumLen = 1
  BY <1>2, OneByteField, Sizes
<1>4. file = EncodeEnvelope(payload)
  <2>1. EncodeEnvelope(p) = (h \o p) \o Field(CrcAppend(Crc(h), p), ChecksumLen)
    BY <1>1 DEF EncodeEnvelope
  <2> QED
    BY <1>1, <1>2, <2>1
<1>5. n \in 0..maximum /\ n \in 0..Word /\ n \in Nat /\ H \in Nat /\ H \in Nat \ {0}
  BY <1>1, Sizes DEF Typed
<1>6. h = Tag \o Version \o Field(n, LengthLen)
  BY DEF EnvelopeHeader
<1> HIDE DEF h, p, c, n, H, w, B
<1>7. c \o w \in Seq(B) /\ Len(c \o w) = H + n + 1
  <2>1. c \in Seq(B) /\ w \in Seq(B)
    BY <1>2, <1>3
  <2>2. c \o w \in Seq(B) /\ Len(c \o w) = Len(c) + Len(w)
    BY <2>1, ConcatElements
  <2> QED
    BY <1>2, <1>3, <2>2
<1>8. SubSeq(file, 1, H + n) = c /\ SubSeq(file, H + n + 1, H + n + 1) = w
  <2>1. SubSeq(c \o w, 1, Len(c)) = c /\ SubSeq(c \o w, Len(c) + 1, Len(c) + Len(w)) = w
    BY <1>2, <1>3, ConcatParts
  <2> QED
    BY <1>1, <1>2, <1>3, <2>1
<1> DEFINE r == p \o w
<1>9. r \in Seq(B) /\ c \o w = h \o r
  BY SMTT(60), <1>2, <1>3, ConcatElements, ConcatAssociative
<1> HIDE DEF r
<1>10. SubSeq(file, 1, H) = h
  <2>1. SubSeq(h \o r, 1, Len(h)) = h
    BY <1>2, <1>9, ConcatParts
  <2> QED
    BY <1>1, <1>2, <1>9, <2>1
<1>11. file \in Seq(Byte) /\ Len(file) = H + n + 1 /\ H <= Len(file) /\ H + n <= Len(file)
  BY <1>1, <1>5, <1>7 DEF B
<1>12. IsEnvelope(file)
  <2>1. Len(file) = HeaderLen + n + ChecksumLen
    BY <1>3, <1>11 DEF H
  <2>2. SubSeq(file, 1, HeaderLen) = Tag \o Version \o Field(n, LengthLen)
    BY <1>6, <1>10 DEF H
  <2>3. SubSeq(file, HeaderLen + n + 1, Len(file)) =
          Field(Crc(SubSeq(file, 1, HeaderLen + n)), ChecksumLen)
    BY <1>8, <1>11 DEF H, w
  <2> QED
    BY <1>5, <2>1, <2>2, <2>3 DEF IsEnvelope
<1>13. DeclaredIn(file) = n
  <2>1. Begins(file, n)
    BY <1>5, <1>10, <1>11, BeginsWithHeader DEF H, h, n
  <2> QED
    BY <1>5, <1>11, <2>1, FieldsOfHeader DEF H
<1>14. SubSeq(file, H + 1, H + n) = p
  <2>1. SubSeq(h \o p, Len(h) + 1, Len(h) + Len(p)) = p /\ SubSeq(h \o p, 1, Len(h)) = h
    BY <1>2, ConcatParts
  <2> DEFINE d == SubSeq(file, H + 1, H + n)  m == H + n
  <2>2. 1 \in 1..Len(file) + 1 /\ H \in (1 - 1)..Len(file) /\ m \in H..Len(file)
    BY <1>5, <1>11
  <2>3. SubSeq(file, 1, H) \o SubSeq(file, H + 1, m) = SubSeq(file, 1, m)
    <3> HIDE DEF m
    <3> QED
      BY <1>11, <2>2, ConcatAdjacentSubSeq
  <2>4. h \o d = h \o p
    BY <1>2, <1>8, <1>10, <2>3
  <2>5. d \in Seq(B)
    <3>1. \A i \in (H + 1)..m : file[i] \in Byte
      BY <1>5, <1>11
    <3>2. H + 1 \in Int /\ m \in Int
      BY <1>5
    <3> HIDE DEF m
    <3>3. SubSeq(file, H + 1, m) \in Seq(Byte)
      BY <3>1, <3>2, SubSeqProperties
    <3> QED
      BY <3>3 DEF m, B
  <2> HIDE DEF d
  <2>6. d = p
    BY <1>2, <2>4, <2>5, ConcatSimplifications
  <2> QED
    BY <2>6 DEF d
<1>15. Streamed(file) = p /\ PayloadIn(file) = p
  <2>1. 0 \in Byte /\ HeaderLen + DeclaredIn(file) <= Len(file)
    BY <1>11, <1>13, Sizes DEF Byte, H
  <2>2. PayloadIn(file) = SubSeq(file, HeaderLen + 1, HeaderLen + DeclaredIn(file))
        /\ Streamed(file) = PayloadIn(file)
    BY <1>11, <2>1, ChunksHold
  <2> QED
    BY <1>13, <1>14, <2>2 DEF H
<1> QED
  BY <1>1, <1>4, <1>12, <1>13, <1>15 DEF p, n

\* What a save leaves is loadable exactly when it finished: a finished streamed
\* save is what saving the whole payload would have written and loads again, and
\* a failed, cancelled or unfinished one is a truncated envelope at every cut.
THEOREM SavesLoad == Spec => []LoadableWhenFinished
<1>1. ASSUME IInv
      PROVE  LoadableWhenFinished
  <2>1. /\ file \in Seq(Byte) /\ maximum \in 0..Word /\ maximum \in Nat /\ usize \in Nat
        /\ NoFault \in Nat /\ Len(file) < NoFault /\ Len(file) \in Nat
        /\ Word \in Nat /\ Overhead \in Nat /\ HeaderLen \in Nat
    BY <1>1, Reading, Sizes
  <2>2. ASSUME stage = "done"
        PROVE  /\ file = EncodeEnvelope(payload)
               /\ Validate(file, NoFault) = Ok /\ Streamed(file) = payload
               /\ usize = Word => Decode(file, NoFault) = Ok /\ PayloadIn(file) = payload
    <3>1. /\ file = EncodeEnvelope(payload) /\ IsEnvelope(file)
          /\ DeclaredIn(file) = declared /\ declared <= maximum
          /\ Streamed(file) = payload /\ PayloadIn(file) = payload
      BY <1>1, <2>2, FinishedSave
    <3>2. Validate(file, NoFault) = Ok
      BY <2>1, <3>1, Acceptance
    <3>3. ASSUME usize = Word
          PROVE  Decode(file, NoFault) = Ok
      <4>1. declared \in Nat /\ maximum + Overhead <= Word
        BY <1>1 DEF IInv, Typed
      <4>2. ~(DeclaredIn(file) \in (usize - Overhead + 1)..maximum)
        BY <2>1, <3>1, <3>3, <4>1
      <4> QED
        BY <2>1, <3>2, <4>2, Agreement
    <3> QED
      BY <3>1, <3>2, <3>3
  <2>3. ASSUME stage \in {"header", "payload", "failed"}, NEW k \in 0..Len(file)
        PROVE  Validate(SubSeq(file, 1, k), NoFault)[1] = "TruncatedEnvelope"
    <3>1. \E n \in 0..Word : n <= maximum /\ Begins(file, n) /\ Len(file) <= HeaderLen + n
      <4>1. CASE file = <<>>
        <5>1. 0 \in 0..Word /\ 0 <= maximum /\ Len(file) = 0
          BY <2>1, <4>1
        <5>2. Begins(file, 0)
          BY <5>1 DEF Begins
        <5> QED
          BY <2>1, <5>1, <5>2
      <4>2. CASE stage = "payload"
        <5>1. Typed /\ declared <= maximum /\ Len(payload) <= declared /\ file = Covered
          BY <1>1, <4>2 DEF IInv, Written, WritingPayload
        <5>2. Begins(file, declared) /\ Len(file) = HeaderLen + Len(payload)
          BY <5>1, CoveredShape
        <5>3. declared \in 0..Word /\ Len(payload) \in Nat
          BY <5>1 DEF Typed
        <5> QED
          BY <2>1, <5>1, <5>2, <5>3
      <4>3. CASE stage = "failed" /\ file # <<>>
        BY <1>1, <4>3 DEF IInv, Typed, Written, WritingFailed
      <4>4. stage = "header" => file = <<>>
        BY <1>1 DEF IInv, Written, WritingHeader
      <4> QED
        BY <2>3, <4>1, <4>2, <4>3, <4>4
    <3>2. PICK n \in 0..Word : n <= maximum /\ Begins(file, n) /\ Len(file) <= HeaderLen + n
      BY <3>1
    <3> DEFINE g == SubSeq(file, 1, k)
    <3>3. g \in Seq(Byte) /\ Len(g) = k /\ Begins(g, n)
      BY <2>1, <3>2, BeginsPrefix
    <3> HIDE DEF g
    <3>4. Len(g) <= HeaderLen + n /\ Len(g) < NoFault
      BY <2>1, <3>2, <3>3
    <3>5. Validate(g, NoFault)[1] = "TruncatedEnvelope"
      BY <2>1, <3>2, <3>3, <3>4, Truncation
    <3> QED
      BY <3>5 DEF g
  <2> QED
    BY <2>2, <2>3 DEF LoadableWhenFinished
<1> QED
  BY <1>1, Invariant, PTL
=============================================================================
