-------------------------- MODULE HistoryReadProofs --------------------------
(***************************************************************************)
(* What the operators of History compute, for every log: lines, parsing,   *)
(* the tail read and the summary.                                          *)
(*                                                                         *)
(* Where a proof is by induction over a number, it takes the least         *)
(* counterexample (LeastOf).                                               *)
(***************************************************************************)
EXTENDS History, FiniteSetTheorems, SequenceTheorems, WellFoundedInduction, TLAPS

------------------------------------------------------------------------------
(* Sets of numbers.                                                        *)

LEMMA LeastOf ==
    ASSUME NEW S \in SUBSET Nat, S # {}
    PROVE  /\ Min(S) \in S /\ \A x \in S : Min(S) <= x
           /\ \E m \in S : \A x \in S : m <= x
<1> DEFINE R == OpToRel(<, Nat)
<1>a. IsWellFoundedOn(R, Nat)
  BY NatLessThanWellFounded
<1>b. \A x, y \in Nat : x < y => <<x, y>> \in R
  BY DEF OpToRel
<1> HIDE DEF R
<1>1. PICK m \in S : \A y \in S : <<y, m>> \notin R
  BY <1>a, WFMin
<1>2. ASSUME NEW y \in S
      PROVE  m <= y
  <2>1. y \in Nat /\ m \in Nat
    OBVIOUS
  <2>2. ~ (y < m)
    BY <1>1, <1>b, <2>1, Zenon
  <2> QED
    BY <2>1, <2>2
<1>3. Min(S) \in S /\ \A x \in S : Min(S) <= x
  BY <1>2, Zenon DEF Min
<1> QED
  BY <1>2, <1>3

LEMMA GreatestOf ==
    ASSUME NEW n \in Nat, NEW S \in SUBSET (0 .. n), S # {}
    PROVE  Max(S) \in S /\ \A x \in S : x <= Max(S)
<1> DEFINE T == {m \in Nat : \A x \in S : x <= m}
<1>1. n \in T /\ T \subseteq Nat
  OBVIOUS
<1>2. PICK m \in T : \A y \in T : m <= y
  BY <1>1, LeastOf
<1>3. m \in S
  <2> SUFFICES ASSUME m \notin S
               PROVE  FALSE
    OBVIOUS
  <2>1. PICK x \in S : TRUE
    OBVIOUS
  <2>2. \A y \in S : y \in Nat /\ y < m
    BY <1>2
  <2>3. m - 1 \in T
    BY <2>1, <2>2
  <2> QED
    BY <1>2, <2>3
<1>4. m \in S /\ \A x \in S : m >= x
  BY <1>2, <1>3
<1>5. Max(S) \in S /\ \A x \in S : Max(S) >= x
  BY <1>4, Zenon DEF Max
<1> QED
  BY <1>5

LEMMA UpToCounts ==
    ASSUME NEW n \in Nat, NEW S \in SUBSET (1 .. n)
    PROVE  /\ IsFiniteSet(S) /\ Cardinality(S) \in Nat
           /\ UpTo(S, 0) = {} /\ UpTo(S, n) = S
           /\ \A i \in Nat : IsFiniteSet(UpTo(S, i)) /\ Cardinality(UpTo(S, i)) \in Nat
           /\ \A i \in Nat : Cardinality(UpTo(S, i)) <= Cardinality(S)
           /\ \A i \in Nat \ {0} :
                Cardinality(UpTo(S, i)) =
                    Cardinality(UpTo(S, i - 1)) + (IF i \in S THEN 1 ELSE 0)
<1>1. IsFiniteSet(S) /\ Cardinality(S) \in Nat
  <2>1. IsFiniteSet(1 .. n)
    BY FS_Interval
  <2> QED
    BY <2>1, FS_Subset, FS_CardinalityType, Zenon
<1>2. UpTo(S, 0) = {} /\ UpTo(S, n) = S
  <2>1. \A j \in S : j \in Int /\ j > 0 /\ j <= n
    OBVIOUS
  <2>2. \A j : j \notin UpTo(S, 0)
    <3>1. \A j \in S : ~ (j <= 0)
      BY <2>1
    <3> QED
      BY <3>1, Zenon DEF UpTo
  <2>3. \A j : j \in UpTo(S, n) <=> j \in S
    BY <2>1 DEF UpTo
  <2> QED
    BY <2>2, <2>3
<1>3. ASSUME NEW i \in Nat
      PROVE  /\ IsFiniteSet(UpTo(S, i)) /\ Cardinality(UpTo(S, i)) \in Nat
             /\ Cardinality(UpTo(S, i)) <= Cardinality(S)
  <2>1. UpTo(S, i) \in SUBSET S
    BY DEF UpTo
  <2> QED
    BY <1>1, <2>1, FS_Subset, FS_CardinalityType
<1>4. ASSUME NEW i \in Nat \ {0}
      PROVE  Cardinality(UpTo(S, i)) =
                 Cardinality(UpTo(S, i - 1)) + (IF i \in S THEN 1 ELSE 0)
  <2>1. CASE i \in S
    <3>1. UpTo(S, i) = UpTo(S, i - 1) \cup {i} /\ i \notin UpTo(S, i - 1)
      <4>1. \A j \in S : j \in Int /\ (j <= i <=> j <= i - 1 \/ j = i)
        OBVIOUS
      <4>2. \A j : j \in UpTo(S, i) <=> j \in UpTo(S, i - 1) \cup {i}
        BY <2>1, <4>1 DEF UpTo
      <4>3. i \notin UpTo(S, i - 1)
        BY DEF UpTo
      <4> QED
        BY <4>2, <4>3
    <3>2. i - 1 \in Nat
      OBVIOUS
    <3>3. IsFiniteSet(UpTo(S, i - 1)) /\ Cardinality(UpTo(S, i - 1)) \in Nat
      BY <1>3, <3>2
    <3>4. Cardinality(UpTo(S, i - 1) \cup {i}) = Cardinality(UpTo(S, i - 1)) + 1
      BY <3>1, <3>3, FS_AddElement, Zenon
    <3> QED
      BY <2>1, <3>1, <3>4
  <2>2. CASE i \notin S
    <3>1. UpTo(S, i) = UpTo(S, i - 1)
      <4>1. \A j \in S : j \in Int /\ (j <= i <=> j <= i - 1 \/ j = i)
        OBVIOUS
      <4> QED
        BY <2>2, <4>1 DEF UpTo
    <3>2. Cardinality(UpTo(S, i)) \in Nat
      BY <1>3
    <3> QED
      BY <2>2, <3>1, <3>2
  <2> QED
    BY <2>1, <2>2
<1> QED
  BY <1>1, <1>2, <1>3, <1>4

LEMMA UpToMonotone ==
    ASSUME NEW n \in Nat, NEW S \in SUBSET (1 .. n), NEW i \in S, NEW j \in S, i < j
    PROVE  Cardinality(UpTo(S, i)) < Cardinality(UpTo(S, j))
<1>0. /\ \A m \in Nat : IsFiniteSet(UpTo(S, m)) /\ Cardinality(UpTo(S, m)) \in Nat
      /\ \A m \in Nat \ {0} :
            Cardinality(UpTo(S, m)) =
                Cardinality(UpTo(S, m - 1)) + (IF m \in S THEN 1 ELSE 0)
  BY UpToCounts
<1>1. i \in Nat /\ j \in Nat \ {0} /\ j - 1 \in Nat /\ i <= j - 1
  OBVIOUS
<1>2. UpTo(S, i) \in SUBSET UpTo(S, j - 1)
  <2>1. \A x \in S : x \in Int /\ (x <= i => x <= j - 1)
    BY <1>1
  <2> QED
    BY <2>1 DEF UpTo
<1>3. Cardinality(UpTo(S, i)) <= Cardinality(UpTo(S, j - 1))
  <2>1. IsFiniteSet(UpTo(S, j - 1))
    BY <1>0, <1>1, Zenon
  <2> QED
    BY <1>2, <2>1, FS_Subset, Zenon
<1>4. Cardinality(UpTo(S, j)) = Cardinality(UpTo(S, j - 1)) + 1
  <2>1. Cardinality(UpTo(S, j)) = Cardinality(UpTo(S, j - 1)) + (IF j \in S THEN 1 ELSE 0)
    BY <1>0, <1>1, Zenon
  <2> QED
    BY <2>1
<1>5. Cardinality(UpTo(S, i)) \in Nat /\ Cardinality(UpTo(S, j - 1)) \in Nat
  BY <1>0, <1>1, Zenon
<1> QED
  BY <1>3, <1>4, <1>5

(* The k-th of a set is the one with that many up to it.                   *)
LEMMA NthIs ==
    ASSUME NEW n \in Nat, NEW S \in SUBSET (1 .. n)
    PROVE  /\ \A k \in 1 .. Cardinality(S) :
                Nth(S, k) \in S /\ Cardinality(UpTo(S, Nth(S, k))) = k
           /\ \A i \in S : /\ Cardinality(UpTo(S, i)) \in 1 .. Cardinality(S)
                           /\ Nth(S, Cardinality(UpTo(S, i))) = i
<1>1. ASSUME NEW k \in 1 .. Cardinality(S)
      PROVE  Nth(S, k) \in S /\ Cardinality(UpTo(S, Nth(S, k))) = k
  <2> DEFINE T == {m \in Nat : Cardinality(UpTo(S, m)) >= k}
  <2>1. n \in T /\ T \subseteq Nat
    BY UpToCounts
  <2>2. PICK m \in T : \A y \in T : m <= y
    BY <2>1, LeastOf
  <2>3. m # 0
    <3>1. 0 \notin T
      <4>1. Cardinality(UpTo(S, 0)) = 0
        BY UpToCounts, FS_EmptySet
      <4> QED
        BY <4>1
    <3> QED
      BY <2>2, <3>1
  <2>4. m - 1 \in Nat /\ m - 1 \notin T
    BY <2>2, <2>3
  <2>5. Cardinality(UpTo(S, m - 1)) < k /\ Cardinality(UpTo(S, m - 1)) \in Nat
    <3>1. Cardinality(UpTo(S, m - 1)) \in Nat
      BY <2>4, UpToCounts
    <3> QED
      BY <2>4, <3>1
  <2>6. m \in S /\ Cardinality(UpTo(S, m)) = k
    <3>1. m \in Nat \ {0} /\ Cardinality(UpTo(S, m)) >= k
      BY <2>2, <2>3
    <3>2. Cardinality(UpTo(S, m)) = Cardinality(UpTo(S, m - 1)) + (IF m \in S THEN 1 ELSE 0)
      BY <3>1, UpToCounts
    <3> QED
      BY <2>5, <3>1, <3>2
  <2> QED
    BY <2>6, Zenon DEF Nth
<1>2. ASSUME NEW i \in S
      PROVE  /\ Cardinality(UpTo(S, i)) \in 1 .. Cardinality(S)
             /\ Nth(S, Cardinality(UpTo(S, i))) = i
  <2> DEFINE k == Cardinality(UpTo(S, i))
  <2>1. i \in Nat \ {0} /\ i - 1 \in Nat
    OBVIOUS
  <2>2. k \in 1 .. Cardinality(S)
    <3>1. k = Cardinality(UpTo(S, i - 1)) + 1 /\ Cardinality(UpTo(S, i - 1)) \in Nat
      <4>1. \A m \in Nat \ {0} :
                Cardinality(UpTo(S, m)) =
                    Cardinality(UpTo(S, m - 1)) + (IF m \in S THEN 1 ELSE 0)
        BY UpToCounts
      <4>2. k = Cardinality(UpTo(S, i - 1)) + 1
        BY <2>1, <4>1, Zenon
      <4>3. Cardinality(UpTo(S, i - 1)) \in Nat
        BY <2>1, UpToCounts
      <4> QED
        BY <4>2, <4>3
    <3>2. k <= Cardinality(S) /\ Cardinality(S) \in Nat
      BY <2>1, UpToCounts
    <3> HIDE DEF k
    <3> QED
      BY <3>1, <3>2
  <2>3. Nth(S, k) \in S /\ Cardinality(UpTo(S, Nth(S, k))) = k
    BY <1>1, <2>2
  <2>4. ~ (Nth(S, k) < i) /\ ~ (i < Nth(S, k))
    <3>1. k \in Nat
      BY <2>2
    <3> HIDE DEF k
    <3>2. Nth(S, k) < i => Cardinality(UpTo(S, Nth(S, k))) < Cardinality(UpTo(S, i))
      BY <2>3, UpToMonotone
    <3>3. i < Nth(S, k) => Cardinality(UpTo(S, i)) < Cardinality(UpTo(S, Nth(S, k)))
      BY <2>3, UpToMonotone
    <3> QED
      BY <2>3, <3>1, <3>2, <3>3 DEF k
  <2>5. Nth(S, k) \in Int /\ i \in Int
    <3>1. S \subseteq Int
      OBVIOUS
    <3> QED
      BY <2>3, <3>1
  <2>6. Nth(S, k) = i
    BY <2>4, <2>5
  <2> QED
    BY <2>2, <2>6
<1> QED
  BY <1>1, <1>2

LEMMA OfTwo ==
    ASSUME NEW a \in Int, NEW b \in Int
    PROVE  /\ Max({a, b}) = IF a >= b THEN a ELSE b
           /\ Min({a, b}) = IF a <= b THEN a ELSE b
<1>1. CASE a >= b
  <2>1. /\ a \in {a, b} /\ \A y \in {a, b} : a >= y
        /\ b \in {a, b} /\ \A y \in {a, b} : b <= y
    BY <1>1
  <2>2. /\ Max({a, b}) \in {a, b} /\ \A y \in {a, b} : Max({a, b}) >= y
        /\ Min({a, b}) \in {a, b} /\ \A y \in {a, b} : Min({a, b}) <= y
    BY <2>1, Zenon DEF Max, Min
  <2> QED
    BY <1>1, <2>2
<1>2. CASE a < b
  <2>1. /\ b \in {a, b} /\ \A y \in {a, b} : b >= y
        /\ a \in {a, b} /\ \A y \in {a, b} : a <= y
    BY <1>2
  <2>2. /\ Max({a, b}) \in {a, b} /\ \A y \in {a, b} : Max({a, b}) >= y
        /\ Min({a, b}) \in {a, b} /\ \A y \in {a, b} : Min({a, b}) <= y
    BY <2>1, Zenon DEF Max, Min
  <2> QED
    BY <1>2, <2>2
<1> QED
  BY <1>1, <1>2

(* What a shifted set counts.                                              *)
LEMMA ShiftCounts ==
    ASSUME NEW n \in Nat, NEW f \in 0 .. n, NEW S \in SUBSET (1 .. n),
           NEW T \in SUBSET (1 .. n - f),
           \A i \in 1 .. n - f : i \in T <=> f + i \in S
    PROVE  /\ \A i \in 0 .. n - f :
                Cardinality(UpTo(T, i)) = Cardinality(UpTo(S, f + i)) - Cardinality(UpTo(S, f))
           /\ Cardinality(T) = Cardinality(S) - Cardinality(UpTo(S, f))
<1> DEFINE C(U, i) == Cardinality(UpTo(U, i))
           Bad == {i \in 0 .. n - f : C(T, i) # C(S, f + i) - C(S, f)}
<1>0. n - f \in Nat /\ f \in Nat
  OBVIOUS
<1>1. Bad = {}
  <2> SUFFICES ASSUME Bad # {}
               PROVE  FALSE
    OBVIOUS
  <2>1. Bad \in SUBSET Nat
    BY <1>0
  <2>2. PICK i \in Bad : \A y \in Bad : i <= y
    BY <2>1, LeastOf
  <2>3. i # 0
    <3>1. C(T, 0) = 0
      BY <1>0, UpToCounts, FS_EmptySet
    <3>2. C(S, f) \in Nat
      BY <1>0, UpToCounts
    <3> QED
      BY <2>2, <3>1, <3>2
  <2>4. i \in Nat \ {0} /\ i - 1 \in Nat /\ f + i \in Nat \ {0} /\ i \in 1 .. n - f
    BY <1>0, <2>2, <2>3
  <2>5. C(T, i - 1) = C(S, f + (i - 1)) - C(S, f)
    <3>1. i - 1 \notin Bad /\ i - 1 \in 0 .. n - f
      BY <2>2, <2>4
    <3> QED
      BY <3>1
  <2>6. C(T, i) = C(T, i - 1) + (IF i \in T THEN 1 ELSE 0)
    BY <1>0, <2>4, UpToCounts
  <2>7. C(S, f + i) = C(S, (f + i) - 1) + (IF f + i \in S THEN 1 ELSE 0)
    BY <2>4, UpToCounts
  <2>8. C(T, i - 1) \in Nat /\ C(S, f + (i - 1)) \in Nat /\ C(S, f) \in Nat
    <3>1. \A j \in Nat : C(S, j) \in Nat
      BY UpToCounts
    <3>2. \A j \in Nat : C(T, j) \in Nat
      BY <1>0, UpToCounts
    <3>3. f + (i - 1) \in Nat
      BY <1>0, <2>4
    <3> HIDE DEF C
    <3> QED
      BY <1>0, <2>4, <3>1, <3>2, <3>3
  <2>9. (f + i) - 1 = f + (i - 1)
    BY <1>0, <2>4
  <2>10. C(T, i) = C(S, f + i) - C(S, f)
    <3> HIDE DEF C
    <3> QED
      BY <2>4, <2>5, <2>6, <2>7, <2>8, <2>9
  <2> QED
    BY <2>2, <2>10
<1>2. \A i \in 0 .. n - f : C(T, i) = C(S, f + i) - C(S, f)
  BY <1>1
<1>3. Cardinality(T) = Cardinality(S) - C(S, f)
  <2>1. UpTo(T, n - f) = T /\ UpTo(S, n) = S
    BY <1>0, UpToCounts
  <2>2. f + (n - f) = n /\ n - f \in 0 .. n - f
    BY <1>0
  <2>3. C(T, n - f) = C(S, f + (n - f)) - C(S, f)
    BY <1>2, <2>2
  <2> QED
    BY <2>1, <2>2, <2>3
<1> QED
  BY <1>2, <1>3

------------------------------------------------------------------------------
(* Parsing.                                                                *)

Bytes == Entries \X (1 .. 4)

(* ParsesAt, byte for byte.                                                *)
WholeAt(bytes, i) ==
    /\ i \in 1 .. Len(bytes) /\ i + 2 <= Len(bytes)
    /\ i = 1 \/ bytes[i - 1][2] = 4
    /\ bytes[i][2] = 1
    /\ bytes[i + 1] = <<bytes[i][1], 2>> /\ bytes[i + 2] = <<bytes[i][1], 3>>
    /\ i + 3 <= Len(bytes) => bytes[i + 3][2] = 4

LEMMA ParsesWhole ==
    ASSUME NEW bytes \in Seq(Bytes), NEW i \in 1 .. Len(bytes)
    PROVE  ParsesAt(bytes, i) <=> WholeAt(bytes, i)
<1>0. Len(bytes) \in Nat /\ DOMAIN bytes = 1 .. Len(bytes)
  BY LenProperties
<1>1. \A j \in 1 .. Len(bytes) : bytes[j] \in Bytes /\ bytes[j] = <<bytes[j][1], bytes[j][2]>>
  <2>1. \A j \in 1 .. Len(bytes) : bytes[j] \in Bytes
    BY ElementOfSeq
  <2> QED
    BY <2>1 DEF Bytes
<1> DEFINE e == bytes[i][1]
           L == SubSeq(Line(e), 1, 3)
           B == SubSeq(bytes, i, i + 2)
<1>2. e \in Entries
  BY <1>1 DEF Bytes
<1>3. /\ L \in Seq(Bytes) /\ Len(L) = 3
      /\ L[1] = <<e, 1>> /\ L[2] = <<e, 2>> /\ L[3] = <<e, 3>>
  <2>1. /\ Line(e)[1] = <<e, 1>> /\ Line(e)[2] = <<e, 2>> /\ Line(e)[3] = <<e, 3>>
    BY DEF Line
  <2>2. \A j \in 1 .. 3 : Line(e)[j] \in Bytes
    <3>1. \A k \in 1 .. 4 : <<e, k>> \in Bytes
      BY <1>2 DEF Bytes
    <3>2. \A j \in 1 .. 3 : j \in 1 .. 4 /\ (j = 1 \/ j = 2 \/ j = 3)
      OBVIOUS
    <3> QED
      BY <2>1, <3>1, <3>2, Zenon
  <2> QED
    BY <2>1, <2>2, SubSeqProperties
<1>4. CASE i + 2 <= Len(bytes)
  <2>1. \A j \in i .. i + 2 : bytes[j] \in Bytes
    BY <1>0, <1>1, <1>4
  <2>2. B \in Seq(Bytes) /\ Len(B) = 3 /\ \A j \in 1 .. 3 : B[j] = bytes[i + j - 1]
    BY <2>1, SubSeqProperties
  <2>3. B[1] = bytes[i] /\ B[2] = bytes[i + 1] /\ B[3] = bytes[i + 2]
    BY <2>2
  <2>4. B = L <=> B[1] = L[1] /\ B[2] = L[2] /\ B[3] = L[3]
    <3>1. \A j \in 1 .. 3 : j = 1 \/ j = 2 \/ j = 3
      OBVIOUS
    <3>2. B[1] = L[1] /\ B[2] = L[2] /\ B[3] = L[3] => \A j \in 1 .. Len(B) : B[j] = L[j]
      BY <2>2, <3>1
    <3> HIDE DEF B, L
    <3> QED
      BY <1>3, <2>2, <3>2, SeqEqual
  <2>5. B = L <=> /\ bytes[i][2] = 1
                  /\ bytes[i + 1] = <<e, 2>> /\ bytes[i + 2] = <<e, 3>>
    <3>1. bytes[i] = <<e, 1>> <=> bytes[i][2] = 1
      BY <1>1
    <3> HIDE DEF B, L, e
    <3> QED
      BY <1>3, <2>3, <2>4, <3>1
  <2>6. i + 2 \in DOMAIN bytes /\ (i + 3 \in DOMAIN bytes <=> i + 3 <= Len(bytes))
    BY <1>0, <1>4
  <2> HIDE DEF B, L, e
  <2> QED
    BY <1>0, <1>4, <2>5, <2>6 DEF ParsesAt, WholeAt, LineFeed, B, L, e
<1>5. CASE ~ (i + 2 <= Len(bytes))
  BY <1>0, <1>5 DEF ParsesAt, WholeAt
<1> QED
  BY <1>4, <1>5

LEMMA StartsAre ==
    ASSUME NEW bytes \in Seq(Bytes)
    PROVE  /\ Starts(bytes) \in SUBSET (1 .. Len(bytes))
           /\ \A i \in 1 .. Len(bytes) : i \in Starts(bytes) <=> WholeAt(bytes, i)
  BY LenProperties, ParsesWhole DEF Starts

(* The entries of a log, and which they are.                               *)
LEMMA ParsedAre ==
    ASSUME NEW bytes \in Seq(Bytes)
    PROVE  LET es == ParseEntries(bytes)
               S == Starts(bytes)
           IN  /\ es \in Seq(Entries) /\ Len(es) = Cardinality(S) /\ Len(es) \in Nat
               /\ \A k \in 1 .. Len(es) : es[k] = bytes[Nth(S, k)][1]
               /\ ToSet(es) = {bytes[i][1] : i \in S}
<1> DEFINE S == Starts(bytes)
           c == Cardinality(S)
           es == ParseEntries(bytes)
<1>0. Len(bytes) \in Nat /\ S \in SUBSET (1 .. Len(bytes))
  BY LenProperties, StartsAre
<1>1. c \in Nat
  BY <1>0, UpToCounts
<1>2. \A k \in 1 .. c : Nth(S, k) \in S
  BY <1>0, NthIs
<1>3. \A i \in S : \E k \in 1 .. c : Nth(S, k) = i
  BY <1>0, NthIs
<1>4. \A i \in S : bytes[i][1] \in Entries
  <2>1. \A i \in S : bytes[i] \in Bytes
    BY <1>0, ElementOfSeq
  <2> QED
    BY <2>1 DEF Bytes
<1>5. es = [k \in 1 .. c |-> bytes[Nth(S, k)][1]]
  BY Zenon DEF ParseEntries
<1> HIDE DEF S, c, es
<1>6. es \in Seq(Entries) /\ Len(es) = c /\ DOMAIN es = 1 .. c
  BY <1>1, <1>2, <1>4, <1>5
<1>7. ToSet(es) = {bytes[i][1] : i \in S}
  <2>1. \A k \in 1 .. c : es[k] \in {bytes[i][1] : i \in S}
    BY <1>2, <1>5
  <2>2. \A i \in S : \E k \in 1 .. c : es[k] = bytes[i][1]
    BY <1>3, <1>5
  <2>3. ToSet(es) = {es[k] : k \in 1 .. c}
    BY <1>6, Zenon DEF ToSet
  <2> QED
    BY <2>1, <2>2, <2>3
<1> QED
  BY <1>1, <1>5, <1>6, <1>7 DEF S, c, es

------------------------------------------------------------------------------
(* The summary.                                                            *)

(* The aggregate of a set of entries, its buckets, and the three views.    *)
AggregateOf(es) == [runs     |-> Cardinality(es),
                    failures |-> Cardinality(es \cap Failed),
                    last     |-> Max(es \cup {0})]
BucketsOf(Of, es) ==
    [k \in {Of[e] : e \in es} |-> AggregateOf({e \in es : Of[e] = k})]
ViewsOf(es) == [totals  |-> AggregateOf(es),
                jobs    |-> BucketsOf(JobOf, es),
                servers |-> BucketsOf(ServerOf, es)]

LEMMA EntriesAreFew ==
    /\ IsFiniteSet(Entries)
    /\ \A es \in SUBSET Entries :
        /\ IsFiniteSet(es) /\ Cardinality(es) \in Nat
        /\ Max(es \cup {0}) \in Nat
        /\ \A e \in es : e <= Max(es \cup {0})
        /\ Max(es \cup {0}) \in es \cup {0}
<1>1. IsFiniteSet(Entries) /\ MaxEntries \in Nat
  BY FS_Interval, HistoryAssumption DEF Entries
<1>2. ASSUME NEW es \in SUBSET Entries
      PROVE  /\ IsFiniteSet(es) /\ Cardinality(es) \in Nat
             /\ Max(es \cup {0}) \in Nat
             /\ \A e \in es : e <= Max(es \cup {0})
             /\ Max(es \cup {0}) \in es \cup {0}
  <2>1. IsFiniteSet(es) /\ Cardinality(es) \in Nat
    BY <1>1, FS_Subset, FS_CardinalityType, Zenon
  <2>2. es \cup {0} \in SUBSET (0 .. MaxEntries) /\ es \cup {0} # {}
    BY <1>1 DEF Entries
  <2>3. Max(es \cup {0}) \in es \cup {0} /\ \A x \in es \cup {0} : x <= Max(es \cup {0})
    BY <1>1, <2>2, GreatestOf
  <2> QED
    BY <2>1, <2>2, <2>3
<1> QED
  BY <1>1, <1>2

LEMMA AggregateGrows ==
    ASSUME NEW es \in SUBSET Entries, NEW e \in Entries \ es
    PROVE  Accumulate(AggregateOf(es), e) = AggregateOf(es \cup {e})
<1>1. /\ IsFiniteSet(es) /\ Cardinality(es) \in Nat
      /\ IsFiniteSet(es \cap Failed) /\ Cardinality(es \cap Failed) \in Nat
      /\ es \cup {e} \in SUBSET Entries
  BY EntriesAreFew
<1>2. Cardinality(es \cup {e}) = Cardinality(es) + 1
  BY <1>1, FS_AddElement, Zenon
<1>3. Cardinality((es \cup {e}) \cap Failed)
        = Cardinality(es \cap Failed) + (IF e \in Failed THEN 1 ELSE 0)
  <2>1. CASE e \in Failed
    <3>1. (es \cup {e}) \cap Failed = (es \cap Failed) \cup {e} /\ e \notin es \cap Failed
      BY <2>1
    <3>2. Cardinality((es \cap Failed) \cup {e}) = Cardinality(es \cap Failed) + 1
      BY <1>1, <3>1, FS_AddElement, Zenon
    <3> QED
      BY <2>1, <3>1, <3>2
  <2>2. CASE e \notin Failed
    <3>1. (es \cup {e}) \cap Failed = es \cap Failed
      BY <2>2
    <3> QED
      BY <1>1, <2>2, <3>1
  <2> QED
    BY <2>1, <2>2
<1>4. Max({Max(es \cup {0}), e}) = Max(es \cup {e} \cup {0})
  <2> DEFINE m == Max(es \cup {0})
             M == Max(es \cup {e} \cup {0})
  <2>1. m \in Nat /\ m \in es \cup {0} /\ \A x \in es : x <= m
    BY EntriesAreFew
  <2>2. M \in Nat /\ M \in es \cup {e} \cup {0} /\ \A x \in es \cup {e} : x <= M
    BY <1>1, EntriesAreFew
  <2>3. e \in Int /\ e > 0 /\ \A x \in es : x \in Int
    BY DEF Entries
  <2> HIDE DEF m, M
  <2>4. Max({m, e}) = IF m >= e THEN m ELSE e
    BY <2>1, <2>3, OfTwo
  <2> QED
    BY <2>1, <2>2, <2>3, <2>4 DEF m, M
<1> QED
  BY <1>2, <1>3, <1>4 DEF Accumulate, AggregateOf

LEMMA BucketsGrow ==
    ASSUME NEW Of, NEW es \in SUBSET Entries, NEW e \in Entries \ es
    PROVE  AccumulateAt(BucketsOf(Of, es), Of[e], e) = BucketsOf(Of, es \cup {e})
<1> DEFINE B == BucketsOf(Of, es)
           k == Of[e]
           In(s, n) == {x \in s : Of[x] = n}
           D == {Of[x] : x \in es}
<1>1. DOMAIN B = D /\ \A n \in D : B[n] = AggregateOf(In(es, n))
  BY DEF BucketsOf
<1>2. {Of[x] : x \in es \cup {e}} = D \cup {k}
  OBVIOUS
<1>3. \A n \in D : n # k => In(es \cup {e}, n) = In(es, n)
  OBVIOUS
<1>4. In(es \cup {e}, k) = In(es, k) \cup {e} /\ In(es, k) \in SUBSET Entries /\ e \notin In(es, k)
  OBVIOUS
<1>5. Accumulate(AggregateOf(In(es, k)), e) = AggregateOf(In(es \cup {e}, k))
  BY <1>4, AggregateGrows
<1>6. k \notin D => AggregateOf(In(es, k)) = NewAggregate
  <2>1. k \notin D => In(es, k) = {}
    OBVIOUS
  <2>2. AggregateOf({}) = NewAggregate
    <3>1. Cardinality({}) = 0 /\ {} \cap Failed = {}
      BY FS_EmptySet
    <3>2. Max({} \cup {0}) \in {} \cup {0}
      BY EntriesAreFew
    <3> QED
      BY <3>1, <3>2 DEF AggregateOf, NewAggregate
  <2> QED
    BY <2>1, <2>2
<1>7. (IF k \in DOMAIN B THEN B[k] ELSE NewAggregate) = AggregateOf(In(es, k))
  BY <1>1, <1>6
<1>8. AccumulateAt(B, k, e) =
        [n \in D \cup {k} |-> IF n # k THEN B[n] ELSE AggregateOf(In(es \cup {e}, k))]
  BY <1>1, <1>5, <1>7, Zenon DEF AccumulateAt
<1>9. BucketsOf(Of, es \cup {e}) = [n \in D \cup {k} |-> AggregateOf(In(es \cup {e}, n))]
  BY <1>2, Zenon DEF BucketsOf
<1>10. \A n \in D \cup {k} :
        (IF n # k THEN B[n] ELSE AggregateOf(In(es \cup {e}, k))) = AggregateOf(In(es \cup {e}, n))
  <2>1. \A n \in D : n # k => B[n] = AggregateOf(In(es \cup {e}, n))
    BY <1>1, <1>3, Zenon
  <2> QED
    BY <2>1, Zenon
<1> HIDE DEF B, k, D, In
<1> QED
  BY <1>8, <1>9, <1>10 DEF B, k

LEMMA NothingYet == ViewsOf({}) = Nothing
<1>1. AggregateOf({}) = NewAggregate
  <2>1. Cardinality({}) = 0 /\ {} \cap Failed = {}
    BY FS_EmptySet
  <2>2. Max({} \cup {0}) \in {} \cup {0}
    BY EntriesAreFew
  <2> QED
    BY <2>1, <2>2 DEF AggregateOf, NewAggregate
<1>2. ASSUME NEW Of
      PROVE  BucketsOf(Of, {}) = << >>
  <2>1. {Of[e] : e \in {}} = {}
    OBVIOUS
  <2>2. BucketsOf(Of, {}) = [k \in {} |-> AggregateOf({e \in {} : Of[e] = k})]
    BY <2>1, Zenon DEF BucketsOf
  <2> QED
    BY <2>2
<1> QED
  BY <1>1, <1>2 DEF ViewsOf, Nothing

(* _summarize_entries: the summary of entries that differ is that of the   *)
(* set of them, in whatever order they are read.                           *)
LEMMA SummaryIsOfTheSet ==
    ASSUME NEW es \in Seq(Entries), IsInjective(es)
    PROVE  Summarize(es) = ViewsOf(ToSet(es))
<1> DEFINE N == Len(es)
           First(n) == {es[i] : i \in 1 .. n}
           G(f) == [n \in 0 .. N |-> IF n = 0 THEN Nothing ELSE Include(f[n - 1], es[n])]
           V == [n \in 0 .. N |-> ViewsOf(First(n))]
           A == CHOOSE f : f = G(f)
<1>1. N \in Nat /\ DOMAIN es = 1 .. N /\ \A i \in 1 .. N : es[i] \in Entries
  BY LenProperties, ElementOfSeq
<1>2. ASSUME NEW n \in 1 .. N
      PROVE  Include(ViewsOf(First(n - 1)), es[n]) = ViewsOf(First(n))
  <2>1. First(n - 1) \in SUBSET Entries
    BY <1>1
  <2>2. es[n] \in Entries \ First(n - 1)
    <3>1. \A i \in 1 .. n - 1 : i \in DOMAIN es /\ n \in DOMAIN es /\ i # n
      BY <1>1
    <3>2. \A i \in 1 .. n - 1 : es[i] # es[n]
      BY <3>1 DEF IsInjective
    <3> QED
      BY <1>1, <3>2
  <2>3. First(n) = First(n - 1) \cup {es[n]}
    <3>1. \A i : i \in 1 .. n <=> i \in 1 .. n - 1 \/ i = n
      BY <1>1
    <3> QED
      BY <3>1
  <2> HIDE DEF First
  <2>4. /\ Accumulate(AggregateOf(First(n - 1)), es[n]) = AggregateOf(First(n))
        /\ AccumulateAt(BucketsOf(JobOf, First(n - 1)), JobOf[es[n]], es[n])
             = BucketsOf(JobOf, First(n))
        /\ AccumulateAt(BucketsOf(ServerOf, First(n - 1)), ServerOf[es[n]], es[n])
             = BucketsOf(ServerOf, First(n))
    BY <2>1, <2>2, <2>3, AggregateGrows, BucketsGrow
  <2> QED
    BY <2>4 DEF Include, ViewsOf
<1>3. First(0) = {} /\ First(N) = ToSet(es)
  BY <1>1 DEF ToSet
<1>4. V = G(V)
  <2>1. ASSUME NEW n \in 0 .. N
        PROVE  V[n] = IF n = 0 THEN Nothing ELSE Include(V[n - 1], es[n])
    <3>1. CASE n = 0
      BY <1>3, <3>1, NothingYet
    <3>2. CASE n # 0
      <4>1. n \in 1 .. N /\ n - 1 \in 0 .. N
        BY <1>1, <3>2
      <4> HIDE DEF First
      <4>2. V[n] = ViewsOf(First(n)) /\ V[n - 1] = ViewsOf(First(n - 1))
        BY <4>1
      <4> QED
        BY <1>2, <3>2, <4>1, <4>2
    <3> QED
      BY <3>1, <3>2
  <2> HIDE DEF First
  <2> QED
    BY <2>1
<1>5. A = G(A)
  <2> HIDE DEF G, V
  <2> QED
    BY <1>4, Zenon
<1>6. \A n \in 0 .. N : A[n] = ViewsOf(First(n))
  <2> DEFINE Bad == {n \in 0 .. N : A[n] # ViewsOf(First(n))}
  <2> SUFFICES ASSUME Bad # {}
               PROVE  FALSE
    OBVIOUS
  <2>1. Bad \in SUBSET Nat
    BY <1>1
  <2>2. PICK n \in Bad : \A y \in Bad : n <= y
    BY <2>1, LeastOf
  <2> HIDE DEF A
  <2>3. \A i \in 0 .. N : A[i] = IF i = 0 THEN Nothing ELSE Include(A[i - 1], es[i])
    BY <1>5, Zenon
  <2>4. CASE n = 0
    BY <1>3, <2>2, <2>3, <2>4, NothingYet
  <2>5. CASE n # 0
    <3>1. n \in 1 .. N /\ n - 1 \in 0 .. N /\ n \in 0 .. N /\ n - 1 \notin Bad
      BY <1>1, <2>2, <2>5
    <3>2. A[n - 1] = ViewsOf(First(n - 1))
      BY <3>1
    <3>3. A[n] = Include(A[n - 1], es[n])
      BY <2>3, <2>5, <3>1
    <3>4. A[n] = ViewsOf(First(n))
      BY <1>2, <3>1, <3>2, <3>3, Zenon
    <3> QED
      BY <2>2, <3>4
  <2> QED
    BY <2>4, <2>5
<1>7. Summarize(es) = A[N]
  BY Zenon DEF Summarize
<1>8. N \in 0 .. N
  BY <1>1
<1> HIDE DEF A, First
<1> QED
  BY <1>3, <1>6, <1>7, <1>8, Zenon

LEMMA ViewsAddUp ==
    ASSUME NEW es \in SUBSET Entries
    PROVE  LET s == ViewsOf(es) IN
           /\ IsOf(s.totals, es) /\ AreBy(s.jobs, JobOf, es) /\ AreBy(s.servers, ServerOf, es)
<1>1. \A S : IsOf(AggregateOf(S), S)
  BY DEF IsOf, AggregateOf
<1>2. ASSUME NEW Of
      PROVE  AreBy(BucketsOf(Of, es), Of, es)
  BY <1>1, Zenon DEF AreBy, BucketsOf
<1>3. /\ ViewsOf(es).totals = AggregateOf(es)
      /\ ViewsOf(es).jobs = BucketsOf(JobOf, es)
      /\ ViewsOf(es).servers = BucketsOf(ServerOf, es)
  BY DEF ViewsOf
<1> QED
  BY <1>1, <1>2, <1>3

------------------------------------------------------------------------------
(* The tail.                                                               *)

(* Suffixes.                                                               *)
LEMMA SuffixIs ==
    ASSUME NEW S, NEW s \in Seq(S), NEW m \in 0 .. Len(s)
    PROVE  LET t == SubSeq(s, (Len(s) - m) + 1, Len(s)) IN
           /\ t \in Seq(S) /\ Len(t) = m
           /\ \A i \in 1 .. m : t[i] = s[(Len(s) - m) + i]
           /\ IsSuffix(t, s)
<1> DEFINE N == Len(s)
           t == SubSeq(s, (N - m) + 1, N)
<1>1. N \in Nat /\ m \in Nat /\ m <= N /\ \A i \in 1 .. N : s[i] \in S
  BY LenProperties, ElementOfSeq
<1>2. t \in Seq(S) /\ Len(t) = m /\ \A i \in 1 .. m : t[i] = s[(N - m) + i]
  <2>1. \A i \in (N - m) + 1 .. N : s[i] \in S
    BY <1>1
  <2>2. (N - m) + 1 \in Int /\ N \in Int
    BY <1>1
  <2>3. /\ t \in Seq(S) /\ Len(t) = IF (N - m) + 1 <= N THEN (N - ((N - m) + 1)) + 1 ELSE 0
        /\ \A i \in 1 .. (N - ((N - m) + 1)) + 1 : t[i] = s[(((N - m) + 1) + i) - 1]
    <3> HIDE DEF N
    <3> QED
      BY <2>1, <2>2, SubSeqProperties
  <2> HIDE DEF N, t
  <2>4. (N - ((N - m) + 1)) + 1 = m
    BY <1>1
  <2>5. Len(t) = m
    BY <1>1, <2>3
  <2>6. \A i \in 1 .. m : (((N - m) + 1) + i) - 1 = (N - m) + i
    BY <1>1
  <2> QED
    BY <2>3, <2>4, <2>5, <2>6
<1> HIDE DEF t
<1>3. /\ Reverse(s) \in Seq(S) /\ Len(Reverse(s)) = N
      /\ \A i \in 1 .. N : Reverse(s)[i] = s[(N - i) + 1]
  <2>1. \A i \in 1 .. N : s[(N - i) + 1] \in S
    BY <1>1
  <2> QED
    BY <1>1, <2>1 DEF Reverse
<1>4. /\ Reverse(t) \in Seq(S) /\ Len(Reverse(t)) = m
      /\ \A i \in 1 .. m : Reverse(t)[i] = t[(m - i) + 1]
  <2>1. \A i \in 1 .. m : t[(m - i) + 1] \in S
    BY <1>1, <1>2
  <2>2. Reverse(t) = [i \in 1 .. m |-> t[(m - i) + 1]]
    BY <1>2 DEF Reverse
  <2> QED
    BY <1>1, <2>1, <2>2
<1>5. /\ SubSeq(Reverse(t), 1, m) \in Seq(S) /\ Len(SubSeq(Reverse(t), 1, m)) = m
      /\ \A i \in 1 .. m : SubSeq(Reverse(t), 1, m)[i] = Reverse(t)[i]
  <2>1. \A i \in 1 .. m : Reverse(t)[i] \in S
    BY <1>4, ElementOfSeq
  <2> QED
    BY <1>1, <2>1, SubSeqProperties
<1>6. /\ SubSeq(Reverse(s), 1, m) \in Seq(S) /\ Len(SubSeq(Reverse(s), 1, m)) = m
      /\ \A i \in 1 .. m : SubSeq(Reverse(s), 1, m)[i] = Reverse(s)[i]
  <2>1. \A i \in 1 .. m : Reverse(s)[i] \in S
    <3>1. \A i \in 1 .. m : i \in 1 .. Len(Reverse(s))
      BY <1>1, <1>3
    <3> QED
      BY <1>3, <3>1, ElementOfSeq
  <2> QED
    BY <1>1, <2>1, SubSeqProperties
<1>7. \A i \in 1 .. m : Reverse(t)[i] = Reverse(s)[i]
  <2>1. \A i \in 1 .. m : /\ (m - i) + 1 \in 1 .. m /\ i \in 1 .. N
                          /\ (N - m) + ((m - i) + 1) = (N - i) + 1
    BY <1>1
  <2>2. ASSUME NEW i \in 1 .. m
        PROVE  Reverse(t)[i] = Reverse(s)[i]
    <3>1. t[(m - i) + 1] = s[(N - m) + ((m - i) + 1)]
      BY <1>2, <2>1
    <3>2. Reverse(t)[i] = t[(m - i) + 1] /\ Reverse(s)[i] = s[(N - i) + 1]
      BY <1>3, <1>4, <2>1
    <3> QED
      BY <2>1, <3>1, <3>2
  <2> QED
    BY <2>2
<1>8. SubSeq(Reverse(t), 1, m) = SubSeq(Reverse(s), 1, m)
  BY <1>5, <1>6, <1>7, SeqEqual
<1>9. IsSuffix(t, s)
  BY <1>1, <1>3, <1>4, <1>8 DEF IsSuffix, IsPrefix
<1> QED
  BY <1>2, <1>9 DEF t

(* A read that begins behind a line feed parses what the whole log does.   *)
LEMMA TailParses ==
    ASSUME NEW bytes \in Seq(Bytes), NEW f \in 0 .. Len(bytes),
           f = 0 \/ bytes[f][2] = 4
    PROVE  LET tail == SubSeq(bytes, f + 1, Len(bytes)) IN
           /\ tail \in Seq(Bytes) /\ Len(tail) = Len(bytes) - f
           /\ \A i \in 1 .. Len(bytes) - f : tail[i] = bytes[f + i]
           /\ \A i \in 1 .. Len(bytes) - f : i \in Starts(tail) <=> f + i \in Starts(bytes)
<1> DEFINE N == Len(bytes)
           tail == SubSeq(bytes, f + 1, N)
<1>1. N \in Nat /\ f \in Nat /\ f <= N /\ \A i \in 1 .. N : bytes[i] \in Bytes
  BY LenProperties, ElementOfSeq
<1>2. tail \in Seq(Bytes) /\ Len(tail) = N - f /\ \A i \in 1 .. N - f : tail[i] = bytes[f + i]
  <2> DEFINE m == N - f
  <2>1. m \in 0 .. N /\ (N - m) + 1 = f + 1 /\ \A i \in 1 .. m : (N - m) + i = f + i
    BY <1>1
  <2> HIDE DEF m
  <2>2. LET t == SubSeq(bytes, (N - m) + 1, N) IN
           /\ t \in Seq(Bytes) /\ Len(t) = m
           /\ \A i \in 1 .. m : t[i] = bytes[(N - m) + i]
    BY <2>1, SuffixIs
  <2> QED
    BY <2>1, <2>2 DEF m
<1> HIDE DEF tail
<1>3. ASSUME NEW i \in 1 .. N - f
      PROVE  i \in Starts(tail) <=> f + i \in Starts(bytes)
  <2>1. i \in 1 .. Len(tail) /\ f + i \in 1 .. N
    BY <1>1, <1>2
  <2>2. WholeAt(tail, i) <=> WholeAt(bytes, f + i)
    <3>1. CASE ~ (i + 2 <= N - f)
      BY <1>1, <1>2, <3>1 DEF WholeAt
    <3>2. CASE i + 2 <= N - f
      <4>1. /\ tail[i] = bytes[f + i] /\ tail[i + 1] = bytes[(f + i) + 1]
            /\ tail[i + 2] = bytes[(f + i) + 2]
            /\ i + 3 <= N - f => tail[i + 3] = bytes[(f + i) + 3]
            /\ i # 1 => tail[i - 1] = bytes[(f + i) - 1]
            /\ i = 1 => (f + i) - 1 = f
        <5>1. /\ i \in 1 .. N - f /\ i + 1 \in 1 .. N - f /\ i + 2 \in 1 .. N - f
              /\ i + 3 <= N - f => i + 3 \in 1 .. N - f
              /\ i # 1 => i - 1 \in 1 .. N - f
          BY <1>1, <3>2
        <5>2. /\ f + (i + 1) = (f + i) + 1 /\ f + (i + 2) = (f + i) + 2
              /\ f + (i + 3) = (f + i) + 3 /\ f + (i - 1) = (f + i) - 1
          BY <1>1
        <5>3. i = 1 => (f + i) - 1 = f
          BY <1>1
        <5>4. \A j \in 1 .. N - f : tail[j] = bytes[f + j]
          BY <1>2
        <5> QED
          BY <5>1, <5>2, <5>3, <5>4
      <4>2. /\ f + i \in 1 .. N /\ (f + i) + 2 <= N
            /\ (i + 3 <= N - f <=> (f + i) + 3 <= N)
            /\ f + i = 1 => f = 0 /\ i = 1
            /\ i = 1 /\ f = 0 => f + i = 1
        BY <1>1, <3>2
      <4>3. i \in 1 .. Len(tail) /\ i + 2 <= Len(tail) /\ (i + 3 <= Len(tail) <=> i + 3 <= N - f)
        BY <1>2, <3>2
      <4> QED
        BY <4>1, <4>2, <4>3 DEF WholeAt
    <3> QED
      BY <3>1, <3>2
  <2> QED
    BY <1>2, <2>1, <2>2, StartsAre
<1> QED
  BY <1>2, <1>3 DEF tail

(* The entries of such a read are the last ones of the log.                *)
LEMMA TailEntriesAre ==
    ASSUME NEW bytes \in Seq(Bytes), NEW f \in 0 .. Len(bytes),
           f = 0 \/ bytes[f][2] = 4
    PROVE  LET all  == ParseEntries(bytes)
               tail == ParseEntries(SubSeq(bytes, f + 1, Len(bytes)))
               c    == Cardinality(UpTo(Starts(bytes), f))
           IN  /\ tail \in Seq(Entries) /\ c \in 0 .. Len(all)
               /\ Len(tail) = Len(all) - c
               /\ \A k \in 1 .. Len(tail) : tail[k] = all[c + k]
<1> DEFINE N == Len(bytes)
           rest == SubSeq(bytes, f + 1, N)
           S == Starts(bytes)
           T == Starts(rest)
           c == Cardinality(UpTo(S, f))
           all == ParseEntries(bytes)
           tail == ParseEntries(rest)
<1>1. N \in Nat /\ f \in Nat /\ f <= N /\ N - f \in Nat
  BY LenProperties
<1>2. /\ rest \in Seq(Bytes) /\ Len(rest) = N - f
      /\ \A i \in 1 .. N - f : rest[i] = bytes[f + i]
      /\ \A i \in 1 .. N - f : i \in T <=> f + i \in S
  BY TailParses
<1> HIDE DEF rest
<1>3. S \in SUBSET (1 .. N) /\ T \in SUBSET (1 .. N - f)
  BY <1>2, StartsAre
<1>4. /\ all \in Seq(Entries) /\ Len(all) = Cardinality(S) /\ Len(all) \in Nat
      /\ \A k \in 1 .. Len(all) : all[k] = bytes[Nth(S, k)][1]
  BY ParsedAre
<1>5. /\ tail \in Seq(Entries) /\ Len(tail) = Cardinality(T) /\ Len(tail) \in Nat
      /\ \A k \in 1 .. Len(tail) : tail[k] = rest[Nth(T, k)][1]
  BY <1>2, ParsedAre
<1> HIDE DEF N, S, T, all, tail
<1>6. c \in 0 .. Len(all)
  <2>1. c \in Nat /\ c <= Cardinality(S)
    BY <1>1, <1>3, UpToCounts
  <2> HIDE DEF c
  <2> QED
    BY <1>4, <2>1
<1>7. /\ \A i \in 0 .. N - f : Cardinality(UpTo(T, i)) = Cardinality(UpTo(S, f + i)) - c
      /\ Cardinality(T) = Cardinality(S) - c
  BY <1>1, <1>2, <1>3, ShiftCounts DEF N
<1>8. ASSUME NEW k \in 1 .. Len(tail)
      PROVE  tail[k] = all[c + k]
  <2> DEFINE j == Nth(T, k)
  <2>1. j \in T /\ Cardinality(UpTo(T, j)) = k
    BY <1>1, <1>3, <1>5, NthIs
  <2>2. j \in 1 .. N - f /\ f + j \in S
    BY <1>2, <1>3, <2>1
  <2> HIDE DEF j
  <2>3. Cardinality(UpTo(S, f + j)) = c + k
    <3>1. j \in 0 .. N - f /\ f + j \in Nat
      BY <1>1, <2>2
    <3>2. k = Cardinality(UpTo(S, f + j)) - c
      BY <1>7, <2>1, <3>1
    <3>3. Cardinality(UpTo(S, f + j)) \in Nat
      BY <1>1, <1>3, <3>1, UpToCounts
    <3> HIDE DEF c
    <3> QED
      BY <1>4, <1>6, <3>2, <3>3
  <2>4. Nth(S, c + k) = f + j
    <3>1. \A i \in S : Nth(S, Cardinality(UpTo(S, i))) = i
      BY <1>1, <1>3, NthIs
    <3>2. Nth(S, Cardinality(UpTo(S, f + j))) = f + j
      BY <2>2, <3>1, Zenon
    <3> QED
      BY <2>3, <3>2, Zenon
  <2>5. c + k \in 1 .. Len(all)
    <3> HIDE DEF c
    <3> QED
      BY <1>4, <1>5, <1>6, <1>7
  <2> HIDE DEF c
  <2> QED
    BY <1>2, <1>4, <1>5, <2>2, <2>4, <2>5 DEF j
<1>9. Len(tail) = Len(all) - c
  BY <1>4, <1>5, <1>7
<1> QED
  BY <1>5, <1>6, <1>8, <1>9 DEF N, S, T, all, tail, rest

(* Keeping the last ones of what is left of a sequence.                    *)
LEMMA LastOfTail ==
    ASSUME NEW all \in Seq(Entries), NEW c \in 0 .. Len(all), NEW tail \in Seq(Entries),
           Len(tail) = Len(all) - c, \A k \in 1 .. Len(tail) : tail[k] = all[c + k],
           NEW limit \in Nat
    PROVE  /\ IsSuffix(LastN(tail, limit), all)
           /\ c = 0 \/ Len(all) - c >= limit => LastN(tail, limit) = LastN(all, limit)
<1> DEFINE L == Len(all)
           m == IF limit <= L - c THEN limit ELSE L - c
           M == IF limit <= L THEN limit ELSE L
           s == SubSeq(all, (L - m) + 1, L)
           t == SubSeq(tail, ((L - c) - m) + 1, L - c)
<1>1. L \in Nat /\ c \in Nat /\ c <= L /\ m \in 0 .. L - c /\ m \in 0 .. L /\ M \in 0 .. L
  BY LenProperties
<1>2. Min({limit, Len(tail)}) = m /\ Min({limit, L}) = M
  <2>1. Len(tail) = L - c /\ limit \in Int /\ L \in Int /\ L - c \in Int
    BY <1>1
  <2> HIDE DEF L
  <2>2. /\ Min({limit, L - c}) = IF limit <= L - c THEN limit ELSE L - c
        /\ Min({limit, L}) = IF limit <= L THEN limit ELSE L
    BY <2>1, OfTwo
  <2> QED
    BY <2>1, <2>2, Zenon
<1>3. LastN(tail, limit) = t /\ LastN(all, limit) = SubSeq(all, (L - M) + 1, L)
  BY <1>2, Zenon DEF LastN
<1> HIDE DEF m, M
<1>4. /\ s \in Seq(Entries) /\ Len(s) = m /\ IsSuffix(s, all)
      /\ \A i \in 1 .. m : s[i] = all[(L - m) + i]
  BY <1>1, SuffixIs
<1>5. /\ t \in Seq(Entries) /\ Len(t) = m
      /\ \A i \in 1 .. m : t[i] = tail[((L - c) - m) + i]
  <2>1. m \in 0 .. Len(tail)
    BY <1>1
  <2> QED
    BY <2>1, SuffixIs
<1> HIDE DEF L, s, t
<1>6. \A i \in 1 .. m : t[i] = s[i]
  <2>1. \A i \in 1 .. m : /\ ((L - c) - m) + i \in 1 .. L - c
                          /\ c + (((L - c) - m) + i) = (L - m) + i
    BY <1>1
  <2>2. \A k \in 1 .. L - c : tail[k] = all[c + k]
    BY DEF L
  <2>3. ASSUME NEW i \in 1 .. m
        PROVE  t[i] = s[i]
    <3>1. tail[((L - c) - m) + i] = all[c + (((L - c) - m) + i)]
      BY <2>1, <2>2
    <3> QED
      BY <1>4, <1>5, <2>1, <3>1
  <2> QED
    BY <2>3
<1>7. t = s
  BY <1>4, <1>5, <1>6, SeqEqual
<1>8. c = 0 \/ L - c >= limit => m = M
  BY <1>1 DEF m, M
<1> QED
  BY <1>3, <1>4, <1>7, <1>8 DEF L, s

(* Where the backwards read stops.                                         *)
LEMMA TailStartIs ==
    ASSUME NEW bytes \in Seq(Bytes), NEW lines \in Nat
    PROVE  LET from == TailStart(bytes, lines) IN
           /\ from \in 0 .. Len(bytes)
           /\ from = 0 \/ LineFeeds(SubSeq(bytes, from + 1, Len(bytes))) > lines
<1> DEFINE N == Len(bytes)
           Position(n) == Max({0, N - n * ChunkBytes})
           Enough(n) == \/ Position(n) = 0
                        \/ LineFeeds(SubSeq(bytes, Position(n) + 1, N)) > lines
           E == {n \in 0 .. N : Enough(n)}
<1>1. N \in Nat /\ ChunkBytes \in Nat \ {0}
  BY LenProperties, HistoryAssumption
<1>2. \A n \in 0 .. N : Position(n) \in 0 .. N
  <2>1. ASSUME NEW n \in 0 .. N
        PROVE  Position(n) \in 0 .. N
    <3>1. n * ChunkBytes \in Nat
      BY <1>1
    <3> DEFINE d == n * ChunkBytes
    <3> HIDE DEF d, N
    <3>2. d \in Nat /\ N \in Nat /\ 0 \in Int /\ N - d \in Int
      BY <1>1, <3>1 DEF d
    <3>3. Max({0, N - d}) = IF 0 >= N - d THEN 0 ELSE N - d
      BY <3>2, OfTwo
    <3>4. Max({0, N - d}) \in 0 .. N
      BY <3>2, <3>3
    <3> QED
      BY <3>4 DEF d
  <2> HIDE DEF Position
  <2> QED
    BY <2>1
<1>3. N \in E
  <2> DEFINE d == N * ChunkBytes
  <2>1. d \in Nat /\ d >= N
    BY <1>1
  <2> HIDE DEF d, N
  <2>2. 0 \in Int /\ N - d \in Int /\ 0 >= N - d /\ N \in 0 .. N
    BY <1>1, <2>1
  <2>3. Max({0, N - d}) = 0
    BY <2>2, OfTwo
  <2>4. Position(N) = 0
    BY <2>3 DEF d
  <2> HIDE DEF Position
  <2> QED
    BY <2>2, <2>4
<1>4. Min(E) \in E
  <2>1. E \in SUBSET Nat /\ E # {}
    <3> HIDE DEF Enough
    <3> QED
      BY <1>1, <1>3
  <2> HIDE DEF E
  <2> QED
    BY <2>1, LeastOf
<1>5. TailStart(bytes, lines) = Position(Min(E))
  BY Zenon DEF TailStart
<1>6. Min(E) \in 0 .. N /\ Enough(Min(E))
  <2> HIDE DEF Enough
  <2> QED
    BY <1>4
<1>7. TailStart(bytes, lines) \in 0 .. N
  <2> HIDE DEF Position, E
  <2> QED
    BY <1>2, <1>5, <1>6
<1>8. \/ TailStart(bytes, lines) = 0
      \/ LineFeeds(SubSeq(bytes, TailStart(bytes, lines) + 1, N)) > lines
  <2> HIDE DEF Position, E
  <2> QED
    BY <1>5, <1>6, Zenon
<1> QED
  BY <1>7, <1>8

(* load_entries(limit): it is a suffix of what the whole log holds, and    *)
(* the last entries of it when no more lines are malformed than the margin *)
(* allows for.                                                             *)
LEMMA TailReadsTheLastOnes ==
    ASSUME NEW bytes \in Seq(Bytes), NEW limit \in Nat
    PROVE  LET all == ParseEntries(bytes)
               tail == TailEntries(bytes, limit)
           IN  /\ IsSuffix(tail, all)
               /\ MalformedLines(bytes) <= MarginLines + 1 => tail = LastN(all, limit)
<1> DEFINE N == Len(bytes)
           lines == limit + MarginLines
           from == TailStart(bytes, lines)
           rest == SubSeq(bytes, from + 1, N)
           FS == {i \in DOMAIN bytes : LineFeed(bytes[i])}
           FT == {i \in DOMAIN rest : LineFeed(rest[i])}
           feeds == {i \in (from + 1) .. N : LineFeed(bytes[i])}
           f == IF from = 0 THEN 0 ELSE Min(feeds)
           S == Starts(bytes)
           all == ParseEntries(bytes)
           read == ParseEntries(SubSeq(bytes, f + 1, N))
           c == Cardinality(UpTo(S, f))
<1>1. /\ N \in Nat /\ DOMAIN bytes = 1 .. N /\ \A i \in 1 .. N : bytes[i] \in Bytes
      /\ lines \in Nat /\ MarginLines \in Nat
  BY LenProperties, ElementOfSeq, HistoryAssumption
<1>2. from \in 0 .. N /\ (from = 0 \/ Cardinality(FT) > lines)
  BY <1>1, TailStartIs DEF LineFeeds
<1>3. TailEntries(bytes, limit) = LastN(read, limit)
  BY Zenon DEF TailEntries, TailBytes
<1>4. /\ FS \in SUBSET (1 .. N) /\ FT \in SUBSET (1 .. N - from)
      /\ \A i \in 1 .. N - from : i \in FT <=> from + i \in FS
  <2> DEFINE m == N - from
  <2>1. m \in 0 .. N /\ (N - m) + 1 = from + 1 /\ \A i \in 1 .. m : (N - m) + i = from + i
    BY <1>1, <1>2
  <2>2. LET t == SubSeq(bytes, (N - m) + 1, N) IN
           /\ t \in Seq(Bytes) /\ Len(t) = m
           /\ \A i \in 1 .. m : t[i] = bytes[(N - m) + i]
    <3> HIDE DEF m, from
    <3> QED
      BY <2>1, SuffixIs
  <2> HIDE DEF from
  <2>3. rest \in Seq(Bytes) /\ Len(rest) = m /\ \A i \in 1 .. m : rest[i] = bytes[from + i]
    <3> HIDE DEF m
    <3> QED
      BY <2>1, <2>2
  <2>4. DOMAIN rest = 1 .. m
    <3> HIDE DEF m, rest
    <3> QED
      BY <2>3, LenProperties
  <2>5. FS \in SUBSET (1 .. N)
    BY <1>1
  <2>6. FT \in SUBSET (1 .. m)
    BY <2>4
  <2>7. \A i \in 1 .. m : i \in FT <=> from + i \in FS
    <3>1. \A i \in 1 .. m : from + i \in 1 .. N
      BY <1>1, <1>2
    <3> HIDE DEF rest, m
    <3> QED
      BY <1>1, <2>3, <2>4, <3>1
  <2> QED
    BY <2>5, <2>6, <2>7
<1> HIDE DEF from, FS, FT
<1>5. from # 0 => /\ f \in FS /\ f > from
                  /\ UpTo(FS, f) = UpTo(FS, from) \cup {f}
  <2> SUFFICES ASSUME from # 0
               PROVE  /\ f \in FS /\ f > from
                      /\ UpTo(FS, f) = UpTo(FS, from) \cup {f}
    OBVIOUS
  <2>1. feeds \in SUBSET Nat /\ \A i : i \in feeds <=> i \in FS /\ i > from
    BY <1>1, <1>2 DEF FS
  <2>2. feeds # {}
    <3>1. Cardinality(FT) > 0
      <4>1. Cardinality(FT) \in Nat
        <5>1. N - from \in Nat
          BY <1>1, <1>2
        <5> QED
          BY <1>4, <5>1, UpToCounts
      <4> HIDE DEF lines
      <4> QED
        BY <1>1, <1>2, <4>1
    <3>2. FT # {}
      <4>1. Cardinality({}) = 0
        BY FS_EmptySet
      <4>2. FT = {} => Cardinality(FT) = 0
        BY <4>1, Zenon
      <4> QED
        BY <3>1, <4>2
    <3>3. PICK i \in FT : TRUE
      BY <3>2
    <3>4. i \in 1 .. N - from /\ from + i \in FS
      BY <1>4, <3>3
    <3>5. from + i > from
      BY <1>1, <1>2, <3>4
    <3> QED
      BY <2>1, <3>4, <3>5
  <2> HIDE DEF feeds
  <2>3. Min(feeds) \in feeds /\ \A x \in feeds : Min(feeds) <= x
    BY <2>1, <2>2, LeastOf
  <2>4. f \in FS /\ f > from /\ \A i \in FS : i > from => f <= i
    BY <2>1, <2>3
  <2> HIDE DEF f
  <2>5. \A i \in FS : i \in Int /\ (i <= f <=> i <= from \/ i = f)
    <3>1. FS \subseteq Int
      BY <1>4
    <3> QED
      BY <1>2, <2>4, <3>1
  <2>6. \A i : i \in UpTo(FS, f) <=> i \in UpTo(FS, from) \cup {f}
    BY <2>4, <2>5 DEF UpTo
  <2> QED
    BY <2>4, <2>6
<1>6. f \in 0 .. N /\ (f = 0 \/ bytes[f][2] = 4)
  <2>1. CASE from = 0
    BY <1>1, <2>1
  <2>2. CASE from # 0
    <3> HIDE DEF f
    <3>1. f \in FS /\ f \in 1 .. N
      BY <1>4, <1>5, <2>2
    <3> QED
      BY <1>1, <3>1 DEF FS, LineFeed
  <2> QED
    BY <2>1, <2>2
<1> HIDE DEF f
<1>7. /\ all \in Seq(Entries) /\ read \in Seq(Entries) /\ c \in 0 .. Len(all)
      /\ Len(read) = Len(all) - c /\ \A k \in 1 .. Len(read) : read[k] = all[c + k]
  BY <1>6, TailEntriesAre, ParsedAre
<1> HIDE DEF all, read, c
<1>8. IsSuffix(TailEntries(bytes, limit), all)
  BY <1>3, <1>7, LastOfTail
<1>9. ASSUME MalformedLines(bytes) <= MarginLines + 1
      PROVE  c = 0 \/ Len(all) - c >= limit
  <2>1. CASE from = 0
    <3>1. f = 0 /\ S \in SUBSET (1 .. N)
      BY <2>1, StartsAre DEF f
    <3>2. UpTo(S, f) = {}
      BY <1>1, <3>1, UpToCounts
    <3> QED
      BY <3>2, FS_EmptySet DEF c
  <2>2. CASE from # 0
    <3>1. Cardinality(FS) <= Len(all) + MarginLines /\ Cardinality(FS) \in Nat /\ Len(all) \in Nat
      <4>0. Len(all) \in Nat
        BY <1>7, LenProperties
      <4>1. Cardinality(FS) \in Nat /\ Len(all) \in Nat
        BY <1>1, <1>4, <4>0, UpToCounts
      <4>2. MalformedLines(bytes) = (Cardinality(FS) + 1) - Len(all)
        <5>1. LineFeeds(bytes) = Cardinality(FS)
          BY Zenon DEF LineFeeds, FS
        <5>2. MalformedLines(bytes) = LineFeeds(bytes) + (1 - Len(all))
          BY Zenon DEF MalformedLines, all
        <5> QED
          BY <4>1, <5>1, <5>2
      <4> QED
        BY <1>1, <1>9, <4>1, <4>2
    <3>2. Cardinality(FT) = Cardinality(FS) - Cardinality(UpTo(FS, from))
      <4> HIDE DEF N
      <4> QED
        BY <1>1, <1>2, <1>4, ShiftCounts
    <3>3. /\ Cardinality(UpTo(FS, f)) = Cardinality(UpTo(FS, from)) + 1
          /\ Cardinality(UpTo(FS, from)) \in Nat
          /\ IsFiniteSet(UpTo(FS, f))
      <4>0. from \in Nat
        BY <1>1, <1>2
      <4>1. IsFiniteSet(UpTo(FS, from)) /\ Cardinality(UpTo(FS, from)) \in Nat
        BY <1>1, <1>4, <4>0, UpToCounts
      <4>2. f \notin UpTo(FS, from)
        <5>1. f \in 1 .. N /\ f > from
          BY <1>4, <1>5, <2>2
        <5>2. ~ (f <= from)
          BY <1>1, <4>0, <5>1
        <5> QED
          BY <5>2, Zenon DEF UpTo
      <4>3. Cardinality(UpTo(FS, from) \cup {f}) = Cardinality(UpTo(FS, from)) + 1
        BY <4>1, <4>2, FS_AddElement, Zenon
      <4>4. IsFiniteSet(UpTo(FS, from) \cup {f})
        BY <4>1, FS_AddElement, Zenon
      <4> QED
        BY <1>5, <2>2, <4>1, <4>3, <4>4
    <3>4. c <= Cardinality(UpTo(FS, f))
      <4> DEFINE A == UpTo(S, f)
                 g == [i \in A |-> i + 3]
      <4>1. ASSUME NEW i \in A
            PROVE  i \in Int /\ i + 3 \in UpTo(FS, f)
        <5>1. i \in S /\ i <= f /\ i \in 1 .. N /\ WholeAt(bytes, i)
          BY StartsAre DEF UpTo
        <5>2. f \in 1 .. N /\ bytes[f][2] = 4
          <6>1. f # 0
            BY <1>2, <1>5, <2>2
          <6> QED
            BY <1>6, <6>1
        <5>3. /\ bytes[i][2] = 1 /\ bytes[i + 1][2] = 2 /\ bytes[i + 2][2] = 3
              /\ i + 2 <= N
              /\ i + 3 <= N => bytes[i + 3][2] = 4
          BY <5>1 DEF WholeAt
        <5>4. f # i /\ f # i + 1 /\ f # i + 2
          BY <5>2, <5>3
        <5>5. i + 3 <= f /\ i + 3 \in 1 .. N
          BY <1>1, <5>1, <5>2, <5>4
        <5>6. i + 3 \in FS
          BY <1>1, <5>3, <5>5 DEF FS, LineFeed
        <5> QED
          BY <5>1, <5>5, <5>6 DEF UpTo
      <4>2. g \in Injection(A, UpTo(FS, f))
        <5>1. g \in [A -> UpTo(FS, f)]
          BY <4>1
        <5>2. \A a, b \in A : g[a] = g[b] => a = b
          BY <4>1
        <5> HIDE DEF g
        <5> QED
          BY <5>1, <5>2, Zenon DEF Injection, IsInjective
      <4>3. Cardinality(A) <= Cardinality(UpTo(FS, f))
        <5> HIDE DEF g, A
        <5> QED
          BY <3>3, <4>2, FS_Injection, Zenon
      <4> QED
        BY <4>3 DEF c
    <3>5. Cardinality(FT) > limit + MarginLines
      BY <1>2, <2>2
    <3> QED
      BY <1>1, <1>7, <3>1, <3>2, <3>3, <3>4, <3>5
  <2> QED
    BY <2>1, <2>2
<1>10. ASSUME MalformedLines(bytes) <= MarginLines + 1
       PROVE  TailEntries(bytes, limit) = LastN(all, limit)
  BY <1>3, <1>7, <1>9, <1>10, LastOfTail
<1> QED
  BY <1>8, <1>10 DEF all

------------------------------------------------------------------------------
(* What is written.                                                        *)

LEMMA LineIsBytes ==
    ASSUME NEW e \in Entries
    PROVE  /\ Line(e) \in Seq(Bytes) /\ Len(Line(e)) = 4
           /\ \A i \in 1 .. 4 : Line(e)[i] = <<e, i>>
           /\ \A n \in 0 .. 4 :
                /\ SubSeq(Line(e), 1, n) \in Seq(Bytes) /\ Len(SubSeq(Line(e), 1, n)) = n
                /\ \A i \in 1 .. n : SubSeq(Line(e), 1, n)[i] = <<e, i>>
           /\ SubSeq(Line(e), 1, 4) = Line(e)
<1>1. /\ Line(e) \in Seq(Bytes) /\ Len(Line(e)) = 4
      /\ \A i \in 1 .. 4 : Line(e)[i] = <<e, i>>
  <2>1. \A i \in 1 .. 4 : i = 1 \/ i = 2 \/ i = 3 \/ i = 4
    OBVIOUS
  <2> QED
    BY <2>1 DEF Line, Bytes
<1>2. ASSUME NEW n \in 0 .. 4
      PROVE  /\ SubSeq(Line(e), 1, n) \in Seq(Bytes) /\ Len(SubSeq(Line(e), 1, n)) = n
             /\ \A i \in 1 .. n : SubSeq(Line(e), 1, n)[i] = <<e, i>>
  <2>1. \A i \in 1 .. n : Line(e)[i] \in Bytes /\ i \in 1 .. 4
    <3>1. \A i \in 1 .. n : i \in 1 .. 4
      OBVIOUS
    <3>2. \A i \in 1 .. 4 : Line(e)[i] \in Bytes
      BY <1>1, ElementOfSeq, Zenon
    <3> QED
      BY <3>1, <3>2, Zenon
  <2>2. /\ SubSeq(Line(e), 1, n) \in Seq(Bytes)
        /\ Len(SubSeq(Line(e), 1, n)) = n
        /\ \A i \in 1 .. n : SubSeq(Line(e), 1, n)[i] = Line(e)[i]
    BY <2>1, SubSeqProperties
  <2>3. \A i \in 1 .. n : Line(e)[i] = <<e, i>>
    BY <1>1, <2>1, Zenon
  <2> QED
    BY <2>2, <2>3, Zenon
<1>3. SubSeq(Line(e), 1, 4) = Line(e)
  BY <1>1, <1>2, SeqEqual
<1> QED
  BY <1>1, <1>2, <1>3

LEMMA LinesAre ==
    ASSUME NEW es \in Seq(Entries)
    PROVE  /\ Len(es) \in Nat /\ 4 * Len(es) \in Nat
           /\ Lines(es) \in Seq(Bytes) /\ Len(Lines(es)) = 4 * Len(es)
           /\ \A i \in 1 .. 4 * Len(es) :
                /\ ((i - 1) \div 4) + 1 \in 1 .. Len(es) /\ ((i - 1) % 4) + 1 \in 1 .. 4
                /\ i = 4 * ((i - 1) \div 4) + ((i - 1) % 4) + 1
                /\ Lines(es)[i] = <<es[((i - 1) \div 4) + 1], ((i - 1) % 4) + 1>>
           /\ \A q \in 1 .. Len(es), r \in 1 .. 4 :
                /\ 4 * (q - 1) + r \in 1 .. 4 * Len(es)
                /\ Lines(es)[4 * (q - 1) + r] = <<es[q], r>>
<1>1. Len(es) \in Nat /\ 4 * Len(es) \in Nat
  BY LenProperties
<1>2. ASSUME NEW i \in 1 .. 4 * Len(es)
      PROVE  /\ ((i - 1) \div 4) + 1 \in 1 .. Len(es) /\ ((i - 1) % 4) + 1 \in 1 .. 4
             /\ i = 4 * ((i - 1) \div 4) + ((i - 1) % 4) + 1
             /\ Line(es[((i - 1) \div 4) + 1])[((i - 1) % 4) + 1]
                  = <<es[((i - 1) \div 4) + 1], ((i - 1) % 4) + 1>>
             /\ <<es[((i - 1) \div 4) + 1], ((i - 1) % 4) + 1>> \in Bytes
  <2> DEFINE q == ((i - 1) \div 4) + 1
             r == ((i - 1) % 4) + 1
  <2>1. q \in 1 .. Len(es) /\ r \in 1 .. 4 /\ i = 4 * ((i - 1) \div 4) + ((i - 1) % 4) + 1
    BY <1>1
  <2> HIDE DEF q, r
  <2>2. es[q] \in Entries
    BY <2>1, ElementOfSeq
  <2>3. Line(es[q])[r] = <<es[q], r>> /\ <<es[q], r>> \in Bytes
    BY <2>1, <2>2, LineIsBytes DEF Bytes
  <2> QED
    BY <2>1, <2>3 DEF q, r
<1>3. Lines(es) \in Seq(Bytes) /\ Len(Lines(es)) = 4 * Len(es)
  <2> DEFINE n == 4 * Len(es)
             F(i) == Line(es[((i - 1) \div 4) + 1])[((i - 1) % 4) + 1]
  <2>1. n \in Nat /\ \A i \in 1 .. n : F(i) \in Bytes
    BY <1>1, <1>2
  <2>2. Lines(es) = [i \in 1 .. n |-> F(i)]
    BY Zenon DEF Lines
  <2> HIDE DEF n, F
  <2>3. Lines(es) \in Seq(Bytes) /\ Len(Lines(es)) = n
    BY <2>1, <2>2
  <2> QED
    BY <2>3 DEF n
<1>4. \A i \in 1 .. 4 * Len(es) :
        Lines(es)[i] = <<es[((i - 1) \div 4) + 1], ((i - 1) % 4) + 1>>
  <2>1. \A i \in 1 .. 4 * Len(es) : Lines(es)[i] = Line(es[((i - 1) \div 4) + 1])[((i - 1) % 4) + 1]
    BY Zenon DEF Lines
  <2> QED
    BY <1>2, <2>1
<1>5. ASSUME NEW q \in 1 .. Len(es), NEW r \in 1 .. 4
      PROVE  /\ 4 * (q - 1) + r \in 1 .. 4 * Len(es)
             /\ Lines(es)[4 * (q - 1) + r] = <<es[q], r>>
  <2> DEFINE i == 4 * (q - 1) + r
  <2>1. i \in 1 .. 4 * Len(es) /\ ((i - 1) \div 4) + 1 = q /\ ((i - 1) % 4) + 1 = r
    BY <1>1
  <2> HIDE DEF i
  <2>2. Lines(es)[i] = <<es[q], r>>
    BY <1>4, <2>1
  <2> QED
    BY <2>1, <2>2 DEF i
<1> QED
  BY <1>1, <1>2, <1>3, <1>4, <1>5

(* The entries that have a whole line of their own: more bytes behind it   *)
(* change nothing about it.                                                *)
WholeLines(bytes) == {i \in 1 .. Len(bytes) : WholeAt(bytes, i) /\ i + 3 <= Len(bytes)}
Whole(bytes) == {bytes[i][1] : i \in WholeLines(bytes)}

EndsWell(bytes) == Len(bytes) = 0 \/ bytes[Len(bytes)][2] = 4

LEMMA WholeIsParsed ==
    ASSUME NEW bytes \in Seq(Bytes)
    PROVE  Whole(bytes) \subseteq ToSet(ParseEntries(bytes))
<1>1. \A i \in WholeLines(bytes) : i \in Starts(bytes)
  BY StartsAre DEF WholeLines
<1>2. ToSet(ParseEntries(bytes)) = {bytes[i][1] : i \in Starts(bytes)}
  BY ParsedAre
<1> QED
  BY <1>1, <1>2, Zenon DEF Whole

LEMMA WholeGrows ==
    ASSUME NEW bytes \in Seq(Bytes), NEW x \in Seq(Bytes)
    PROVE  Whole(bytes) \subseteq Whole(bytes \o x)
<1> DEFINE y == bytes \o x
           N == Len(bytes)
<1>1. /\ N \in Nat /\ Len(x) \in Nat /\ Len(y) = N + Len(x)
      /\ \A i \in 1 .. N : y[i] = bytes[i]
  <2>1. N \in Nat /\ Len(x) \in Nat
    BY LenProperties
  <2>2. Len(y) = N + Len(x) /\ \A i \in 1 .. N + Len(x) : y[i] = IF i <= N THEN bytes[i] ELSE x[i - N]
    BY ConcatProperties
  <2> HIDE DEF y
  <2> QED
    BY <2>1, <2>2
<1> HIDE DEF y, N
<1>2. ASSUME NEW i \in WholeLines(bytes)
      PROVE  i \in WholeLines(y) /\ y[i] = bytes[i]
  <2>1. i \in 1 .. N /\ WholeAt(bytes, i) /\ i + 3 <= N
    BY DEF WholeLines, N
  <2>2. /\ i \in 1 .. N /\ i + 1 \in 1 .. N /\ i + 2 \in 1 .. N /\ i + 3 \in 1 .. N
        /\ i # 1 => i - 1 \in 1 .. N
        /\ i \in 1 .. Len(y) /\ i + 2 <= Len(y) /\ i + 3 <= Len(y)
    BY <1>1, <2>1
  <2>3. WholeAt(y, i)
    BY <1>1, <2>1, <2>2 DEF WholeAt, N
  <2> QED
    BY <1>1, <2>2, <2>3 DEF WholeLines
<1> QED
  BY <1>2 DEF Whole, y

(* A line behind a line feed is whole; behind a piece of another it may be *)
(* lost, and ends that piece.                                              *)
LEMMA LineAppended ==
    ASSUME NEW bytes \in Seq(Bytes), NEW e \in Entries
    PROVE  /\ bytes \o Line(e) \in Seq(Bytes) /\ EndsWell(bytes \o Line(e))
           /\ EndsWell(bytes) => e \in Whole(bytes \o Line(e))
<1> DEFINE y == bytes \o Line(e)
           N == Len(bytes)
<1>1. /\ N \in Nat /\ y \in Seq(Bytes) /\ Len(y) = N + 4
      /\ \A i \in 1 .. N : y[i] = bytes[i]
      /\ \A j \in 1 .. 4 : y[N + j] = <<e, j>>
  <2>1. N \in Nat
    BY LenProperties
  <2>2. Line(e) \in Seq(Bytes) /\ Len(Line(e)) = 4 /\ \A i \in 1 .. 4 : Line(e)[i] = <<e, i>>
    BY LineIsBytes
  <2>3. /\ y \in Seq(Bytes) /\ Len(y) = N + Len(Line(e))
        /\ \A i \in 1 .. N + Len(Line(e)) :
              y[i] = IF i <= N THEN bytes[i] ELSE Line(e)[i - N]
    BY <2>2, ConcatProperties
  <2> HIDE DEF y, N
  <2>4. \A j \in 1 .. 4 : N + j \in 1 .. N + 4 /\ ~ (N + j <= N) /\ (N + j) - N = j
    BY <2>1
  <2>5. \A i \in 1 .. N : i \in 1 .. N + 4 /\ i <= N
    BY <2>1
  <2> QED
    BY <2>1, <2>2, <2>3, <2>4, <2>5
<1> HIDE DEF y, N
<1>2. y[N + 1] = <<e, 1>> /\ y[N + 2] = <<e, 2>> /\ y[N + 3] = <<e, 3>> /\ y[N + 4] = <<e, 4>>
  BY <1>1
<1>3. EndsWell(y)
  BY <1>1, <1>2 DEF EndsWell
<1>4. ASSUME EndsWell(bytes)
      PROVE  e \in Whole(y)
  <2>1. N = 0 \/ y[N][2] = 4
    <3>1. N # 0 => N \in 1 .. N
      BY <1>1
    <3> QED
      BY <1>1, <1>4, <3>1 DEF EndsWell, N
  <2>2. /\ (N + 1) + 1 = N + 2 /\ (N + 1) + 2 = N + 3 /\ (N + 1) + 3 = N + 4
        /\ (N + 1) - 1 = N /\ N + 1 \in 1 .. N + 4
        /\ N + 3 <= N + 4 /\ N + 4 <= N + 4 /\ (N + 1 = 1 <=> N = 0)
    BY <1>1
  <2>3. WholeAt(y, N + 1)
    BY <1>1, <1>2, <2>1, <2>2 DEF WholeAt
  <2>4. N + 1 \in WholeLines(y) /\ y[N + 1][1] = e
    BY <1>1, <1>2, <2>2, <2>3 DEF WholeLines
  <2> QED
    BY <2>4, Zenon DEF Whole
<1> QED
  BY <1>1, <1>3, <1>4 DEF y

(* A conversion writes whole lines.                                        *)
LEMMA LinesAreWhole ==
    ASSUME NEW es \in Seq(Entries)
    PROVE  EndsWell(Lines(es)) /\ ToSet(es) \subseteq Whole(Lines(es))
<1> DEFINE y == Lines(es)
           L == Len(es)
<1>1. /\ L \in Nat /\ y \in Seq(Bytes) /\ Len(y) = 4 * L
      /\ \A q \in 1 .. L, r \in 1 .. 4 :
            4 * (q - 1) + r \in 1 .. 4 * L /\ y[4 * (q - 1) + r] = <<es[q], r>>
  BY LinesAre
<1> HIDE DEF y
<1>2. EndsWell(y)
  <2>1. CASE L = 0
    BY <1>1, <2>1 DEF EndsWell
  <2>2. CASE L # 0
    <3>1. L \in 1 .. L /\ 4 * (L - 1) + 4 = 4 * L
      BY <1>1, <2>2
    <3>2. y[4 * (L - 1) + 4] = <<es[L], 4>>
      BY <1>1, <3>1
    <3>3. y[4 * L] = <<es[L], 4>>
      BY <3>1, <3>2
    <3> QED
      BY <1>1, <3>3 DEF EndsWell
  <2> QED
    BY <2>1, <2>2
<1>3. ASSUME NEW q \in 1 .. L
      PROVE  es[q] \in Whole(y)
  <2> DEFINE b == 4 * (q - 1)
  <2>1. /\ y[b + 1] = <<es[q], 1>> /\ y[b + 2] = <<es[q], 2>>
        /\ y[b + 3] = <<es[q], 3>> /\ y[b + 4] = <<es[q], 4>>
        /\ b + 4 \in 1 .. Len(y)
    BY <1>1
  <2>3. b # 0 => y[b] = <<es[q - 1], 4>>
    <3>1. b # 0 => q - 1 \in 1 .. L /\ b = 4 * ((q - 1) - 1) + 4
      BY <1>1
    <3>2. \A p \in 1 .. L : y[4 * (p - 1) + 4] = <<es[p], 4>>
      <4>1. 4 \in 1 .. 4
        OBVIOUS
      <4> QED
        BY <1>1, <4>1, Zenon
    <3> HIDE DEF b
    <3>3. b # 0 => y[4 * ((q - 1) - 1) + 4] = <<es[q - 1], 4>>
      BY <3>1, <3>2, Zenon
    <3>4. b # 0 => y[b] = <<es[q - 1], 4>>
      BY <3>1, <3>3, Zenon
    <3> QED
      BY <3>4
  <2>4. b \in Nat /\ Len(y) \in Nat
    BY <1>1
  <2> HIDE DEF b
  <2>5. /\ (b + 1) + 1 = b + 2 /\ (b + 1) + 2 = b + 3 /\ (b + 1) + 3 = b + 4
        /\ (b + 1) - 1 = b /\ b + 1 \in 1 .. Len(y)
        /\ b + 3 <= Len(y) /\ b + 4 <= Len(y) /\ (b + 1 = 1 <=> b = 0)
    BY <2>1, <2>4
  <2>6. WholeAt(y, b + 1)
    <3>1. b + 1 = 1 \/ y[(b + 1) - 1][2] = 4
      BY <2>3, <2>5
    <3>2. /\ y[b + 1][1] = es[q] /\ y[b + 1][2] = 1
          /\ y[(b + 1) + 1] = <<y[b + 1][1], 2>> /\ y[(b + 1) + 2] = <<y[b + 1][1], 3>>
          /\ y[(b + 1) + 3][2] = 4 /\ (b + 1) + 2 <= Len(y)
      <4>1. y[b + 1][1] = es[q] /\ y[b + 1][2] = 1 /\ y[b + 4][2] = 4
        BY <2>1
      <4>2. y[b + 2] = <<y[b + 1][1], 2>> /\ y[b + 3] = <<y[b + 1][1], 3>>
        BY <2>1, <4>1, Zenon
      <4> QED
        BY <2>5, <4>1, <4>2, Zenon
    <3> QED
      BY <2>5, <3>1, <3>2 DEF WholeAt
  <2>7. b + 1 \in WholeLines(y) /\ y[b + 1][1] = es[q]
    BY <2>1, <2>5, <2>6 DEF WholeLines
  <2> QED
    BY <2>7, Zenon DEF Whole
<1>4. ToSet(es) = {es[q] : q \in 1 .. L}
  BY LenProperties DEF ToSet
<1> QED
  BY <1>2, <1>3, <1>4 DEF y

------------------------------------------------------------------------------
(* Nothing is written twice.                                               *)

EntriesIn(bytes) == {bytes[i][1] : i \in 1 .. Len(bytes)}

LEMMA ParsedOnce ==
    ASSUME NEW bytes \in Seq(Bytes), IsInjective(bytes)
    PROVE  IsInjective(ParseEntries(bytes))
<1> DEFINE S == Starts(bytes)
           es == ParseEntries(bytes)
<1>1. /\ Len(bytes) \in Nat /\ DOMAIN bytes = 1 .. Len(bytes)
      /\ \A i \in 1 .. Len(bytes) : bytes[i] \in Bytes /\ bytes[i] = <<bytes[i][1], bytes[i][2]>>
  <2>1. \A i \in 1 .. Len(bytes) : bytes[i] \in Bytes
    BY ElementOfSeq
  <2> QED
    BY <2>1, LenProperties DEF Bytes
<1>2. S \in SUBSET (1 .. Len(bytes)) /\ \A i \in S : bytes[i] = <<bytes[i][1], 1>>
  BY <1>1, StartsAre DEF WholeAt
<1>3. /\ es \in Seq(Entries) /\ Len(es) = Cardinality(S)
      /\ \A k \in 1 .. Len(es) : es[k] = bytes[Nth(S, k)][1]
  BY ParsedAre
<1> HIDE DEF S, es
<1>4. ASSUME NEW k \in 1 .. Len(es), NEW l \in 1 .. Len(es), es[k] = es[l]
      PROVE  k = l
  <2>1. /\ Nth(S, k) \in S /\ Cardinality(UpTo(S, Nth(S, k))) = k
        /\ Nth(S, l) \in S /\ Cardinality(UpTo(S, Nth(S, l))) = l
    BY <1>1, <1>2, <1>3, NthIs
  <2>2. bytes[Nth(S, k)] = bytes[Nth(S, l)]
    BY <1>2, <1>3, <1>4, <2>1
  <2>3. Nth(S, k) = Nth(S, l)
    BY <1>1, <1>2, <2>1, <2>2 DEF IsInjective
  <2> QED
    BY <2>1, <2>3
<1>5. DOMAIN es = 1 .. Len(es)
  BY <1>3, LenProperties
<1> QED
  BY <1>4, <1>5, Zenon DEF IsInjective, es

LEMMA PartAppended ==
    ASSUME NEW bytes \in Seq(Bytes), NEW e \in Entries, NEW n \in 0 .. 4
    PROVE  LET y == bytes \o SubSeq(Line(e), 1, n) IN
           /\ y \in Seq(Bytes)
           /\ EntriesIn(y) \subseteq EntriesIn(bytes) \cup {e}
           /\ IsInjective(bytes) /\ e \notin EntriesIn(bytes) => IsInjective(y)
<1> DEFINE x == SubSeq(Line(e), 1, n)
           y == bytes \o x
           N == Len(bytes)
<1>1. x \in Seq(Bytes) /\ Len(x) = n /\ \A i \in 1 .. n : x[i] = <<e, i>>
  BY LineIsBytes
<1>2. N \in Nat /\ n \in Nat /\ DOMAIN bytes = 1 .. N
  BY LenProperties
<1>3. /\ y \in Seq(Bytes) /\ Len(y) = N + n /\ DOMAIN y = 1 .. N + n
      /\ \A i \in 1 .. N : y[i] = bytes[i]
      /\ \A i \in 1 .. N + n : i > N => i - N \in 1 .. n /\ y[i] = <<e, i - N>>
  <2>1. /\ y \in Seq(Bytes) /\ Len(y) = N + n
        /\ \A i \in 1 .. N + n : y[i] = IF i <= N THEN bytes[i] ELSE x[i - N]
    BY <1>1, ConcatProperties
  <2> HIDE DEF x, y, N
  <2>2. DOMAIN y = 1 .. N + n
    BY <2>1, LenProperties
  <2>3. \A i \in 1 .. N : i \in 1 .. N + n /\ i <= N
    BY <1>2
  <2>4. \A i \in 1 .. N + n : i > N => i - N \in 1 .. n /\ ~ (i <= N)
    BY <1>2
  <2> QED
    BY <1>1, <2>1, <2>2, <2>3, <2>4
<1> HIDE DEF x, y
<1>4. EntriesIn(y) \subseteq EntriesIn(bytes) \cup {e}
  <2>1. ASSUME NEW i \in 1 .. N + n
        PROVE  y[i][1] \in EntriesIn(bytes) \cup {e}
    <3>1. CASE i <= N
      BY <1>2, <1>3, <3>1 DEF EntriesIn
    <3>2. CASE i > N
      BY <1>2, <1>3, <3>2
    <3> QED
      BY <1>2, <3>1, <3>2
  <2> QED
    BY <1>3, <2>1 DEF EntriesIn
<1>5. ASSUME IsInjective(bytes), e \notin EntriesIn(bytes)
      PROVE  IsInjective(y)
  <2>1. \A i \in 1 .. N : bytes[i][1] # e
    BY <1>5 DEF EntriesIn
  <2>2. \A i, j \in 1 .. N : bytes[i] = bytes[j] => i = j
    BY <1>2, <1>5 DEF IsInjective
  <2>3. \A i, j \in 1 .. N + n : i <= N /\ j > N => y[i] # y[j]
    BY <1>2, <1>3, <2>1
  <2>4. \A i, j \in 1 .. N + n : i > N /\ j > N /\ y[i] = y[j] => i = j
    <3> SUFFICES ASSUME NEW i \in 1 .. N + n, NEW j \in 1 .. N + n,
                        i > N, j > N, y[i] = y[j]
                 PROVE  i = j
      OBVIOUS
    <3>1. y[i] = <<e, i - N>> /\ y[j] = <<e, j - N>>
      BY <1>3
    <3>2. i - N = j - N
      <4> DEFINE a == i - N
                 b == j - N
      <4>1. y[i] = <<e, a>> /\ y[j] = <<e, b>>
        BY <3>1
      <4> HIDE DEF a, b
      <4>2. <<e, a>>[2] = a /\ <<e, b>>[2] = b
        OBVIOUS
      <4>3. a = b
        BY <4>1, <4>2, Zenon
      <4> QED
        BY <4>3 DEF a, b
    <3>3. i \in Int /\ j \in Int /\ N \in Int
      BY <1>2
    <3> QED
      BY <3>2, <3>3
  <2>5. \A i, j \in 1 .. N + n : i <= N /\ j <= N /\ y[i] = y[j] => i = j
    <3>1. \A i \in 1 .. N + n : i <= N => i \in 1 .. N
      BY <1>2
    <3> QED
      BY <1>3, <2>2, <3>1
  <2>6. \A i \in 1 .. N + n : i <= N \/ i > N
    BY <1>2
  <2>7. \A i, j \in 1 .. N + n : y[i] = y[j] => i = j
    <3> HIDE DEF N
    <3> QED
      BY <2>3, <2>4, <2>5, <2>6
  <2> QED
    BY <1>3, <2>7, Zenon DEF IsInjective
<1> QED
  BY <1>3, <1>4, <1>5 DEF x, y

LEMMA LinesOnce ==
    ASSUME NEW es \in Seq(Entries), IsInjective(es)
    PROVE  IsInjective(Lines(es)) /\ EntriesIn(Lines(es)) \subseteq ToSet(es)
<1> DEFINE L == Len(es)
           y == Lines(es)
           Q(i) == ((i - 1) \div 4) + 1
           R(i) == ((i - 1) % 4) + 1
<1>1. /\ L \in Nat /\ y \in Seq(Bytes) /\ Len(y) = 4 * L /\ DOMAIN es = 1 .. L
      /\ DOMAIN y = 1 .. 4 * L
      /\ \A i \in 1 .. 4 * L : Q(i) \in 1 .. L /\ R(i) \in 1 .. 4 /\ y[i] = <<es[Q(i)], R(i)>>
  BY LinesAre, LenProperties
<1>2. \A i, j \in 1 .. 4 * L : Q(i) = Q(j) /\ R(i) = R(j) => i = j
  <2> SUFFICES ASSUME NEW i \in 1 .. 4 * L, NEW j \in 1 .. 4 * L, Q(i) = Q(j), R(i) = R(j)
               PROVE  i = j
    OBVIOUS
  <2>1. i = 4 * ((i - 1) \div 4) + ((i - 1) % 4) + 1 /\ j = 4 * ((j - 1) \div 4) + ((j - 1) % 4) + 1
    BY LinesAre
  <2>2. (i - 1) \div 4 = (j - 1) \div 4 /\ (i - 1) % 4 = (j - 1) % 4
    BY <1>1
  <2> QED
    BY <2>1, <2>2
<1> HIDE DEF Q, R, y
<1>3. \A i, j \in 1 .. 4 * L : y[i] = y[j] => i = j
  <2> SUFFICES ASSUME NEW i \in 1 .. 4 * L, NEW j \in 1 .. 4 * L, y[i] = y[j]
               PROVE  i = j
    OBVIOUS
  <2>1. es[Q(i)] = es[Q(j)] /\ R(i) = R(j)
    BY <1>1
  <2>2. Q(i) = Q(j)
    BY <1>1, <2>1 DEF IsInjective
  <2> QED
    BY <1>2, <2>1, <2>2
<1>4. EntriesIn(y) \subseteq ToSet(es)
  BY <1>1 DEF EntriesIn, ToSet
<1> QED
  BY <1>1, <1>3, <1>4, Zenon DEF IsInjective, y

(* A part of a log that is there is not changed by more bytes.             *)
LEMMA PrefixStays ==
    ASSUME NEW bytes \in Seq(Bytes), NEW x \in Seq(Bytes), NEW k \in 0 .. Len(bytes)
    PROVE  /\ SubSeq(bytes, 1, k) \in Seq(Bytes)
           /\ SubSeq(bytes \o x, 1, k) = SubSeq(bytes, 1, k)
           /\ SubSeq(bytes, 1, Len(bytes)) = bytes
           /\ IsInjective(bytes) => IsInjective(SubSeq(bytes, 1, k))
<1> DEFINE y == bytes \o x
           N == Len(bytes)
<1>1. /\ N \in Nat /\ y \in Seq(Bytes) /\ DOMAIN bytes = 1 .. N
      /\ \A i \in 1 .. N : y[i] = bytes[i] /\ bytes[i] \in Bytes
  <2>1. N \in Nat /\ Len(x) \in Nat /\ DOMAIN bytes = 1 .. N
    BY LenProperties
  <2>2. /\ y \in Seq(Bytes)
        /\ \A i \in 1 .. N + Len(x) : y[i] = IF i <= N THEN bytes[i] ELSE x[i - N]
    BY ConcatProperties
  <2>3. \A i \in 1 .. N : bytes[i] \in Bytes
    BY ElementOfSeq
  <2> HIDE DEF y
  <2> QED
    BY <2>1, <2>2, <2>3
<1> HIDE DEF y
<1>2. ASSUME NEW m \in 0 .. N
      PROVE  /\ SubSeq(bytes, 1, m) \in Seq(Bytes) /\ Len(SubSeq(bytes, 1, m)) = m
             /\ \A i \in 1 .. m : SubSeq(bytes, 1, m)[i] = bytes[i]
             /\ SubSeq(y, 1, m) \in Seq(Bytes) /\ Len(SubSeq(y, 1, m)) = m
             /\ \A i \in 1 .. m : SubSeq(y, 1, m)[i] = y[i]
  <2>1. \A i \in 1 .. m : bytes[i] \in Bytes /\ y[i] \in Bytes
    BY <1>1
  <2>2. m \in Nat
    BY <1>1
  <2> QED
    BY <2>1, <2>2, SubSeqProperties
<1>3. SubSeq(y, 1, k) = SubSeq(bytes, 1, k)
  <2>1. \A i \in 1 .. k : SubSeq(y, 1, k)[i] = SubSeq(bytes, 1, k)[i]
    BY <1>1, <1>2
  <2> QED
    BY <1>2, <2>1, SeqEqual
<1>4. SubSeq(bytes, 1, N) = bytes
  <2>1. N \in 0 .. N
    BY <1>1
  <2> QED
    BY <1>2, <2>1, SeqEqual
<1>5. ASSUME IsInjective(bytes)
      PROVE  IsInjective(SubSeq(bytes, 1, k))
  <2>1. DOMAIN SubSeq(bytes, 1, k) = 1 .. k
    BY <1>2, LenProperties
  <2>2. \A i \in 1 .. k : i \in DOMAIN bytes
    BY <1>1
  <2>3. \A i, j \in 1 .. k : SubSeq(bytes, 1, k)[i] = SubSeq(bytes, 1, k)[j] => i = j
    BY <1>2, <1>5, <2>2 DEF IsInjective
  <2> QED
    BY <2>1, <2>3, Zenon DEF IsInjective
<1> QED
  BY <1>2, <1>3, <1>4, <1>5 DEF y
==============================================================================
