-------------------------- MODULE TimestampsProofs --------------------------
(***************************************************************************)
(* Facts about the timestamp computation of test_custom_fps.py, for every  *)
(* frame count and merge size.                                             *)
(***************************************************************************)
EXTENDS Timestamps, TLAPS

(* The padding makes the length a multiple of m and never drops a frame.  *)
LEMMA PadLenFacts ==
    ASSUME NEW n \in Nat, NEW m \in Nat \ {0}
    PROVE  /\ PadLen(n, m) \in Nat
           /\ n <= PadLen(n, m)
           /\ PadLen(n, m) % m = 0
           /\ PadLen(n, m) < n + m
           /\ n = 0 => PadLen(n, m) = 0
  BY DEF PadLen

(* Arithmetic: the g-th block of m in a length L that m divides lies     *)
(* inside 1..L.                                                            *)
LEMMA BlockInside ==
    ASSUME NEW L \in Nat, NEW m \in Nat \ {0}, L % m = 0,
           NEW g \in 1..(L \div m)
    PROVE  /\ (g - 1) * m + 1 \in 1..L
           /\ (g - 1) * m + m \in 1..L
<1>1. L = (L \div m) * m
  OBVIOUS
<1>2. g * m <= (L \div m) * m
  <2>1. (L \div m - g) * m \in Nat
    OBVIOUS
  <2>2. (L \div m) * m - g * m = (L \div m - g) * m
    OBVIOUS
  <2>3. QED
    BY <2>1, <2>2
<1>3. (g - 1) * m \in Nat /\ (g - 1) * m + m = g * m
  OBVIOUS
<1>4. QED
  BY <1>1, <1>2, <1>3

(* Every group's first and last position lies inside the padded list.     *)
LEMMA GroupBounds ==
    ASSUME NEW n \in Nat, NEW m \in Nat \ {0},
           NEW g \in 1..(PadLen(n, m) \div m)
    PROVE  /\ (g - 1) * m + 1 \in 1..PadLen(n, m)
           /\ (g - 1) * m + m \in 1..PadLen(n, m)
<1>1. PadLen(n, m) \in Nat /\ PadLen(n, m) % m = 0
  BY PadLenFacts
<1>2. QED
  BY <1>1, BlockInside

(* The timestamps form a sequence of natural numbers (half periods). *)
LEMMA GroupedTimestampsType ==
    ASSUME NEW n \in Nat, NEW m \in Nat \ {0}
    PROVE  GroupedTimestamps(n, m) \in Seq(Nat)
<1> DEFINE p == PaddedIndices(n, m)
<1>1. PadLen(n, m) \in Nat /\ n <= PadLen(n, m)
  BY PadLenFacts
<1>2. p \in [1..PadLen(n, m) -> Nat]
  <2>1. n = 0 => PadLen(n, m) = 0
    BY PadLenFacts
  <2>2. QED
    BY <1>1, <2>1 DEF PaddedIndices
<1>3. Len(p) = PadLen(n, m)
  BY <1>1, <1>2
<1>4. \A g \in 1..(PadLen(n, m) \div m) :
          p[(g - 1) * m + 1] + p[(g - 1) * m + m] \in Nat
  <2>1. TAKE g \in 1..(PadLen(n, m) \div m)
  <2>2. (g - 1) * m + 1 \in 1..PadLen(n, m) /\ (g - 1) * m + m \in 1..PadLen(n, m)
    BY GroupBounds
  <2>3. QED
    BY <1>2, <2>2
<1>5. PadLen(n, m) \div m \in Nat
  BY <1>1
<1>6. QED
  BY <1>3, <1>4, <1>5 DEF GroupedTimestamps
(* Arithmetic: a length that m divides is m times its quotient. *)
LEMMA DivExact ==
    ASSUME NEW L \in Nat, NEW m \in Nat \ {0}, L % m = 0
    PROVE  L = (L \div m) * m /\ L \div m \in Nat
  OBVIOUS

(* Arithmetic: in a length q * m < n + m, every block g <= q starts at or  *)
(* before n.                                                               *)
LEMMA BlockStart ==
    ASSUME NEW n \in Nat, NEW m \in Nat \ {0}, NEW q \in Nat,
           q * m < n + m, NEW g \in 1..q
    PROVE  (g - 1) * m + 1 <= n
<1>1. (q - g) * m \in Nat
  OBVIOUS
<1>2. q * m - m - (g - 1) * m = (q - g) * m
  OBVIOUS
<1>3. QED
  BY <1>1, <1>2

(* Arithmetic: q is the quotient of a by m when q * m <= a < q * m + m.   *)
LEMMA DivUnique ==
    ASSUME NEW a \in Nat, NEW m \in Nat \ {0}, NEW q \in Nat,
           q * m <= a, a < q * m + m
    PROVE  a \div m = q
<1>1. a = (a \div m) * m + (a % m) /\ a % m \in 0..(m - 1) /\ a \div m \in Nat
  OBVIOUS
<1>2. SUFFICES ASSUME a \div m # q PROVE FALSE
  OBVIOUS
<1>3. CASE a \div m < q
  <2>1. (a \div m) * m + m <= q * m
    <3>1. (q - a \div m - 1) * m \in Nat
      BY <1>1, <1>3
    <3>2. q * m - ((a \div m) * m + m) = (q - a \div m - 1) * m
      OBVIOUS
    <3>3. QED
      BY <3>1, <3>2
  <2>2. QED
    BY <1>1, <2>1
<1>4. CASE a \div m > q
  <2>1. q * m + m <= (a \div m) * m
    <3>1. (a \div m - q - 1) * m \in Nat
      BY <1>1, <1>4
    <3>2. (a \div m) * m - (q * m + m) = (a \div m - q - 1) * m
      OBVIOUS
    <3>3. QED
      BY <3>1, <3>2
  <2>2. QED
    BY <1>1, <2>1
<1>5. QED
  BY <1>1, <1>2, <1>3, <1>4

(* spec.md section 8: the computation returns exactly ceil(n / m)          *)
(* timestamps.                                                             *)
LEMMA GroupCount ==
    ASSUME NEW n \in Nat, NEW m \in Nat \ {0}
    PROVE  PadLen(n, m) \div m = CeilDiv(n, m)
<1> DEFINE L == PadLen(n, m)
<1>1. L \in Nat /\ n <= L /\ L % m = 0 /\ L < n + m
  BY PadLenFacts
<1>2. L = (L \div m) * m /\ L \div m \in Nat
  BY <1>1, DivExact
<1>3. (L \div m) * m <= n + m - 1 /\ n + m - 1 < (L \div m) * m + m
  BY <1>1, <1>2
<1>4. (n + m - 1) \div m = L \div m
  BY <1>2, <1>3, DivUnique
<1>5. QED
  BY <1>4 DEF CeilDiv

(* The code's padded-and-averaged list is the spec's closed form, for     *)
(* every frame count n >= 1 and merge size m >= 1.                         *)
THEOREM GroupedIsReference ==
    ASSUME NEW n \in Nat \ {0}, NEW m \in Nat \ {0}
    PROVE  GroupedTimestamps(n, m) = RefTimestamps(n, m)
<1> DEFINE L == PadLen(n, m)
           q == L \div m
           p == PaddedIndices(n, m)
<1>1. L \in Nat /\ n <= L /\ L % m = 0 /\ L < n + m
  BY PadLenFacts
<1>2. L = q * m /\ q \in Nat
  BY <1>1, DivExact
<1>3. q = CeilDiv(n, m)
  BY GroupCount
<1>4. p = [k \in 1..L |-> IF k <= n THEN k - 1 ELSE n - 1] /\ Len(p) = L
  BY <1>1 DEF PaddedIndices
<1>5. ASSUME NEW g \in 1..q
      PROVE  p[(g - 1) * m + 1] + p[(g - 1) * m + m] = RefTimestamps(n, m)[g]
  <2>1. (g - 1) * m + 1 \in 1..L /\ (g - 1) * m + m \in 1..L
    BY <1>1, BlockInside
  <2>2. (g - 1) * m + 1 <= n
    BY <1>1, <1>2, BlockStart
  <2>3. p[(g - 1) * m + 1] = (g - 1) * m
    BY <1>4, <2>1, <2>2
  <2>4. p[(g - 1) * m + m] = IF (g - 1) * m + m - 1 < n THEN (g - 1) * m + m - 1 ELSE n - 1
    BY <1>4, <2>1
  <2>5. RefTimestamps(n, m)[g] =
          (g - 1) * m + (IF (g - 1) * m + m - 1 < n THEN (g - 1) * m + m - 1 ELSE n - 1)
    BY <1>3 DEF RefTimestamps
  <2>6. QED
    BY <2>3, <2>4, <2>5
<1>6. QED
  BY <1>2, <1>3, <1>4, <1>5 DEF GroupedTimestamps, RefTimestamps


(* No patch timestamp lies past the last frame: every group's first index *)
(* is at most n - 1 and its last is clamped to n - 1 by the padding, so   *)
(* each timestamp is at most 2 * (n - 1) half periods, the instant of the *)
(* last frame (test_custom_fps.py:96-107).                                 *)
LEMMA TimestampsBounded ==
    ASSUME NEW n \in Nat \ {0}, NEW m \in Nat \ {0},
           NEW g \in 1..Len(GroupedTimestamps(n, m))
    PROVE  GroupedTimestamps(n, m)[g] <= 2 * (n - 1)
<1> DEFINE L == PadLen(n, m)
           q == CeilDiv(n, m)
<1>1. GroupedTimestamps(n, m) = RefTimestamps(n, m)
  BY GroupedIsReference
<1>2. q \in Nat /\ Len(RefTimestamps(n, m)) = q
  BY DEF CeilDiv, RefTimestamps
<1>3. g \in 1..q
  BY <1>1, <1>2
<1>4. q * m < n + m
  <2>1. L \in Nat /\ L % m = 0 /\ L < n + m
    BY PadLenFacts
  <2>2. L = (L \div m) * m
    BY <2>1, DivExact
  <2>3. L \div m = q
    BY GroupCount
  <2>4. QED
    BY <2>1, <2>2, <2>3
<1>5. (g - 1) * m + 1 <= n
  BY <1>2, <1>3, <1>4, BlockStart
<1>6. RefTimestamps(n, m)[g] =
        (g - 1) * m + (IF (g - 1) * m + m - 1 < n THEN (g - 1) * m + m - 1 ELSE n - 1)
  BY <1>3 DEF RefTimestamps
<1>7. QED
  BY <1>1, <1>5, <1>6

(* The last patch is stamped at least at the last frame: its last index  *)
(* is clamped to n - 1 by the padding (test_custom_fps.py:96-107), so its *)
(* timestamp is at least n - 1 half periods.                               *)
LEMMA LastTimestampReachesLastFrame ==
    ASSUME NEW n \in Nat \ {0}, NEW m \in Nat \ {0}
    PROVE  /\ Len(GroupedTimestamps(n, m)) \in Nat \ {0}
           /\ GroupedTimestamps(n, m)[Len(GroupedTimestamps(n, m))] >= n - 1
<1> DEFINE L == PadLen(n, m)
           q == CeilDiv(n, m)
<1>1. GroupedTimestamps(n, m) = RefTimestamps(n, m)
  BY GroupedIsReference
<1>2. q \in Nat \ {0} /\ Len(RefTimestamps(n, m)) = q
  BY DEF CeilDiv, RefTimestamps
<1>3. n <= q * m
  <2>1. L \in Nat /\ n <= L /\ L % m = 0
    BY PadLenFacts
  <2>2. L = (L \div m) * m
    BY <2>1, DivExact
  <2>3. L \div m = q
    BY GroupCount
  <2>4. QED
    BY <2>1, <2>2, <2>3
<1>4. RefTimestamps(n, m)[q] =
        (q - 1) * m + (IF (q - 1) * m + m - 1 < n THEN (q - 1) * m + m - 1 ELSE n - 1)
  BY <1>2 DEF RefTimestamps
<1>5. (q - 1) * m \in Nat /\ (q - 1) * m + m = q * m
  BY <1>2
<1>6. QED
  BY <1>1, <1>2, <1>3, <1>4, <1>5

=============================================================================
