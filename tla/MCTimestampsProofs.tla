------------------------- MODULE MCTimestampsProofs -------------------------
(* The bounded checks of MCTimestamps, proved: every state the harness     *)
(* walks satisfies TimestampsMatchReference, as an instance of the         *)
(* unbounded theorem GroupedIsReference, and the segment bound holds for  *)
(* exactly the durations and frame counts that avoid the fps fallback.    *)
EXTENDS MCTimestamps, TimestampsProofs

(* The harness keeps both inputs positive and within their bounds. *)
InputsInRange == n \in 1..MaxN /\ m \in 1..MaxM

LEMMA InputsInRangeInvariant == Spec => []InputsInRange
<1>1. Init => InputsInRange
  BY DEF Init, InputsInRange, MaxN, MaxM
<1>2. InputsInRange /\ [Next]_<<n, m>> => InputsInRange'
  BY DEF InputsInRange, Next, NextFrameCount, NextMergeSize, MaxN, MaxM
<1>3. QED
  BY <1>1, <1>2, PTL DEF Spec

(* For every input pair the harness reaches, the code's padded and        *)
(* averaged timestamps equal the spec's closed form (the property of run   *)
(* timestamps_reference, here for every state rather than a bounded run). *)
THEOREM TimestampsReferenceHolds == Spec => []TimestampsMatchReference
<1>1. InputsInRange => TimestampsMatchReference
  <2> SUFFICES ASSUME InputsInRange PROVE TimestampsMatchReference
    OBVIOUS
  <2>1. n \in Nat \ {0} /\ m \in Nat \ {0}
    BY DEF InputsInRange, MaxN, MaxM
  <2>2. QED
    BY <2>1, GroupedIsReference DEF TimestampsMatchReference
<1>2. QED
  BY <1>1, InputsInRangeInvariant, PTL

(* Arithmetic: multiplying both sides by a natural number keeps an order. *)
LEMMA MulMonotone ==
    ASSUME NEW a \in Nat, NEW b \in Nat, NEW d \in Nat, a <= b
    PROVE  a * d <= b * d
<1>1. (b - a) * d \in Nat
  OBVIOUS
<1>2. b * d - a * d = (b - a) * d
  OBVIOUS
<1>3. QED
  BY <1>1, <1>2

(* The derived frame rate keeps every patch timestamp inside the segment *)
(* exactly when the duration is positive or there is a single frame.  At  *)
(* duration 0 the 2.0 fps fallback of test_custom_fps.py:38 stamps the    *)
(* last patch at (n - 1) / 2 s or later, past the end of a segment of     *)
(* length 0, for every frame count n > 1 and merge size: the violation    *)
(* of run timestamps_outside_segment is no artefact of its bounds.         *)
THEOREM SegmentBoundIffDuration ==
    ASSUME NEW k \in Nat \ {0}, NEW s \in Nat \ {0}, NEW d \in Nat
    PROVE  WithinSegment(k, s, d) <=> (d > 0 \/ k = 1)
<1> DEFINE ts == GroupedTimestamps(k, s)
<1>1. ts \in Seq(Nat)
  BY GroupedTimestampsType
<1>2. \A g \in 1..Len(ts) : ts[g] <= 2 * (k - 1)
  BY TimestampsBounded
<1>3. CASE d > 0 /\ k > 1
  <2>1. EffectiveFps(k, d) = <<k - 1, d>>
    BY <1>3 DEF EffectiveFps
  <2>2. \A g \in 1..Len(ts) : ts[g] * d <= 2 * (k - 1) * d
    <3>1. TAKE g \in 1..Len(ts)
    <3>2. ts[g] \in Nat /\ ts[g] <= 2 * (k - 1)
      BY <1>1, <1>2
    <3>3. QED
      BY <1>3, <3>2, MulMonotone
  <2>3. QED
    BY <1>3, <2>1, <2>2 DEF WithinSegment
<1>4. CASE k = 1
  <2>1. EffectiveFps(k, d) = <<2, 1>>
    BY <1>4 DEF EffectiveFps
  <2>2. \A g \in 1..Len(ts) : ts[g] = 0
    BY <1>1, <1>2, <1>4
  <2>3. QED
    BY <1>4, <2>1, <2>2 DEF WithinSegment
<1>5. CASE d = 0 /\ k > 1
  <2>1. EffectiveFps(k, d) = <<2, 1>>
    BY <1>5 DEF EffectiveFps
  <2>2. Len(ts) \in Nat \ {0} /\ ts[Len(ts)] >= k - 1
    BY LastTimestampReachesLastFrame
  <2>3. ts[Len(ts)] \in Nat
    BY <1>1, <2>2
  <2>4. ~WithinSegment(k, s, d)
    <3>1. SUFFICES ASSUME WithinSegment(k, s, d) PROVE FALSE
      OBVIOUS
    <3>2. Len(ts) \in 1..Len(ts)
      BY <2>2
    <3>3. ts[Len(ts)] * EffectiveFps(k, d)[2] <= 2 * EffectiveFps(k, d)[1] * d
      BY <3>1, <3>2 DEF WithinSegment
    <3>4. QED
      BY <1>5, <2>1, <2>2, <2>3, <3>3
  <2>5. QED
    BY <1>5, <2>4
<1>6. QED
  BY <1>3, <1>4, <1>5

=============================================================================
