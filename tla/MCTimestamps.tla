---------------------------- MODULE MCTimestamps ----------------------------
(* Bounded check of the timestamp computation of test_custom_fps.py        *)
(* against the closed form of spec.md section 4.3: the state is one input  *)
(* pair (frame count n, merge size m), and the steps walk every pair with  *)
(* 1 <= n <= MaxN and 1 <= m <= MaxM, wrapping around at the bounds.       *)
EXTENDS Timestamps

MaxN == 30   \* frame counts up to 30: several groups for every merge size
MaxM == 4    \* merge sizes 1..4 cover the code's 2, the identity and odd sizes
MaxDur == 3  \* durations 0..3 s: the fallback at 0, then below, at and above n - 1

VARIABLES n, m

Init == n = 1 /\ m = 1

NextFrameCount == n' = (n % MaxN) + 1 /\ UNCHANGED m
NextMergeSize  == m' = (m % MaxM) + 1 /\ UNCHANGED n

Next == NextFrameCount \/ NextMergeSize

Spec == Init /\ [][Next]_<<n, m>>

(* The list built by padding frames_indices and averaging the first and    *)
(* last timestamp of every merge group (test_custom_fps.py:93-107) is, for *)
(* every n >= 1 and m >= 1, exactly the spec's sequence: ceil(n/m) groups, *)
(* group g represented by the mean of its first index and of its last,     *)
(* clamped to the last real frame.                                         *)
TimestampsMatchReference == GroupedTimestamps(n, m) = RefTimestamps(n, m)

(* The patch timestamps of n frames grouped by m, with the frame rate     *)
(* derived from duration d as in test_custom_fps.py:35-38, all lie within  *)
(* the segment [0, d].  A value v in half periods is v / (2 * fps)        *)
(* seconds, so with fps = num / den the bound reads v * den <= 2 * num * d. *)
WithinSegment(k, s, d) ==
    LET fps == EffectiveFps(k, d)
        ts  == GroupedTimestamps(k, s)
    IN  \A g \in 1..Len(ts) : ts[g] * fps[2] <= 2 * fps[1] * d

=============================================================================
