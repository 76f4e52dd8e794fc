----------------------------- MODULE Timestamps -----------------------------
(***************************************************************************)
(* The temporal-patch timestamps of a frame sequence, as computed in       *)
(* test_custom_fps.py (lines 93-107, which replicate the processor's       *)
(* _calculate_timestamps), and the effective-FPS derivation of lines       *)
(* 35-38.                                                                  *)
(*                                                                         *)
(* Timestamps are kept exact by measuring them in half sampling periods:   *)
(* a value v stands for v / (2 * effective_fps) seconds.  Index i has raw  *)
(* timestamp i / effective_fps, i.e. 2 * i half periods, and the average   *)
(* (t[i] + t[i+m-1]) / 2 of a group is t-index sum i + (i+m-1) half        *)
(* periods.  No division by the frame rate is needed, and none is lost.    *)
(***************************************************************************)
EXTENDS Naturals, Sequences

(* Mutant: the pad count is one short (m - n % m - 1). *)
PadLenShort(n, m) == IF n % m # 0 THEN n + (m - (n % m)) - 1 ELSE n

(* len(frames_indices) after the padding of lines 96-98: the list is       *)
(* extended by merge_size - n % merge_size copies of its last element when  *)
(* n is not a multiple of merge_size.                                       *)
PadLen(n, m) == IF n % m # 0 THEN n + (m - (n % m)) ELSE n

(* frames_indices = list(range(n)), padded by repeating its last index.     *)
(* Position k of the sequence holds Python index k - 1.                    *)
PaddedIndices(n, m) ==
    [k \in 1..PadLen(n, m) |-> IF k <= n THEN k - 1 ELSE n - 1]

(* averaged_timestamps (lines 101-107), in half periods: for every start    *)
(* i in range(0, len, m) the sum of the padded indices at i and i + m - 1. *)
(* The g-th group starts at position (g - 1) * m + 1.                      *)
GroupedTimestamps(n, m) ==
    LET p == PaddedIndices(n, m)
    IN  [g \in 1..(Len(p) \div m) |-> p[(g - 1) * m + 1] + p[(g - 1) * m + m]]

(* The same computation applied to the capture positions of the frames     *)
(* that survived: pos[k] is the 1-based position, in the requested batch,  *)
(* of the k-th frame that was fed to the processor.  This is what the      *)
(* timestamps would be if each frame kept its own capture index.           *)
CaptureTimestamps(pos, m) ==
    LET n == Len(pos)
        p == [k \in 1..PadLen(n, m) |-> IF k <= n THEN pos[k] - 1 ELSE pos[n] - 1]
    IN  [g \in 1..(Len(p) \div m) |-> p[(g - 1) * m + 1] + p[(g - 1) * m + m]]

(* effective_fps (lines 35-38) as a fraction <<num, den>>:                 *)
(* (n - 1) / duration when duration > 0 and n > 1, else the fallback 2.0.  *)
(* The duration is a whole number of seconds in this model.                *)
EffectiveFps(n, duration) ==
    IF duration > 0 /\ n > 1 THEN <<n - 1, duration>> ELSE <<2, 1>>

(* Reference definition, from the closed form of spec section 4.3: group g *)
(* covers Python indices (g-1)*m .. (g-1)*m + m - 1, padding repeats n-1,  *)
(* so its first element is (g-1)*m and its last is clamped to n - 1; there *)
(* are ceil(n / m) groups.                                                  *)
CeilDiv(n, m) == (n + m - 1) \div m

RefTimestamps(n, m) ==
    [g \in 1..CeilDiv(n, m) |->
        LET first == (g - 1) * m
            last  == (g - 1) * m + m - 1
        IN  first + (IF last < n THEN last ELSE n - 1)]

(***************************************************************************)
(* The temporal preamble (process_frame_batch_event.py:66-81).  Times are *)
(* taken in hundredths of a second, and what "{x:.1f}" prints is kept as  *)
(* the tenths of a second it shows.  A value that is not halfway between  *)
(* two tenths prints as the nearer one.  A halfway value x.x5 is rounded   *)
(* by its binary double, which may lie on either side of the tie (0.25 is *)
(* exact and prints 0.2, 0.35 lies below and prints 0.3, 0.45 lies above  *)
(* and prints 0.5), so both neighbours are possible outcomes.  Because    *)
(* hundredths that are not ties are at least 0.01 from a tie, the rounding *)
(* error of start_time + duration_seconds in floating point cannot change *)
(* the printed tenth.                                                      *)
(***************************************************************************)
Format1(h) ==
    IF h % 10 = 5 THEN {h \div 10, h \div 10 + 1} ELSE {(h + 5) \div 10}

(* The possible temporal_context texts, each as the pair of tenths it      *)
(* names ("spans from a/10 s to b/10 s"), or <<>> for the empty text.     *)
Describe(start, duration) ==
    IF start > 0
    THEN {<<a, b>> : a \in Format1(start), b \in Format1(start + duration)}
    ELSE {<<>>}

=============================================================================
