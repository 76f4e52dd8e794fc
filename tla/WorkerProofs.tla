---------------------------- MODULE WorkerProofs ----------------------------
(***************************************************************************)
(* Proofs about the Worker specification, for every value of the bounds.   *)
(*                                                                         *)
(* TypeOK is not inductive by itself: a download step keeps pos within    *)
(* 1..MaxFrames+1 only because pos never passes the batch's frame count,   *)
(* which needs batch to point at a frame_batch already received; an Emit  *)
(* step keeps delivered a sequence of Results only because the summary in  *)
(* hand is a Result whenever stage = "emit".  IInv adds these facts, and   *)
(* the ones that make the delivered summaries faithful to their events.    *)
(***************************************************************************)
EXTENDS Worker, TimestampsProofs, SequenceTheorems, TLAPS

(* The frame_batch being processed: received, with data, after the        *)
(* "registered" reply that gave the key, and later than every summary     *)
(* already delivered.                                                      *)
BatchInHand ==
    stage # "idle" =>
        /\ phase = "listening"
        /\ batch \in 1..(next - 1)
        /\ msgs[batch] \in BatchMsg
        /\ msgs[batch].hasData
        /\ key = RelayKey
        /\ \E j \in 1..(batch - 1) : msgs[j].type = "registered"
        /\ \A i \in 1..Len(delivered) : delivered[i].batch < batch

(* The downloads so far: increasing positions below pos, and, once the    *)
(* loop is over, every uuid of the batch has been tried.                   *)
DownloadsSoFar ==
    /\ Len(images) < pos
    /\ IsIncreasing(images)
    /\ \A k \in 1..Len(images) : images[k] < pos
    /\ stage = "fetch" => pos <= msgs[batch].frames + 1
    /\ stage \in {"infer", "emit"} =>
          /\ images # <<>>
          /\ pos = msgs[batch].frames + 1

(* The summary in hand is the one Infer built from the downloads. *)
SummaryInHand ==
    stage = "emit" =>
        summary = [batch  |-> batch,
                   count  |-> Len(images),
                   frames |-> images,
                   ts     |-> GroupedTimestamps(Len(images), MergeSize)]

(* The key is only ever the one a "registered" reply carried. *)
KeyFromReply ==
    key = RelayKey => \E j \in 1..(next - 1) : msgs[j].type = "registered"

IInv ==
    /\ TypeOK
    /\ next <= Len(msgs) + 1
    /\ KeyFromReply
    /\ BatchInHand
    /\ DownloadsSoFar
    /\ SummaryInHand
    /\ DeliveredResultsFaithful
    /\ DeliveredInBatchOrder

-----------------------------------------------------------------------------
USE BoundsAssumption

LEMMA InitIInv == Init => IInv
<1> SUFFICES ASSUME Init PROVE IInv
  OBVIOUS
<1>1. TypeOK
  <2>1. msgs \in Seq(Msg) /\ Len(msgs) <= MaxMsgs /\ delivered \in Seq(Result)
    BY DEF Init
  <2>2. images \in Seq(1..MaxFrames)
    BY DEF Init
  <2>3. summary \in Result \cup {NoSummary}
    BY DEF Init
  <2>4. next \in 1..(MaxMsgs + 1) /\ batch \in 0..MaxMsgs /\ pos \in 1..(MaxFrames + 1)
    BY DEF Init
  <2>5. phase \in Phases /\ key \in {NoKey, RelayKey}
        /\ stage \in {"idle", "fetch", "infer", "emit"} /\ exitCause \in Causes
    BY DEF Init, Phases, Causes
  <2>6. wsOpen \in BOOLEAN
    BY Zenon DEF Init
  <2>7. QED
    BY <2>1, <2>2, <2>3, <2>4, <2>5, <2>6 DEF TypeOK
<1>2. next <= Len(msgs) + 1 /\ BatchInHand /\ SummaryInHand /\ KeyFromReply
  BY DEF Init, BatchInHand, SummaryInHand, KeyFromReply
<1>3. DownloadsSoFar
  BY DEF Init, DownloadsSoFar, IsIncreasing
<1>4. DeliveredResultsFaithful /\ DeliveredInBatchOrder
  BY DEF Init, DeliveredResultsFaithful, DeliveredInBatchOrder
<1>5. QED
  BY <1>1, <1>2, <1>3, <1>4 DEF IInv

(* What a frame_batch message and a summary carry. *)
LEMMA BatchMsgFields ==
    ASSUME NEW b \in BatchMsg
    PROVE  /\ b.type = "frame_batch"
           /\ b.frames \in 0..MaxFrames
<1>1. CASE b \in [type: {"frame_batch"}, frames: 0..MaxFrames, hasData: {TRUE}]
  BY <1>1, Zenon
<1>2. CASE b = [type |-> "frame_batch", frames |-> 0, hasData |-> FALSE]
  <2>1. b.type = "frame_batch" /\ b.frames = 0
    BY <1>2, Zenon
  <2>2. QED
    BY <2>1
<1>3. QED
  BY <1>1, <1>2 DEF BatchMsg

LEMMA FrameBatchIsBatchMsg ==
    ASSUME NEW m \in Msg, m.type = "frame_batch"
    PROVE  m \in BatchMsg
  BY DEF Msg

LEMMA ResultFields ==
    ASSUME NEW r \in Result
    PROVE  /\ r.batch \in 1..MaxMsgs
           /\ r.count \in 1..MaxFrames
           /\ r.frames \in Seq(1..MaxFrames)
  BY DEF Result

(* Appending a value above every element keeps a sequence increasing. *)
LEMMA IncreasingAppend ==
    ASSUME NEW s \in Seq(Int), NEW x \in Int, IsIncreasing(s),
           \A k \in 1..Len(s) : s[k] < x
    PROVE  IsIncreasing(Append(s, x))
<1> DEFINE t == Append(s, x)
<1>1. Len(t) = Len(s) + 1 /\ t[Len(s) + 1] = x
      /\ \A k \in 1..Len(s) : t[k] = s[k]
  OBVIOUS
<1>2. SUFFICES ASSUME NEW i \in 1..Len(t), NEW j \in 1..Len(t), i < j
               PROVE  t[i] < t[j]
  BY DEF IsIncreasing
<1>3. i \in 1..Len(s)
  BY <1>1, <1>2
<1>4. CASE j \in 1..Len(s)
  BY <1>1, <1>2, <1>3, <1>4 DEF IsIncreasing
<1>5. CASE j = Len(s) + 1
  BY <1>1, <1>3, <1>5
<1>6. QED
  BY <1>1, <1>4, <1>5

(* A range 1..(a - 1) only grows with a. *)
LEMMA RangeGrows ==
    ASSUME NEW a \in Nat, NEW b \in Nat, a <= b, NEW j \in 1..(a - 1)
    PROVE  j \in 1..(b - 1)
  OBVIOUS

(* A step that reads further in the stream, and touches neither the stream *)
(* nor what was delivered, keeps the delivered history faithful.           *)
LEMMA MonotoneNextHistory ==
    ASSUME DeliveredResultsFaithful, DeliveredInBatchOrder,
           delivered \in Seq(Result),
           next \in Nat, next' \in Nat, next <= next',
           UNCHANGED <<msgs, delivered>>
    PROVE  DeliveredResultsFaithful' /\ DeliveredInBatchOrder'
<1>1. \A i \in 1..Len(delivered) : delivered[i].batch \in Nat
  BY ResultFields
<1>2. DeliveredResultsFaithful'
  BY <1>1 DEF DeliveredResultsFaithful, IsIncreasing
<1>3. DeliveredInBatchOrder'
  BY DEF DeliveredInBatchOrder
<1>4. QED
  BY <1>2, <1>3

(* ... and keeps the key justified by a reply already read. *)
LEMMA MonotoneNextKey ==
    ASSUME KeyFromReply, next \in Nat, next' \in Nat, next <= next',
           UNCHANGED <<msgs, key>>
    PROVE  KeyFromReply'
<1>1. SUFFICES ASSUME key' = RelayKey
               PROVE  \E j \in 1..(next' - 1) : msgs'[j].type = "registered"
  BY DEF KeyFromReply
<1>2. PICK j \in 1..(next - 1) : msgs[j].type = "registered"
  BY <1>1 DEF KeyFromReply
<1>3. msgs' = msgs
  BY Zenon
<1>4. j \in 1..(next' - 1)
  BY <1>2, RangeGrows
<1>5. QED
  BY <1>2, <1>3, <1>4

(* An exception that leaves run() keeps the invariant: nothing is in hand *)
(* any more and the history is untouched.                                  *)
LEMMA CrashIInv ==
    ASSUME IInv, NEW c \in Causes, Crash(c)
    PROVE  IInv'
<1> USE DEF IInv, TypeOK, BatchInHand, DownloadsSoFar, SummaryInHand,
            DeliveredResultsFaithful, DeliveredInBatchOrder, IsIncreasing,
            KeyFromReply, Crash, Phases
<1>1. wsOpen' \in BOOLEAN
  BY Zenon
<1>2. QED
  BY <1>1

(* The relay appends to the stream; what was read stays as it was. *)
LEMMA RelaySendIInv ==
    ASSUME IInv, NEW msg \in Msg, RelaySend(msg)
    PROVE  IInv'
<1> USE DEF IInv, TypeOK, RelaySend, relayVars, batchVars
<1>1. /\ msgs' \in Seq(Msg)
      /\ Len(msgs') = Len(msgs) + 1
      /\ \A i \in 1..Len(msgs) : msgs'[i] = msgs[i]
  OBVIOUS
<1>2. stage # "idle" => batch \in 1..Len(msgs)
  BY DEF BatchInHand
<1>3. \A i \in 1..Len(delivered) : delivered[i].batch \in 1..Len(msgs)
  <2>1. SUFFICES ASSUME NEW i \in 1..Len(delivered)
                 PROVE  delivered[i].batch \in 1..Len(msgs)
    OBVIOUS
  <2>2. delivered[i].batch \in 1..MaxMsgs
    BY ResultFields
  <2>3. delivered[i].batch < next
    BY DEF DeliveredResultsFaithful
  <2>4. QED
    BY <2>2, <2>3
<1>4. TypeOK'
  <2>1. wsOpen' \in BOOLEAN
    BY Zenon
  <2>2. QED
    BY <1>1, <2>1
<1>5. BatchInHand'
  <2>1. SUFFICES ASSUME stage # "idle" PROVE BatchInHand'
    BY DEF BatchInHand
  <2>2. batch \in 1..Len(msgs) /\ msgs'[batch] = msgs[batch]
    BY <1>1, <1>2, <2>1
  <2>3. PICK j \in 1..(batch - 1) : msgs[j].type = "registered"
    BY <2>1 DEF BatchInHand
  <2>4. msgs'[j] = msgs[j]
    BY <1>1, <2>2
  <2>5. QED
    BY <2>1, <2>2, <2>3, <2>4 DEF BatchInHand
<1>6. DownloadsSoFar'
  BY <1>1, <1>2 DEF DownloadsSoFar, IsIncreasing
<1>7. DeliveredResultsFaithful'
  BY <1>1, <1>3 DEF DeliveredResultsFaithful, IsIncreasing
<1>8. KeyFromReply'
  <2>1. SUFFICES ASSUME key' = RelayKey
                 PROVE  \E j \in 1..(next' - 1) : msgs'[j].type = "registered"
    BY DEF KeyFromReply
  <2>2. PICK j \in 1..(next - 1) : msgs[j].type = "registered"
    BY <2>1 DEF KeyFromReply
  <2>3. msgs'[j] = msgs[j]
    BY <1>1
  <2>4. QED
    BY <2>2, <2>3
<1>9. QED
  BY <1>1, <1>4, <1>5, <1>6, <1>7, <1>8 DEF SummaryInHand, DeliveredInBatchOrder

(* The invariant except for its type part. *)
Core ==
    /\ next <= Len(msgs) + 1
    /\ KeyFromReply
    /\ BatchInHand
    /\ DownloadsSoFar
    /\ SummaryInHand
    /\ DeliveredResultsFaithful
    /\ DeliveredInBatchOrder

LEMMA NextIInv == IInv /\ [Next]_vars => IInv'
<1> SUFFICES ASSUME TypeOK, next <= Len(msgs) + 1, KeyFromReply, BatchInHand,
                    DownloadsSoFar, SummaryInHand, DeliveredResultsFaithful,
                    DeliveredInBatchOrder, [Next]_vars
             PROVE  TypeOK' /\ Core'
  BY DEF IInv, Core
<1> USE DEF HasMsg, CurMsg, relayVars, batchVars
<1>a. IInv
  BY DEF IInv
<1>b. /\ next \in 1..(MaxMsgs + 1) /\ batch \in Nat /\ pos \in 1..(MaxFrames + 1)
      /\ Len(msgs) <= MaxMsgs
      /\ msgs \in Seq(Msg) /\ images \in Seq(1..MaxFrames)
      /\ key \in {NoKey, RelayKey} /\ delivered \in Seq(Result)
      /\ summary \in Result \cup {NoSummary}
  BY DEF TypeOK
<1>c. stage # "idle" =>
         /\ phase = "listening"
         /\ batch \in 1..(next - 1)
         /\ batch \in 1..Len(msgs)
         /\ msgs[batch].frames \in 0..MaxFrames
         /\ msgs[batch].type = "frame_batch"
         /\ msgs[batch].hasData
         /\ \A i \in 1..Len(delivered) : delivered[i].batch < batch
  <2>1. SUFFICES ASSUME stage # "idle"
                 PROVE  /\ phase = "listening"
                        /\ batch \in 1..(next - 1)
                        /\ batch \in 1..Len(msgs)
                        /\ msgs[batch].frames \in 0..MaxFrames
                        /\ msgs[batch].type = "frame_batch"
                        /\ msgs[batch].hasData
                        /\ \A i \in 1..Len(delivered) :
                              delivered[i].batch < batch
    OBVIOUS
  <2>2. /\ phase = "listening"
        /\ batch \in 1..(next - 1)
        /\ msgs[batch] \in BatchMsg
        /\ msgs[batch].hasData
        /\ \A i \in 1..Len(delivered) : delivered[i].batch < batch
    BY <2>1 DEF BatchInHand
  <2>3. msgs[batch].frames \in 0..MaxFrames /\ msgs[batch].type = "frame_batch"
    BY <2>2, BatchMsgFields
  <2>4. QED
    BY <1>b, <2>2, <2>3
<1>d. HasMsg => msgs[next] \in Msg
  BY <1>b
<1>0. wsOpen' \in BOOLEAN
  BY Zenon DEF TypeOK, Next, WorkerStep, RelayStep, Connect, SendRegister,
     RecvRegistration, ReceiveBatch, SkipMessage, ReceiveMalformed,
     ConnectionEnds, FetchFrame, FinishDownloads, Infer, Emit, RelaySend,
     RelayClose, Crash, vars
<1>1. CASE Connect
  <2>1. TypeOK'
    BY <1>0, <1>1 DEF TypeOK, Connect, Crash, Phases, Causes
  <2>2. Core'
    BY <1>1, <1>c DEF Core, Connect, Crash, KeyFromReply, BatchInHand,
       DownloadsSoFar, SummaryInHand, DeliveredResultsFaithful,
       DeliveredInBatchOrder, IsIncreasing
  <2>3. QED
    BY <2>1, <2>2
<1>2. CASE SendRegister
  <2>1. TypeOK'
    BY <1>0, <1>2 DEF TypeOK, SendRegister, Crash, Phases, Causes
  <2>2. Core'
    BY <1>2, <1>c DEF Core, SendRegister, Crash, KeyFromReply, BatchInHand,
       DownloadsSoFar, SummaryInHand, DeliveredResultsFaithful,
       DeliveredInBatchOrder, IsIncreasing
  <2>3. QED
    BY <2>1, <2>2
<1>3. CASE RecvRegistration
  <2>1. CASE /\ HasMsg
             /\ CurMsg.type # "malformed"
             /\ key' = IF CurMsg.type = "registered" THEN RelayKey ELSE key
             /\ next' = next + 1
             /\ phase' = "listening"
             /\ UNCHANGED <<relayVars, batchVars, exitCause>>
    <3>1. TypeOK'
      BY <1>0, <1>b, <2>1 DEF TypeOK, Phases
    <3>2. KeyFromReply'
      <4>1. CASE CurMsg.type = "registered"
        BY <1>b, <2>1, <4>1 DEF KeyFromReply
      <4>2. CASE CurMsg.type # "registered"
        BY <1>b, <2>1, <4>2, MonotoneNextKey
      <4>3. QED
        BY <4>1, <4>2
    <3>3. stage = "idle"
      BY <1>3, <1>c DEF RecvRegistration
    <3>4. (DeliveredResultsFaithful /\ DeliveredInBatchOrder)'
      BY <1>b, <2>1, MonotoneNextHistory
    <3>5. (next <= Len(msgs) + 1 /\ BatchInHand /\ DownloadsSoFar
           /\ SummaryInHand)'
      BY <1>b, <2>1, <3>3 DEF BatchInHand, DownloadsSoFar, SummaryInHand,
         IsIncreasing
    <3>6. QED
      BY <3>1, <3>2, <3>4, <3>5 DEF Core
  <2>2. CASE Crash("register")
    BY <1>a, <2>2, CrashIInv DEF Causes, IInv, Core
  <2>3. QED
    BY <1>3, <2>1, <2>2 DEF RecvRegistration
<1>4. CASE ReceiveBatch
  <2>1. /\ next \in 1..Len(msgs)
        /\ phase = "listening"
        /\ msgs[next].type = "frame_batch"
        /\ msgs[next].hasData
        /\ key # NoKey
        /\ stage = "idle"
        /\ next' = next + 1 /\ stage' = "fetch" /\ batch' = next
        /\ pos' = 1 /\ images' = <<>>
        /\ UNCHANGED <<relayVars, phase, key, summary, exitCause>>
    BY <1>4, <1>b DEF ReceiveBatch
  <2>2. msgs[next] \in BatchMsg
    BY <1>d, <2>1, FrameBatchIsBatchMsg
  <2>3. msgs[next].frames \in Nat
    BY <2>2, BatchMsgFields
  <2>4. key = RelayKey
    BY <1>b, <2>1
  <2>5. TypeOK'
    BY <1>0, <1>b, <2>1 DEF TypeOK
  <2>6. BatchInHand'
    <3>1. \E j \in 1..(next - 1) : msgs[j].type = "registered"
      BY <2>4 DEF KeyFromReply
    <3>2. \A i \in 1..Len(delivered) : delivered[i].batch < next
      BY DEF DeliveredResultsFaithful
    <3>3. QED
      BY <1>b, <2>1, <2>2, <2>4, <3>1, <3>2 DEF BatchInHand
  <2>7. DownloadsSoFar'
    BY <2>1, <2>3 DEF DownloadsSoFar, IsIncreasing
  <2>8. (KeyFromReply /\ DeliveredResultsFaithful /\ DeliveredInBatchOrder)'
    BY <1>b, <2>1, MonotoneNextHistory, MonotoneNextKey
  <2>9. (next <= Len(msgs) + 1 /\ SummaryInHand)'
    BY <2>1 DEF SummaryInHand
  <2>10. QED
    BY <2>5, <2>6, <2>7, <2>8, <2>9 DEF Core
<1>5. CASE SkipMessage
  <2>1. /\ next \in 1..Len(msgs) /\ stage = "idle" /\ next' = next + 1
        /\ UNCHANGED <<relayVars, phase, key, batchVars, exitCause>>
    BY <1>5, <1>b DEF SkipMessage
  <2>2. TypeOK'
    BY <1>0, <1>b, <2>1 DEF TypeOK
  <2>3. (KeyFromReply /\ DeliveredResultsFaithful /\ DeliveredInBatchOrder)'
    BY <1>b, <2>1, MonotoneNextHistory, MonotoneNextKey
  <2>4. (next <= Len(msgs) + 1 /\ BatchInHand /\ DownloadsSoFar
         /\ SummaryInHand)'
    BY <2>1 DEF BatchInHand, DownloadsSoFar, SummaryInHand, IsIncreasing
  <2>5. QED
    BY <2>2, <2>3, <2>4 DEF Core
<1>6. CASE ReceiveMalformed
  BY <1>a, <1>6, CrashIInv DEF ReceiveMalformed, Causes, IInv, Core
<1>7. CASE ConnectionEnds
  <2>1. TypeOK'
    BY <1>0, <1>7 DEF TypeOK, ConnectionEnds, Phases
  <2>2. Core'
    BY <1>7 DEF ConnectionEnds, Core, KeyFromReply, BatchInHand,
       DownloadsSoFar, SummaryInHand, DeliveredResultsFaithful,
       DeliveredInBatchOrder, IsIncreasing
  <2>3. QED
    BY <2>1, <2>2
<1>8. CASE FetchFrame
  <2>0. /\ stage = "fetch"
        /\ pos <= msgs[batch].frames
        /\ msgs[batch].frames \in 0..MaxFrames
        /\ pos \in 1..MaxFrames
    BY <1>8, <1>b, <1>c DEF FetchFrame
  <2>1. CASE /\ images' = Append(images, pos)
             /\ pos' = pos + 1
             /\ UNCHANGED <<relayVars, phase, key, next, stage, batch,
                            summary, exitCause>>
    <3>1. /\ Len(images') = Len(images) + 1
          /\ \A k \in 1..Len(images) : images'[k] = images[k]
          /\ images'[Len(images) + 1] = pos
          /\ images' \in Seq(1..MaxFrames)
      BY <1>b, <2>0, <2>1
    <3>2. TypeOK'
      BY <1>0, <1>b, <2>0, <2>1, <3>1 DEF TypeOK
    <3>3. IsIncreasing(images')
      <4>1. IsIncreasing(images) /\ \A k \in 1..Len(images) : images[k] < pos
        BY DEF DownloadsSoFar
      <4>2. images \in Seq(Int) /\ pos \in Int
        BY <1>b
      <4>3. QED
        BY <2>1, <4>1, <4>2, IncreasingAppend
    <3>4. \A k \in 1..Len(images') : images'[k] < pos'
      <4>1. \A k \in 1..Len(images) : images[k] < pos
        BY DEF DownloadsSoFar
      <4>2. QED
        BY <1>b, <2>1, <3>1, <4>1
    <3>5. DownloadsSoFar'
      <4>1. Len(images') < pos'
        BY <1>b, <2>1, <3>1 DEF DownloadsSoFar
      <4>2. (stage = "fetch" => pos <= msgs[batch].frames + 1)'
        BY <2>0, <2>1
      <4>3. QED
        BY <2>0, <2>1, <3>3, <3>4, <4>1, <4>2 DEF DownloadsSoFar
    <3>6. (next <= Len(msgs) + 1 /\ KeyFromReply /\ BatchInHand /\ SummaryInHand
           /\ DeliveredResultsFaithful /\ DeliveredInBatchOrder)'
      BY <2>0, <2>1 DEF KeyFromReply, BatchInHand, SummaryInHand,
         DeliveredResultsFaithful, DeliveredInBatchOrder, IsIncreasing
    <3>7. QED
      BY <3>2, <3>5, <3>6 DEF Core
  <2>2. CASE /\ pos' = pos + 1
             /\ UNCHANGED <<relayVars, phase, key, next, stage, batch,
                            images, summary, exitCause>>
    <3>1. TypeOK'
      BY <1>0, <1>b, <2>0, <2>2 DEF TypeOK
    <3>2. DownloadsSoFar'
      <4>1. \A k \in 1..Len(images) : images[k] \in Nat
        BY <1>b
      <4>2. Len(images) < pos /\ \A k \in 1..Len(images) : images[k] < pos
        BY DEF DownloadsSoFar
      <4>3. Len(images') < pos' /\ \A k \in 1..Len(images') : images'[k] < pos'
        BY <1>b, <2>2, <4>1, <4>2
      <4>4. (stage = "fetch" => pos <= msgs[batch].frames + 1)'
        BY <2>0, <2>2
      <4>5. QED
        BY <2>0, <2>2, <4>3, <4>4 DEF DownloadsSoFar
    <3>3. (next <= Len(msgs) + 1 /\ KeyFromReply /\ BatchInHand /\ SummaryInHand
           /\ DeliveredResultsFaithful /\ DeliveredInBatchOrder)'
      BY <2>0, <2>2 DEF KeyFromReply, BatchInHand, SummaryInHand,
         DeliveredResultsFaithful, DeliveredInBatchOrder, IsIncreasing
    <3>4. QED
      BY <3>1, <3>2, <3>3 DEF Core
  <2>3. CASE Crash("decode")
    BY <1>a, <2>3, CrashIInv DEF Causes, IInv, Core
  <2>4. QED
    BY <1>8, <2>1, <2>2, <2>3 DEF FetchFrame
<1>9. CASE FinishDownloads
  <2>1. CASE /\ images # <<>>
             /\ stage' = "infer"
             /\ UNCHANGED <<relayVars, phase, key, next, batch, pos, images,
                            summary, exitCause>>
    <3>1. /\ stage = "fetch"
          /\ pos > msgs[batch].frames
          /\ msgs[batch].frames \in 0..MaxFrames
      BY <1>9, <1>c DEF FinishDownloads
    <3>2. pos = msgs[batch].frames + 1
      <4>1. pos <= msgs[batch].frames + 1
        BY <3>1 DEF DownloadsSoFar
      <4>2. QED
        BY <1>b, <3>1, <4>1
    <3>3. TypeOK'
      BY <1>0, <2>1 DEF TypeOK
    <3>4. DownloadsSoFar'
      BY <2>1, <3>2 DEF DownloadsSoFar, IsIncreasing
    <3>5. (next <= Len(msgs) + 1 /\ KeyFromReply /\ BatchInHand /\ SummaryInHand
           /\ DeliveredResultsFaithful /\ DeliveredInBatchOrder)'
      BY <2>1, <3>1 DEF KeyFromReply, BatchInHand, SummaryInHand,
         DeliveredResultsFaithful, DeliveredInBatchOrder, IsIncreasing
    <3>6. QED
      BY <3>3, <3>4, <3>5 DEF Core
  <2>2. CASE Crash("empty")
    BY <1>a, <2>2, CrashIInv DEF Causes, IInv, Core
  <2>3. QED
    BY <1>9, <2>1, <2>2 DEF FinishDownloads
<1>10. CASE Infer
  <2>1. CASE /\ ModelLoaded
             /\ summary' = [batch  |-> batch,
                            count  |-> Len(images),
                            frames |-> images,
                            ts     |-> GroupedTimestamps(Len(images), MergeSize)]
             /\ stage' = "emit"
             /\ UNCHANGED <<relayVars, phase, key, next, batch, pos, images,
                            exitCause>>
    <3>1. /\ stage = "infer"
          /\ batch \in 1..MaxMsgs
          /\ images # <<>>
          /\ Len(images) < pos
      BY <1>10, <1>b, <1>c DEF Infer, DownloadsSoFar
    <3>2. Len(images) \in 1..MaxFrames
      BY <1>b, <3>1
    <3>3. GroupedTimestamps(Len(images), MergeSize) \in Seq(Nat)
      BY <3>2, GroupedTimestampsType
    <3>4. summary' \in Result
      BY <1>b, <2>1, <3>1, <3>2, <3>3 DEF Result
    <3>5. TypeOK'
      BY <1>0, <2>1, <3>4 DEF TypeOK
    <3>6. Core'
      BY <2>1, <3>1 DEF Core, KeyFromReply, BatchInHand, DownloadsSoFar,
         SummaryInHand, DeliveredResultsFaithful, DeliveredInBatchOrder,
         IsIncreasing
    <3>7. QED
      BY <3>5, <3>6
  <2>2. CASE Crash("inference")
    BY <1>a, <2>2, CrashIInv DEF Causes, IInv, Core
  <2>3. QED
    BY <1>10, <2>1, <2>2 DEF Infer
<1>11. CASE Emit
  <2>0. /\ stage = "emit"
        /\ stage' = "idle" /\ batch' = 0 /\ summary' = NoSummary
        /\ UNCHANGED <<msgs, wsOpen, phase, key, next, pos, images, exitCause>>
        /\ \/ delivered' = Append(delivered, summary)
           \/ UNCHANGED delivered
    BY <1>11 DEF Emit
  <2>1. /\ batch \in 1..(next - 1)
        /\ msgs[batch].type = "frame_batch"
        /\ msgs[batch].hasData
        /\ msgs[batch].frames \in 0..MaxFrames
        /\ \A i \in 1..Len(delivered) : delivered[i].batch < batch
    BY <2>0, <1>c
  <2>2. /\ images # <<>>
        /\ Len(images) < pos
        /\ pos = msgs[batch].frames + 1
        /\ IsIncreasing(images)
        /\ \A k \in 1..Len(images) : images[k] < pos
    BY <2>0 DEF DownloadsSoFar
  <2>3. summary = [batch  |-> batch,
                   count  |-> Len(images),
                   frames |-> images,
                   ts     |-> GroupedTimestamps(Len(images), MergeSize)]
    BY <2>0 DEF SummaryInHand
  <2>4. summary \in Result
    <3>1. summary # NoSummary
      BY <2>1, <2>3 DEF NoSummary
    <3>2. QED
      BY <1>b, <3>1
  <2>5. CASE delivered' = Append(delivered, summary)
    <3>1. /\ delivered' \in Seq(Result)
          /\ Len(delivered') = Len(delivered) + 1
          /\ \A i \in 1..Len(delivered) : delivered'[i] = delivered[i]
          /\ delivered'[Len(delivered) + 1] = summary
      BY <1>b, <2>4, <2>5
    <3>2. TypeOK'
      BY <1>0, <2>0, <3>1 DEF TypeOK
    <3>3. DeliveredResultsFaithful'
      <4>1. Faithful(s, m, n) ==
              /\ s.batch < n
              /\ m[s.batch].type = "frame_batch"
              /\ m[s.batch].hasData
              /\ s.count = Len(s.frames)
              /\ 1 <= s.count /\ s.count <= m[s.batch].frames
              /\ IsIncreasing(s.frames)
              /\ \A k \in 1..Len(s.frames) : s.frames[k] <= m[s.batch].frames
      <4>2. SUFFICES ASSUME NEW i \in 1..Len(delivered')
                     PROVE  Faithful(delivered'[i], msgs', next')
        BY DEF DeliveredResultsFaithful
      <4>3. CASE i \in 1..Len(delivered)
        BY <2>0, <3>1, <4>3 DEF DeliveredResultsFaithful
      <4>4. CASE i = Len(delivered) + 1
        <5>1. delivered'[i] = summary
          BY <3>1, <4>4
        <5>0. /\ summary.batch = batch
              /\ summary.count = Len(images)
              /\ summary.frames = images
          BY <2>3
        <5>2. summary.batch < next /\ summary.count = Len(summary.frames)
          BY <1>b, <2>1, <5>0
        <5>3. msgs[summary.batch].type = "frame_batch"
              /\ msgs[summary.batch].hasData
          BY <2>1, <5>0
        <5>4. 1 <= summary.count /\ summary.count <= msgs[summary.batch].frames
          <6>0. Len(images) \in Nat \ {0}
            BY <1>b, <2>2, EmptySeq
          <6>1. Len(images) \in 1..msgs[batch].frames
            BY <2>1, <2>2, <6>0
          <6>2. QED
            BY <5>0, <6>1
        <5>5. IsIncreasing(summary.frames)
          BY <2>2, <5>0
        <5>6. \A k \in 1..Len(summary.frames) :
                 summary.frames[k] <= msgs[summary.batch].frames
          <6>1. \A k \in 1..Len(images) : images[k] \in Nat
            BY <1>b
          <6>2. \A k \in 1..Len(images) : images[k] <= msgs[batch].frames
            <7>1. SUFFICES ASSUME NEW k \in 1..Len(images)
                           PROVE  images[k] <= msgs[batch].frames
              OBVIOUS
            <7>2. images[k] \in Nat /\ images[k] < pos
              BY <2>2, <6>1
            <7>3. QED
              BY <2>1, <2>2, <7>2
          <6>3. QED
            BY <5>0, <6>2
        <5>7. QED
          BY <2>0, <5>1, <5>2, <5>3, <5>4, <5>5, <5>6
      <4>5. QED
        BY <1>b, <3>1, <4>3, <4>4
    <3>4. DeliveredInBatchOrder'
      <4>1. SUFFICES ASSUME NEW i \in 1..Len(delivered'),
                            NEW j \in 1..Len(delivered'), i < j
                     PROVE  delivered'[i].batch < delivered'[j].batch
        BY DEF DeliveredInBatchOrder
      <4>2. CASE j \in 1..Len(delivered)
        BY <3>1, <4>1, <4>2 DEF DeliveredInBatchOrder
      <4>3. CASE j = Len(delivered) + 1
        BY <2>1, <2>3, <3>1, <4>1, <4>3
      <4>4. QED
        BY <1>b, <3>1, <4>2, <4>3
    <3>5. (next <= Len(msgs) + 1 /\ KeyFromReply /\ BatchInHand
           /\ DownloadsSoFar /\ SummaryInHand)'
      BY <2>0 DEF KeyFromReply, BatchInHand, DownloadsSoFar, SummaryInHand,
         IsIncreasing
    <3>6. QED
      BY <3>2, <3>3, <3>4, <3>5 DEF Core
  <2>6. CASE UNCHANGED delivered
    <3>1. TypeOK'
      BY <1>0, <2>0, <2>6 DEF TypeOK
    <3>2. Core'
      BY <2>0, <2>6 DEF Core, KeyFromReply, BatchInHand, DownloadsSoFar,
         SummaryInHand, DeliveredResultsFaithful, DeliveredInBatchOrder,
         IsIncreasing
    <3>3. QED
      BY <3>1, <3>2
  <2>7. QED
    BY <2>0, <2>5, <2>6
<1>12. CASE \E msg \in Msg : RelaySend(msg)
  BY <1>a, <1>12, RelaySendIInv DEF IInv, Core
<1>13. CASE RelayClose
  <2>1. TypeOK'
    BY <1>0, <1>13 DEF TypeOK, RelayClose
  <2>2. Core'
    BY <1>13 DEF RelayClose, Core, KeyFromReply, BatchInHand, DownloadsSoFar,
       SummaryInHand, DeliveredResultsFaithful, DeliveredInBatchOrder,
       IsIncreasing
  <2>3. QED
    BY <2>1, <2>2
<1>14. CASE UNCHANGED vars
  <2>1. TypeOK'
    BY <1>0, <1>14 DEF TypeOK, vars
  <2>2. Core'
    BY <1>14 DEF vars, Core, KeyFromReply, BatchInHand, DownloadsSoFar,
       SummaryInHand, DeliveredResultsFaithful, DeliveredInBatchOrder,
       IsIncreasing
  <2>3. QED
    BY <2>1, <2>2
<1>15. QED
  BY <1>1, <1>2, <1>3, <1>4, <1>5, <1>6, <1>7, <1>8, <1>9, <1>10,
     <1>11, <1>12, <1>13, <1>14 DEF Next, WorkerStep, RelayStep

-----------------------------------------------------------------------------
(* IInv holds in every state of every behaviour of the worker and relay.  *)
THEOREM InvariantHolds == Spec => []IInv
<1>1. Init => IInv
  BY InitIInv
<1>2. IInv /\ [Next]_vars => IInv'
  BY NextIInv
<1>3. QED
  BY <1>1, <1>2, PTL DEF Spec

(* Every variable of the worker keeps its type, whatever the relay sends  *)
(* and whichever download, decode, inference or POST fails.                *)
THEOREM TypeCorrect == Spec => []TypeOK
  BY InvariantHolds, PTL DEF IInv

(* Every summary the relay accepted answers a frame_batch with data read  *)
(* earlier, counts the frames really downloaded (at least one, at most     *)
(* the number requested) and lists them in request order: the download    *)
(* loop and the summary dict of process_frame_batch_event.                 *)
THEOREM ResultsFaithful == Spec => []DeliveredResultsFaithful
  BY InvariantHolds, PTL DEF IInv

(* The relay receives at most one summary per event, in the order the     *)
(* events were sent, because the listen loop handles one message at a time.*)
THEOREM ResultsInOrder == Spec => []DeliveredInBatchOrder
  BY InvariantHolds, PTL DEF IInv

(* A batch is only ever in hand with the key of a "registered" reply that *)
(* was read before it: the `and self.worker_key` guard of listen().        *)
LEMMA IInvBatchOnlyWithKey == IInv => BatchOnlyWithKey
  BY DEF IInv, BatchInHand, BatchOnlyWithKey

THEOREM KeyGuardHolds == Spec => []BatchOnlyWithKey
  BY InvariantHolds, IInvBatchOnlyWithKey, PTL

=============================================================================
