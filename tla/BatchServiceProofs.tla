------------------------- MODULE BatchServiceProofs -------------------------
(***************************************************************************)
(* Worker implements the safety part of BatchService under the mapping BS *)
(* of Worker.tla.  Each step of the worker or the relay is a step of the  *)
(* abstract service or leaves the mapped state unchanged:                 *)
(*   Connect          -> Open, or Stop when connecting fails;             *)
(*   RelaySend        -> Send;   RelayClose -> Close;                      *)
(*   RecvRegistration, ReceiveBatch, SkipMessage -> Read;                  *)
(*   Emit that the relay stores -> Deliver(batch, frame_count);           *)
(*   every exception out of run(), and ConnectionEnds -> Stop;            *)
(*   the download, inference and unstored-POST steps -> stutter.          *)
(* The mapping needs IInv (the summary in hand answers an event already   *)
(* read, later than every summary delivered, with a count within the      *)
(* event's frames) and ConnInv (an open socket means run() is live, so    *)
(* the relay's close is seen as Close and not as Open).                   *)
(***************************************************************************)
EXTENDS WorkerProofs

(* The websocket is open only between connect() and the end of run(). *)
ConnInv == wsOpen => phase \in Live

USE BoundsAssumption

LEMMA InitConnInv == Init => ConnInv
  BY DEF Init, ConnInv

LEMMA NextConnInv == ConnInv /\ [Next]_vars => ConnInv'
<1> SUFFICES ASSUME ConnInv, [Next]_vars PROVE ConnInv'
  OBVIOUS
<1>1. ASSUME NEW c \in Causes, Crash(c) PROVE ConnInv'
  BY <1>1, Zenon DEF Crash, ConnInv
<1>2. CASE Connect
  BY <1>1, <1>2 DEF Connect, ConnInv, Live, Causes
<1>3. CASE SendRegister
  BY <1>1, <1>3 DEF SendRegister, ConnInv, Live, Causes, relayVars
<1>4. CASE RecvRegistration
  BY <1>1, <1>4 DEF RecvRegistration, ConnInv, Live, Causes, relayVars
<1>5. CASE ReceiveBatch \/ SkipMessage \/ FetchFrame \/ FinishDownloads
           \/ Infer \/ Emit
  BY <1>1, <1>5 DEF ReceiveBatch, SkipMessage, FetchFrame, FinishDownloads,
     Infer, Emit, ConnInv, Causes, relayVars
<1>6. CASE ReceiveMalformed
  BY <1>1, <1>6 DEF ReceiveMalformed, Causes
<1>7. CASE ConnectionEnds
  BY <1>7 DEF ConnectionEnds, ConnInv, relayVars
<1>8. CASE RelayStep
  BY <1>8 DEF RelayStep, RelaySend, RelayClose, ConnInv
<1>9. CASE UNCHANGED vars
  BY <1>9 DEF vars, ConnInv
<1>10. QED
  BY <1>2, <1>3, <1>4, <1>5, <1>6, <1>7, <1>8, <1>9 DEF Next, WorkerStep

THEOREM ConnInvHolds == Spec => []ConnInv
  BY InitConnInv, NextConnInv, PTL DEF Spec

-----------------------------------------------------------------------------
LEMMA InitRefines == Init => BS!Init
  BY DEF Init, BS!Init, ConnView, OutView, Ended


(* A step that ends run() is the service's Stop. *)
LEMMA StopStep ==
    ASSUME phase \notin Ended, phase' \in Ended, ~wsOpen',
           UNCHANGED <<msgs, delivered, next>>
    PROVE  BS!Stop
  BY DEF BS!Stop, ConnView, OutView, Ended

LEMMA CrashStep ==
    ASSUME phase \notin Ended, NEW c \in Causes, Crash(c)
    PROVE  BS!Stop
<1>1. phase' \in Ended /\ ~wsOpen' /\ UNCHANGED <<msgs, delivered, next>>
  BY Zenon DEF Crash, Ended
<1>2. QED
  BY <1>1, StopStep

(* A step that consumes one message and keeps run() live is Read. *)
LEMMA ReadStep ==
    ASSUME next \in Nat, next <= Len(msgs), next' = next + 1,
           phase \in Live, phase' \in Live,
           UNCHANGED <<msgs, wsOpen, delivered>>
    PROVE  BS!Read
  BY DEF BS!Read, ConnView, OutView, Live, Ended

(* A step that touches none of the mapped state is a stutter. *)
LEMMA StutterStep ==
    ASSUME phase \in Live, phase' \in Live,
           UNCHANGED <<msgs, wsOpen, delivered, next>>
    PROVE  UNCHANGED BS!avars
  BY DEF BS!avars, ConnView, OutView, Live, Ended

(* The view of the delivered summaries grows with what is delivered. *)
LEMMA OutViewAppend ==
    ASSUME delivered \in Seq(Result), NEW s,
           delivered' = Append(delivered, s)
    PROVE  OutView' = Append(OutView, [batch |-> s.batch, count |-> s.count])
  BY DEF OutView


(* The summary a stored Emit delivers is a legal Deliver of the service. *)
LEMMA EmitDelivers ==
    ASSUME IInv, Emit, delivered' = Append(delivered, summary)
    PROVE  \E e \in 1..MaxMsgs, c \in 1..MaxFrames : BS!Deliver(e, c)
<1>1. /\ stage = "emit" /\ phase = "listening"
      /\ UNCHANGED <<msgs, wsOpen, phase, next>>
  BY DEF Emit
<1>2. /\ batch \in 1..(next - 1)
      /\ msgs[batch] \in BatchMsg
      /\ msgs[batch].hasData
      /\ \A i \in 1..Len(delivered) : delivered[i].batch < batch
  BY <1>1 DEF IInv, BatchInHand
<1>3. msgs[batch].type = "frame_batch" /\ msgs[batch].frames \in 0..MaxFrames
  BY <1>2, BatchMsgFields
<1>4. /\ images # <<>> /\ Len(images) < pos /\ pos = msgs[batch].frames + 1
      /\ summary.batch = batch /\ summary.count = Len(images)
  BY <1>1 DEF IInv, DownloadsSoFar, SummaryInHand
<1>5. /\ images \in Seq(1..MaxFrames) /\ delivered \in Seq(Result)
      /\ next \in 1..(MaxMsgs + 1) /\ batch \in 0..MaxMsgs
  BY DEF IInv, TypeOK
<1>6. Len(images) \in 1..msgs[batch].frames
  <2>1. Len(images) \in Nat \ {0}
    BY <1>4, <1>5, EmptySeq
  <2>2. QED
    BY <1>3, <1>4, <2>1
<1>7. OutView' = Append(OutView, [batch |-> batch, count |-> Len(images)])
  BY <1>4, <1>5, OutViewAppend
<1>8. BS!Deliver(batch, Len(images))
  <2>1. \A i \in 1..Len(OutView) : OutView[i].batch < batch
    BY <1>2 DEF OutView
  <2>2. UNCHANGED <<msgs, ConnView, next - 1, phase \notin Ended>>
    BY <1>1 DEF ConnView
  <2>3. QED
    BY <1>1, <1>2, <1>3, <1>5, <1>6, <1>7, <2>1, <2>2
       DEF BS!Deliver, BS!Answerable, Ended
<1>9. batch \in 1..MaxMsgs
  BY <1>2, <1>5
<1>11. Len(images) \in 1..MaxFrames
  BY <1>3, <1>6
<1>10. QED
  BY <1>8, <1>9, <1>11

LEMMA StepRefines == IInv /\ ConnInv /\ [Next]_vars => [BS!Next]_BS!avars
<1> SUFFICES ASSUME IInv, ConnInv, [Next]_vars PROVE [BS!Next]_BS!avars
  OBVIOUS
<1>0. /\ next \in 1..(MaxMsgs + 1) /\ next <= Len(msgs) + 1
      /\ delivered \in Seq(Result)
  BY DEF IInv, TypeOK
<1> USE DEF HasMsg, CurMsg, relayVars, batchVars
<1>a. ASSUME NEW c \in Causes, Crash(c), phase \in Live
      PROVE  BS!Next
  BY <1>a, CrashStep DEF BS!Next, Live, Ended
<1>1. CASE Connect
  <2>1. CASE /\ phase' = "connected" /\ wsOpen' = TRUE
             /\ UNCHANGED <<msgs, delivered, key, next, batchVars, exitCause>>
    <3>1. phase = "start" /\ ~wsOpen
      BY <1>1 DEF Connect, ConnInv, Live
    <3>2. BS!Open
      BY <2>1, <3>1 DEF BS!Open, ConnView, OutView, Ended
    <3>3. QED
      BY <3>2 DEF BS!Next
  <2>2. CASE Crash("connect")
    <3>1. phase = "start"
      BY <1>1 DEF Connect
    <3>2. BS!Stop
      BY <2>2, <3>1, CrashStep DEF Causes, Ended
    <3>3. QED
      BY <3>2 DEF BS!Next
  <2>3. QED
    BY <1>1, <2>1, <2>2 DEF Connect
<1>2. CASE SendRegister
  <2>1. CASE wsOpen /\ phase' = "awaitReg"
             /\ UNCHANGED <<relayVars, key, next, batchVars, exitCause>>
    BY <1>2, <2>1, StutterStep DEF SendRegister, Live
  <2>2. CASE ~wsOpen /\ Crash("register")
    BY <1>2, <2>2, <1>a DEF SendRegister, Causes, Live
  <2>3. QED
    BY <1>2, <2>1, <2>2 DEF SendRegister
<1>3. CASE RecvRegistration
  <2>1. CASE /\ HasMsg /\ next' = next + 1 /\ phase' = "listening"
             /\ UNCHANGED <<relayVars, batchVars, exitCause>>
    <3>1. BS!Read
      BY <1>0, <1>3, <2>1, ReadStep DEF RecvRegistration, Live
    <3>2. QED
      BY <3>1 DEF BS!Next
  <2>2. CASE Crash("register")
    BY <1>3, <2>2, <1>a DEF RecvRegistration, Causes, Live
  <2>3. QED
    BY <1>3, <2>1, <2>2 DEF RecvRegistration
<1>4. CASE ReceiveBatch \/ SkipMessage
  <2>1. /\ phase = "listening" /\ HasMsg /\ next' = next + 1
        /\ UNCHANGED <<relayVars, phase>>
    BY <1>4 DEF ReceiveBatch, SkipMessage
  <2>2. BS!Read
    BY <1>0, <2>1, ReadStep DEF Live
  <2>3. QED
    BY <2>2 DEF BS!Next
<1>5. CASE ReceiveMalformed
  BY <1>5, <1>a DEF ReceiveMalformed, Causes, Live
<1>6. CASE ConnectionEnds
  <2>1. BS!Stop
    BY <1>6, StopStep DEF ConnectionEnds, Ended
  <2>2. QED
    BY <2>1 DEF BS!Next
<1>7. CASE FetchFrame \/ FinishDownloads \/ Infer
  <2>1. phase = "listening"
    BY <1>7 DEF FetchFrame, FinishDownloads, Infer
  <2>2. CASE Crash("decode") \/ Crash("empty") \/ Crash("inference")
    BY <2>1, <2>2, <1>a DEF Causes, Live
  <2>3. CASE UNCHANGED <<msgs, wsOpen, delivered, next, phase>>
    BY <2>1, <2>3, StutterStep DEF Live
  <2>4. QED
    BY <1>7, <2>2, <2>3 DEF FetchFrame, FinishDownloads, Infer
<1>8. CASE Emit
  <2>1. CASE delivered' = Append(delivered, summary)
    BY <1>8, <2>1, EmitDelivers DEF BS!Next
  <2>2. CASE UNCHANGED delivered
    BY <1>8, <2>2, StutterStep DEF Emit, Live
  <2>3. QED
    BY <1>8, <2>1, <2>2 DEF Emit
<1>9. CASE \E m \in Msg : RelaySend(m)
  <2>1. PICK m \in Msg : RelaySend(m)
    BY <1>9
  <2>2. BS!Send(m)
    BY <2>1 DEF RelaySend, BS!Send, ConnView, OutView
  <2>3. QED
    BY <2>2 DEF BS!Next
<1>10. CASE RelayClose
  <2>1. phase \in Live
    BY <1>10 DEF RelayClose, ConnInv
  <2>2. BS!Close
    BY <1>10, <2>1 DEF RelayClose, BS!Close, ConnView, OutView, Live
  <2>3. QED
    BY <2>2 DEF BS!Next
<1>11. CASE UNCHANGED vars
  BY <1>11 DEF vars, BS!avars, ConnView, OutView
<1>12. QED
  BY <1>1, <1>2, <1>3, <1>4, <1>5, <1>6, <1>7, <1>8, <1>9, <1>10, <1>11
     DEF Next, WorkerStep, RelayStep


-----------------------------------------------------------------------------
(* The worker and relay implement the safety part of BatchService: every *)
(* behaviour of main.py's listen loop with process_frame_batch_event,     *)
(* whatever the relay sends and whichever download, inference or POST     *)
(* fails, is seen through the mapping BS as a behaviour of the abstract   *)
(* service, which reads events in order and answers each read frame_batch *)
(* at most once, in order, with a count within its frames.                 *)
THEOREM RefinesBatchService == Spec => BS!SafeSpec
<1>1. Spec => [](IInv /\ ConnInv)
  BY InvariantHolds, ConnInvHolds, PTL
<1>2. QED
  BY <1>1, InitRefines, StepRefines, PTL DEF Spec, BS!SafeSpec

=============================================================================
