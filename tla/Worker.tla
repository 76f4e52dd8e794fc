------------------------------- MODULE Worker -------------------------------
(***************************************************************************)
(* The CVWorker of main.py together with the frame_batch handler of        *)
(* events/process_frame_batch_event.py, and the relay it talks to.        *)
(*                                                                         *)
(* The worker is one asyncio coroutine, run(): connect, register, then     *)
(* the listen loop, which for every frame_batch downloads the frames one   *)
(* by one, runs inference and POSTs the summary before it reads the next   *)
(* message.  Each await that can block or fail is one step, so the relay   *)
(* (which sends on the websocket and may close it at any time) interleaves *)
(* with the worker at exactly the points where it can in the code.        *)
(*                                                                         *)
(* The websocket stream is an immutable log msgs with a read index next,   *)
(* so that properties can speak of the messages already consumed.         *)
(***************************************************************************)
EXTENDS Naturals, Sequences, Timestamps

CONSTANTS
    MaxMsgs,      \* bound on the messages the relay sends on the websocket
    MaxFrames,    \* bound on the frame uuids of one frame_batch event
    MergeSize,    \* the processor's temporal merge_size (2 in the code)
    ModelLoaded,  \* whether load_model ran (main.py:119 is commented out)
    NoKey,        \* worker_key = None (main.py:13)
    RelayKey      \* the key the relay issues in its "registered" reply

ASSUME BoundsAssumption ==
    /\ MaxMsgs \in Nat \ {0}
    /\ MaxFrames \in Nat \ {0}
    /\ MergeSize \in Nat \ {0}
    /\ ModelLoaded \in BOOLEAN
    /\ NoKey # RelayKey

VARIABLES
    (* relay side *)
    msgs,       \* every message the relay has sent on the websocket
    wsOpen,     \* the websocket connection is open
    delivered,  \* summaries the relay accepted on POST /events
    (* worker side *)
    phase,      \* where run() is
    key,        \* self.worker_key
    next,       \* index in msgs of the next message recv / async-for reads
    stage,      \* where the listen loop is in the current frame_batch
    batch,      \* index in msgs of the frame_batch being processed
    pos,        \* position of the next frame uuid to download
    images,     \* pil_images: positions of the frames downloaded so far
    summary,    \* the summary dict returned by process_frame_batch_event
    exitCause   \* why run() ended by an exception ("none" while it has not)

relayVars  == <<msgs, wsOpen, delivered>>
batchVars  == <<stage, batch, pos, images, summary>>
vars == <<msgs, wsOpen, delivered, phase, key, next,
          stage, batch, pos, images, summary, exitCause>>

-----------------------------------------------------------------------------
(* Messages on the websocket, as the worker tells them apart: the reply to *)
(* register, a frame_batch whose data has `frames` uuids (hasData = FALSE  *)
(* when data is missing or empty, main.py:64-65), any other type, and a    *)
(* text that is not JSON (json.loads raises, main.py:46 and 59).           *)
BatchMsg ==
    [type: {"frame_batch"}, frames: 0..MaxFrames, hasData: {TRUE}]
    \cup {[type |-> "frame_batch", frames |-> 0, hasData |-> FALSE]}

Msg == {[type |-> "registered"], [type |-> "other"], [type |-> "malformed"]}
       \cup BatchMsg

(* The summary dict of process_frame_batch_event.py:135-141, reduced to    *)
(* what the properties tell apart: the event it answers (service_id and    *)
(* duration_seconds are echoed from it), frame_count, the positions of the *)
(* frames that were fed to the processor and the patch timestamps the      *)
(* processor derived for them.                                             *)
Result == [batch: 1..MaxMsgs, count: 1..MaxFrames,
           frames: Seq(1..MaxFrames), ts: Seq(Nat)]

(* No summary is waiting to be emitted. *)
NoSummary == [batch |-> 0, count |-> 0, frames |-> <<>>, ts |-> <<>>]

Phases == {"start", "connected", "awaitReg", "listening", "closed", "crashed"}
Live   == {"connected", "awaitReg", "listening"}
Ended  == {"closed", "crashed"}
Causes == {"none", "connect", "register", "malformed", "empty",
           "decode", "inference"}

TypeOK ==
    /\ msgs \in Seq(Msg) /\ Len(msgs) <= MaxMsgs
    /\ wsOpen \in BOOLEAN
    /\ delivered \in Seq(Result)
    /\ phase \in Phases
    /\ key \in {NoKey, RelayKey}
    /\ next \in 1..(MaxMsgs + 1)
    /\ stage \in {"idle", "fetch", "infer", "emit"}
    /\ batch \in 0..MaxMsgs
    /\ pos \in 1..(MaxFrames + 1)
    /\ images \in Seq(1..MaxFrames)
    /\ summary \in Result \cup {NoSummary}
    /\ exitCause \in Causes

-----------------------------------------------------------------------------
Init ==
    /\ msgs = <<>>
    /\ wsOpen = FALSE
    /\ delivered = <<>>
    /\ phase = "start"
    /\ key = NoKey
    /\ next = 1
    /\ stage = "idle"
    /\ batch = 0
    /\ pos = 1
    /\ images = <<>>
    /\ summary = NoSummary
    /\ exitCause = "none"

(* An exception leaves run(): the finally block closes the websocket       *)
(* (main.py:106-108) and the program ends; the batch in hand is dropped.   *)
Crash(cause) ==
    /\ phase' = "crashed"
    /\ exitCause' = cause
    /\ wsOpen' = FALSE
    /\ stage' = "idle"
    /\ UNCHANGED <<msgs, delivered, key, next, batch, pos, images, summary>>

(* The next message of the stream has arrived and not been read. *)
HasMsg == next <= Len(msgs)
CurMsg == msgs[next]

(* connect(): websockets.connect either opens the connection or raises,    *)
(* and run() does not catch it (main.py:35-37, 100-101).                   *)
Connect ==
    /\ phase = "start"
    /\ \/ /\ phase' = "connected"
          /\ wsOpen' = TRUE
          /\ UNCHANGED <<msgs, delivered, key, next, batchVars, exitCause>>
       \/ Crash("connect")

(* register(), first half: send {"type": "register"} (main.py:40-44); on *)
(* a connection that is already closed, send raises ConnectionClosed.      *)
SendRegister ==
    /\ phase = "connected"
    /\ \/ /\ wsOpen
          /\ phase' = "awaitReg"
          /\ UNCHANGED <<relayVars, key, next, batchVars, exitCause>>
       \/ /\ ~wsOpen
          /\ Crash("register")

(* Mutant: recv() waits for a reply even on a closed connection. *)
RecvRegistrationNoClose ==
    /\ phase = "awaitReg"
    /\ \/ /\ HasMsg /\ CurMsg.type # "malformed"
          /\ key' = IF CurMsg.type = "registered" THEN RelayKey ELSE key
          /\ next' = next + 1 /\ phase' = "listening"
          /\ UNCHANGED <<relayVars, batchVars, exitCause>>
       \/ /\ HasMsg /\ CurMsg.type = "malformed" /\ Crash("register")

(* register(), second half (main.py:45-53): recv the next message, take    *)
(* worker_id and key from it if its type is "registered", and otherwise    *)
(* only log it; either way run() goes on to listen().  A text that is not  *)
(* JSON, or the connection closing before any reply, raises out of run().  *)
RecvRegistration ==
    /\ phase = "awaitReg"
    /\ \/ /\ HasMsg
          /\ CurMsg.type # "malformed"
          /\ key' = IF CurMsg.type = "registered" THEN RelayKey ELSE key
          /\ next' = next + 1
          /\ phase' = "listening"
          /\ UNCHANGED <<relayVars, batchVars, exitCause>>
       \/ /\ HasMsg
          /\ CurMsg.type = "malformed"
          /\ Crash("register")
       \/ /\ ~HasMsg
          /\ ~wsOpen
          /\ Crash("register")

(* Mutant: the `and self.worker_key` guard is dropped. *)
ReceiveBatchNoKeyGuard ==
    /\ phase = "listening" /\ stage = "idle" /\ HasMsg
    /\ CurMsg.type = "frame_batch" /\ CurMsg.hasData
    /\ next' = next + 1 /\ stage' = "fetch" /\ batch' = next
    /\ pos' = 1 /\ images' = <<>>
    /\ UNCHANGED <<relayVars, phase, key, summary, exitCause>>

(* Mutant: the message is dispatched without being consumed, as a loop     *)
(* that peeks at the stream instead of taking from it would.                *)
ReceiveBatchNoAdvance ==
    /\ phase = "listening" /\ stage = "idle" /\ HasMsg
    /\ CurMsg.type = "frame_batch" /\ key # NoKey /\ CurMsg.hasData
    /\ next' = next /\ stage' = "fetch" /\ batch' = next
    /\ pos' = 1 /\ images' = <<>>
    /\ UNCHANGED <<relayVars, phase, key, summary, exitCause>>

(* listen(), one turn of `async for message in self.ws` (main.py:58-65):   *)
(* a frame_batch with data, once the key is set, is handed to             *)
(* process_frame_batch_event; the batch starts with an empty pil_images.   *)
ReceiveBatch ==
    /\ phase = "listening"
    /\ stage = "idle"
    /\ HasMsg
    /\ CurMsg.type = "frame_batch"
    /\ key # NoKey
    /\ CurMsg.hasData
    /\ next' = next + 1
    /\ stage' = "fetch"
    /\ batch' = next
    /\ pos' = 1
    /\ images' = <<>>
    /\ UNCHANGED <<relayVars, phase, key, summary, exitCause>>

(* Every other well-formed message is printed and not acted upon: other    *)
(* types, a frame_batch before a key was obtained, a frame_batch without   *)
(* data (main.py:60-65).                                                   *)
SkipMessage ==
    /\ phase = "listening"
    /\ stage = "idle"
    /\ HasMsg
    /\ CurMsg.type # "malformed"
    /\ ~(CurMsg.type = "frame_batch" /\ key # NoKey /\ CurMsg.hasData)
    /\ next' = next + 1
    /\ UNCHANGED <<relayVars, phase, key, batchVars, exitCause>>

(* json.loads(message) raises inside listen(); only ConnectionClosed is    *)
(* caught there (main.py:59, 77), so the exception leaves run().           *)
ReceiveMalformed ==
    /\ phase = "listening"
    /\ stage = "idle"
    /\ HasMsg
    /\ CurMsg.type = "malformed"
    /\ Crash("malformed")

(* The connection is closed and every message sent before the close has   *)
(* been read: the async-for ends (or raises ConnectionClosed, which is     *)
(* caught), listen() returns and run() closes the socket (main.py:77-78).  *)
ConnectionEnds ==
    /\ phase = "listening"
    /\ stage = "idle"
    /\ ~HasMsg
    /\ ~wsOpen
    /\ phase' = "closed"
    /\ UNCHANGED <<relayVars, key, next, batchVars, exitCause>>

(* Mutant: the frame is recorded by its 0-based loop index plus one too   *)
(* many, an off-by-one in the position kept for the decoded image.         *)
FetchFrameOffByOne ==
    /\ phase = "listening" /\ stage = "fetch"
    /\ pos <= msgs[batch].frames
    /\ images' = Append(images, pos + 1)
    /\ pos' = pos + 1
    /\ UNCHANGED <<relayVars, phase, key, next, stage, batch, summary, exitCause>>

(* download_frame for the uuid at position pos, and its decoding           *)
(* (process_frame_batch_event.py:9-24, 55-59).  A 200 with a body is       *)
(* decoded and appended; a non-200, a timeout, a request error or an       *)
(* empty body (`if jpeg_data`) drops the frame; bytes PIL cannot decode    *)
(* raise out of the handler, out of listen() and out of run().             *)
FetchFrame ==
    /\ phase = "listening"
    /\ stage = "fetch"
    /\ pos <= msgs[batch].frames
    /\ \/ /\ images' = Append(images, pos)
          /\ pos' = pos + 1
          /\ UNCHANGED <<relayVars, phase, key, next, stage, batch,
                         summary, exitCause>>
       \/ /\ pos' = pos + 1
          /\ UNCHANGED <<relayVars, phase, key, next, stage, batch,
                         images, summary, exitCause>>
       \/ Crash("decode")

(* Mutant: the empty-batch branch is missing, so an empty batch neither    *)
(* raises nor proceeds.                                                    *)
FinishDownloadsNoEmptyBranch ==
    /\ phase = "listening" /\ stage = "fetch"
    /\ pos > msgs[batch].frames
    /\ images # <<>>
    /\ stage' = "infer"
    /\ UNCHANGED <<relayVars, phase, key, next, batch, pos, images, summary, exitCause>>

(* After the download loop: `if not pil_images: raise ValueError`          *)
(* (process_frame_batch_event.py:61-62), which nothing catches.            *)
FinishDownloads ==
    /\ phase = "listening"
    /\ stage = "fetch"
    /\ pos > msgs[batch].frames
    /\ \/ /\ images # <<>>
          /\ stage' = "infer"
          /\ UNCHANGED <<relayVars, phase, key, next, batch, pos, images,
                         summary, exitCause>>
       \/ /\ images = <<>>
          /\ Crash("empty")

(* Mutant: frame_count counts the requested uuids, len(frames), instead    *)
(* of the downloaded images.                                               *)
InferCountRequested ==
    /\ phase = "listening" /\ stage = "infer"
    /\ ModelLoaded
    /\ summary' = [batch |-> batch, count |-> msgs[batch].frames, frames |-> images,
                   ts |-> GroupedTimestamps(Len(images), MergeSize)]
    /\ stage' = "emit"
    /\ UNCHANGED <<relayVars, phase, key, next, batch, pos, images, exitCause>>

(* The rest of process_frame_batch_event (lines 64-144): build the prompt, *)
(* run the processor, which derives the patch timestamps from the number   *)
(* of frames and raw_fps, generate, and shape the summary with             *)
(* frame_count = len(pil_images).  Without a loaded model, processor and   *)
(* model are None and the call raises; with one, generation may still      *)
(* raise (out of memory, a missing qwen_vl_utils).                         *)
Infer ==
    /\ phase = "listening"
    /\ stage = "infer"
    /\ \/ /\ ModelLoaded
          /\ summary' = [batch  |-> batch,
                         count  |-> Len(images),
                         frames |-> images,
                         ts     |-> GroupedTimestamps(Len(images), MergeSize)]
          /\ stage' = "emit"
          /\ UNCHANGED <<relayVars, phase, key, next, batch, pos, images,
                         exitCause>>
       \/ Crash("inference")

(* emit_event (main.py:74, 80-97): POST the summary with a 10 s timeout.   *)
(* The relay stores it on a 200, and may also have stored it when the      *)
(* worker's request timed out after the relay's store; it is lost on a     *)
(* non-200 or a failed request.  Every outcome is only printed, and the    *)
(* loop goes on to the next message.                                       *)
Emit ==
    /\ phase = "listening"
    /\ stage = "emit"
    /\ \/ delivered' = Append(delivered, summary)
       \/ UNCHANGED delivered
    /\ stage' = "idle"
    /\ batch' = 0
    /\ summary' = NoSummary
    /\ UNCHANGED <<msgs, wsOpen, phase, key, next, pos, images, exitCause>>

-----------------------------------------------------------------------------
(* The relay sends one message on the open websocket.  It answers          *)
(* register at most once, and only after the worker sent it.               *)
RegisterSent == phase \notin {"start", "connected"}

RelaySend(m) ==
    /\ wsOpen
    /\ Len(msgs) < MaxMsgs
    /\ m.type = "registered" =>
          /\ RegisterSent
          /\ \A i \in 1..Len(msgs) : msgs[i].type # "registered"
    /\ msgs' = Append(msgs, m)
    /\ UNCHANGED <<wsOpen, delivered, phase, key, next, batchVars, exitCause>>

(* The relay closes the websocket (or the connection drops). *)
RelayClose ==
    /\ wsOpen
    /\ wsOpen' = FALSE
    /\ UNCHANGED <<msgs, delivered, phase, key, next, batchVars, exitCause>>

-----------------------------------------------------------------------------
WorkerStep ==
    \/ Connect \/ SendRegister \/ RecvRegistration
    \/ ReceiveBatch \/ SkipMessage \/ ReceiveMalformed \/ ConnectionEnds
    \/ FetchFrame \/ FinishDownloads \/ Infer \/ Emit

RelayStep == (\E m \in Msg : RelaySend(m)) \/ RelayClose

Next == WorkerStep \/ RelayStep

(* The worker is the only coroutine of its event loop, and every call it   *)
(* awaits either returns, raises or times out (10 s on every HTTP call),   *)
(* so a step of the worker that stays enabled is eventually taken.  The    *)
(* relay owes the worker nothing: it may stop sending and never close.     *)
Spec == Init /\ [][Next]_vars /\ WF_vars(WorkerStep)

-----------------------------------------------------------------------------
(***************************************************************************)
(* Properties                                                              *)
(***************************************************************************)
IsIncreasing(s) == \A i, j \in 1..Len(s) : i < j => s[i] < s[j]

(* Every summary the relay accepted answers a frame_batch with data that   *)
(* the worker had already read, its frame_count is the number of frames    *)
(* actually downloaded (at least one, never more than were requested), and *)
(* those frames reached the processor in request order.  This is about the *)
(* download loop and the summary dict (process_frame_batch_event.py:55-62, *)
(* 135-141) across every outcome of every download.                        *)
DeliveredResultsFaithful ==
    \A i \in 1..Len(delivered) :
        LET r == delivered[i] IN
        /\ r.batch < next
        /\ msgs[r.batch].type = "frame_batch"
        /\ msgs[r.batch].hasData
        /\ r.count = Len(r.frames)
        /\ 1 <= r.count /\ r.count <= msgs[r.batch].frames
        /\ IsIncreasing(r.frames)
        /\ \A k \in 1..Len(r.frames) : r.frames[k] <= msgs[r.batch].frames

(* The relay receives at most one summary per frame_batch event, and in    *)
(* the order the events were sent: the listen loop consumes each message   *)
(* once and finishes a batch before reading the next (main.py:58-74).      *)
DeliveredInBatchOrder ==
    \A i, j \in 1..Len(delivered) : i < j => delivered[i].batch < delivered[j].batch

(* No frame is downloaded and no summary is posted without the relay's key *)
(* (the `and self.worker_key` guard, main.py:63): while a batch is in hand *)
(* the worker holds RelayKey, and the "registered" reply that carried it   *)
(* was read before that batch.                                             *)
BatchOnlyWithKey ==
    stage # "idle" =>
        /\ key = RelayKey
        /\ \E j \in 1..(batch - 1) : msgs[j].type = "registered"

(* Once the connection is closed, run() ends: it neither hangs in recv()   *)
(* nor in the listen loop (main.py:45, 58, 77).                            *)
ClosedConnectionEndsSession ==
    (phase \in Live /\ ~wsOpen) ~> (phase \in Ended)

(* Every message the relay sends while the worker listens is eventually    *)
(* consumed, unless the worker has died: no batch wedges the loop.         *)
MessagesEventuallyConsumed ==
    \A k \in 1..MaxMsgs :
        (phase = "listening" /\ Len(msgs) >= k) ~> (next > k \/ phase = "crashed")

(***************************************************************************)
(* Refinement: the worker and relay implement BatchService.  The          *)
(* connection is "none" until connect() opens it and "closed" once it is  *)
(* closed; the events read are those before next; the worker is alive    *)
(* until run() returns or raises; an accepted summary is seen as the event *)
(* it answers and its frame_count.  Stages, frame positions and patch     *)
(* timestamps are hidden.                                                  *)
(***************************************************************************)
ConnView == IF wsOpen THEN "open" ELSE IF phase = "start" THEN "none" ELSE "closed"

OutView == [i \in 1..Len(delivered) |->
                [batch |-> delivered[i].batch, count |-> delivered[i].count]]

BS == INSTANCE BatchService
        WITH Events <- Msg, conn <- ConnView, read <- next - 1,
             out <- OutView, alive <- phase \notin Ended

(* The worker keeps BatchService's promises: it reads the relay's events  *)
(* in order, answers only frame_batch events it has read, each at most    *)
(* once and in event order, with a frame_count within the event's frames; *)
(* it keeps reading while events wait, and it stops once the relay has    *)
(* closed and everything is read (main.py:45-78 with                      *)
(* process_frame_batch_event.py:53-141).                                   *)
ImplementsBatchService == BS!Spec

(***************************************************************************)
(* Claims of spec.md and of the test script that the code does not keep;   *)
(* each is checked by a run that expects a violation.                      *)
(***************************************************************************)

(* spec.md section 7: frame- and batch-level errors (an empty batch, a     *)
(* frame that fails, a failed inference) never bring down the session      *)
(* loop; only connection and registration failures end it, and (section    *)
(* 4.1) an unrecoverable protocol violation such as a text that is not     *)
(* JSON.                                                                   *)
BatchErrorsNonFatal ==
    phase = "crashed" => exitCause \in {"connect", "register", "malformed"}

(* spec.md sections 4.1 and 7: registration that does not receive a        *)
(* "registered" reply is a RegistrationError, fatal to the session; the    *)
(* worker only listens once registered.                                    *)
ListensOnlyWhenRegistered ==
    phase = "listening" => key = RelayKey

(* test_custom_fps.py:44 ("Expected timestamps: 0, 5, 10, ... 45") and     *)
(* spec.md section 2: the patch timestamps given to the model are those of *)
(* the frames' capture instants.  The processor numbers the frames it gets *)
(* 0..n-1, so this requires that frame k was captured at index k.          *)
TimestampsMatchCapture ==
    \A i \in 1..Len(delivered) :
        delivered[i].ts = CaptureTimestamps(delivered[i].frames, MergeSize)

=============================================================================
