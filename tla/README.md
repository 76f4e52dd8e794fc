# Formal model of the Qwen3-VL relay worker

This directory holds TLA+ models, TLC runs and TLAPS proofs for the worker in
`src/examples/worker-qwen3-vl/`. The worker is a Python asyncio client that:

- attaches to a relay over a websocket;
- registers and gets a key;
- receives `frame_batch` events and downloads their frames over HTTP;
- runs a vision-language model on the frames;
- POSTs a summary back to the relay.

The test script `test_custom_fps.py` also holds the temporal-patch timestamp
computation that the model's processor applies to the frames.

## 1. Inventory of the system

### Components and their state

| Component | Code | State it keeps | Operations |
|---|---|---|---|
| RelaySession | `main.py`, `CVWorker` | `ws` (open or closed), `worker_id`, `worker_key` (None until registered), the position in the inbound stream, and where `run()` is (connecting, registering, listening, ended) | `connect` (35-37), `register` (39-53: send, then one `recv`), `listen` (55-78: `async for`, JSON decode, dispatch), `emit_event` (80-97), `run` (99-108: one `try`, `except KeyboardInterrupt`, `finally: ws.close()`) |
| FrameFetcher | `process_frame_batch_event.py`, `download_frame` | none (one request per call) | GET with a 10 s timeout. It returns bytes on a 200 and `None` on any other status or exception (9-24). |
| BatchProcessor | `process_frame_batch_event` | `pil_images` (the frames decoded so far), the uuid being fetched | the sequential download loop with decoding (55-59), the empty check that raises `ValueError` (61-62), the prompt, inference (64-133), and the summary with `frame_count = len(pil_images)` (135-141) |
| TemporalContextBuilder | `test_custom_fps.py` 34-38 and 93-107; the preamble in `process_frame_batch_event.py` 75-81 | none (pure) | effective fps; pad the indices to a multiple of `merge_size` and average the first and last timestamp of each group; the "spans from ... to ..." preamble |
| Relay (environment) | not in this repository | the messages it has sent, the connection | sends `registered`, `frame_batch` and other messages, closes, stores POSTed summaries |
| Inference capability | `load_model`, `processor`, `model.generate` | model weights | external library |

### How the components interact

- `run()` calls `connect`, `register` and `listen` in sequence.
- `listen` reads one message at a time. For a `frame_batch` with data, and only
  while `worker_key` is set, it awaits `process_frame_batch_event`, then
  `emit_event`, and only then reads the next message.
- Everything runs on one coroutine of one event loop. The HTTP calls use
  blocking `requests`, so nothing else runs while a batch is processed. The
  relay, however, runs concurrently: it can send more messages or close the
  socket at any time. The websocket library buffers what the relay sent, and
  iterating the socket yields the buffered messages before it ends.
- Exceptions propagate. Only `ConnectionClosed` is caught, in `listen`. Any
  other exception leaves `run()`, whose `finally` closes the socket, and the
  program ends.

### Hard behaviours (the hazards of PROJECT.json)

- **The reply to register is whatever message comes first.** A
  non-`registered` reply is only printed, and the worker then listens with no
  key. Every batch after that is skipped silently.
- **Partial failure inside a batch.**
  - A failed download drops the frame.
  - A frame that cannot be decoded raises.
  - Zero frames raise `ValueError`.
  - A failed inference raises.

  Every raise except a dropped download ends the whole session (see the
  findings).
- **The relay runs concurrently with a long batch.** Messages queue up, and the
  relay may close meanwhile. The queued messages must still be read, and the
  worker must end and not hang.
- **Blocking calls in the coroutine.** Every download and the POST use the
  blocking `requests` library for up to 10 s each. While a batch runs, the
  event loop answers no websocket ping, so the keepalive may close the
  connection in the middle of the batch. The worker must still finish the
  batch and end.
- **An ill-typed event.** A frame_batch whose `data` is a string or a list
  passes `if event`, and `event.get` then raises out of `run()`. This is not
  modelled (see PROJECT.json).
- **Emission.** The POST times out after 10 s and is never retried. A summary is
  stored at most once, or lost.
- **Stale metadata.** The fps comes from the batch metadata, but the video holds
  only the frames that were downloaded. The patch timestamps are then misaligned.
- **Numeric edges of the timestamp code:**
  - padding when `n % merge_size == 0`;
  - `n = 1`;
  - the fallback fps when the duration is 0.

### Properties by component

- **RelaySession:**
  - summaries are delivered in event order, at most one per event;
  - no batch is processed without the relay's key;
  - the worker ends once the connection is closed;
  - every message is eventually consumed;
  - (a claim of the spec, not kept by the code) a failed registration is fatal.
- **FrameFetcher and BatchProcessor:**
  - `frame_count` is the number of frames downloaded, at least 1 and at most
    the number requested;
  - the frames reach the model in request order;
  - (a claim of the spec, not kept by the code) batch errors are not fatal.
- **TemporalContextBuilder:**
  - the computation equals the spec's closed form (`ceil(n/m)` groups, each the
    mean of its first and of its clamped last index);
  - (a claim of the test) with the derived fps, every timestamp lies within
    the segment;
  - (a claim of the test) the timestamps are those of the capture instants.

## 2. Modules

| Module | Models | Kind |
|---|---|---|
| `Timestamps` | `test_custom_fps.py` 34-38, 93-107; the preamble, `process_frame_batch_event.py` 66-81 | pure operators |
| `MCTimestamps` | the bounded input space of the timestamp operators | TLC harness |
| `TimestampsProofs` | theorems about `Timestamps` | TLAPS |
| `MCTimestampsProofs` | the harness's invariant, and where the segment bound fails, proved | TLAPS |
| `Worker` | RelaySession, FrameFetcher, BatchProcessor, the relay as environment | state machine |
| `MCWorker` | small constants for `Worker` | TLC harness |
| `WorkerProofs` | the inductive invariant of `Worker` and the theorems built on it | TLAPS |
| `BatchService` | what the worker promises the relay, without stages (spec.md sections 4.1, 4.4, 5) | abstract state machine |
| `BatchServiceProofs` | `Worker` implements the safety part of `BatchService` | TLAPS |

### Worker: state

| Variable | Code |
|---|---|
| `msgs` | every message the relay has sent, in order. It is an immutable log, so the websocket's buffer is `msgs[next..]`. |
| `wsOpen` | whether the connection is open. |
| `delivered` | the summaries the relay stored. |
| `phase` | where `run()` is: `start`, `connected`, `awaitReg`, `listening`, `closed` or `crashed`. |
| `key` | `self.worker_key`: `NoKey` is `None`, and `RelayKey` is the key from the `registered` reply. |
| `next` | the index of the next message `async for` / `recv` will return. |
| `stage`, `batch`, `pos`, `images` | the frame_batch being processed: its index in `msgs`, the position of the uuid being fetched, and the positions of the frames decoded so far (`pil_images`). |
| `summary` | the summary dict built by inference and not yet POSTed. |
| `exitCause` | which exception ended `run()`. |

Messages are abstracted to their type. A frame_batch also carries its number of
frame uuids and whether `data` is present. Frames are named by their position
in the batch, and the summary by the index of its event.

### Worker: actions

Each action is one step of the code, and a whole handler where the code has no
await in between:

- `Connect`: `connect` succeeds, or raises.
- `SendRegister`: `register` sends on the open socket, or the send raises.
- `RecvRegistration`: covers these cases:
  - the reply is taken, and its key kept only if its type is `registered`;
  - the reply is not JSON;
  - the socket closed before any reply.
- The `listen` turns:
  - `ReceiveBatch`: the message is dispatched;
  - `SkipMessage`: the message is printed only;
  - `ReceiveMalformed`: `json.loads` raises;
  - `ConnectionEnds`: the loop ends after the buffered messages.
- `FetchFrame`: one iteration of the download loop. The frame is decoded and
  appended, or dropped, or its decoding raises.
- `FinishDownloads`: the empty check.
- `Infer`: inference returns the summary, or raises.
- `Emit`: the summary is stored or lost. The loop continues either way.
- Relay: `RelaySend(m)` and `RelayClose`.

An uncaught exception is `Crash(cause)`. It ends the session, closes the socket
and drops the batch in hand.

**Fairness.** `WF_vars(WorkerStep)` only. The worker is the only coroutine of
its loop, and every call it makes either returns, raises or times out. So a
worker step that stays enabled is eventually taken. The relay owes the worker
nothing: it may fall silent and never close, and no property assumes otherwise.

### The abstract BatchService and the refinement

`BatchService` states the worker's contract with the relay, with no stages,
frames or timestamps. Its state is:

- `msgs`, the events sent;
- `conn`, which is `none`, then `open`, then `closed`;
- `read`, how many events the worker has consumed;
- `out`, the answers accepted by the relay, as pairs of event and frame count;
- `alive`, whether the worker is still running.

Its steps:

- the relay opens the connection, sends on it and closes it;
- the worker reads the next event;
- the worker delivers an answer `Deliver(e, c)` to an event `e` it has already
  read. The event must be a frame_batch with data and later than every event
  answered so far, and `c` lies within its frames;
- the worker may stop at any time.

Its fairness says that the worker keeps reading while events wait, and that it
stops once the relay has closed and everything has been read.

`Worker.tla` maps its own state to this state:

| Abstract | Worker |
|---|---|
| `conn` | `ConnView`: `open` while `wsOpen`, `none` before `connect`, `closed` after |
| `read` | `next - 1` |
| `out` | `OutView`: each stored summary's `batch` and `frame_count` |
| `alive` | `phase` is not `closed` or `crashed` |

`BS == INSTANCE BatchService WITH ...` carries the mapping. The property
`ImplementsBatchService == BS!Spec` is checked in `worker_core`, fairness
included. Under the mapping:

- `RecvRegistration`, `ReceiveBatch` and `SkipMessage` are `Read`;
- a stored `Emit` is `Deliver`;
- every exception and `ConnectionEnds` are `Stop`;
- the download and inference steps stutter.

## 3. Runs

All runs except `timestamps_reference` and `timestamps_outside_segment` use `MCWorker`, which sets the bounds below. Every
`frame_batch` size, every sequence of outcomes of the downloads, decoding,
inference and POST, and every interleaving of the relay's messages with the
worker's steps is explored.

| Bound | Value | Why it is enough |
|---|---|---|
| `MaxMsgs` | 4 | enough for a reply and two batches, or a batch ahead of the reply |
| `MaxFrames` | 3 | makes a gap between two surviving frames possible |
| `MergeSize` | 2 | the code's value |

| Run | Expect | What it shows |
|---|---|---|
| `timestamps_reference` (`MCTimestamps`) | pass | For every `n` in 1..30 and `m` in 1..4, the padding-and-averaging code equals the spec's closed form. |
| `timestamps_outside_segment` (`MCTimestamps`) | violation | The test expects the timestamps to span 0 to the duration (`test_custom_fps.py` 44, 115). At duration 0 the fps falls back to 2.0 (line 38), and two frames are already stamped past the end of the zero-length segment. Durations run over 0..3, so the fallback is reached. |
| `worker_core` | pass (126,257 states) | All seven properties below. |
| `batch_errors_fatal` | violation | An empty batch, an undecodable frame or a failed inference ends the session. |
| `registration_not_fatal` | violation | The worker listens without a key after a non-`registered` reply. |
| `timestamps_misaligned` | violation | After a dropped frame, the patch timestamps handed to the model are not those of the frames' capture positions. |

The `worker_core` properties:

- `TypeOK`.
- `DeliveredResultsFaithful`: a summary answers a frame_batch already read, its
  `frame_count` is the number of frames downloaded (at least 1, at most the
  number requested), and the frames are in request order.
- `DeliveredInBatchOrder`.
- `BatchOnlyWithKey`.
- `ClosedConnectionEndsSession` and `MessagesEventuallyConsumed`: liveness.
- `ImplementsBatchService`: the refinement, with the abstract fairness.

The `worker_core` run sets `CHECK_DEADLOCK FALSE` because the program really
stops: after `run()` returns or raises, `main()` returns.

Every property of a passing run has a mutant in PROJECT.json: a plausible bug
in the mapped code that TLC then catches. The mutants include:

- the key guard dropped;
- an off-by-one in the frame position;
- `frame_count` counting requested frames;
- a message dispatched without being consumed;
- the empty-batch branch missing;
- `recv` waiting on a closed socket;
- the padding one short.

Dispatching a message without consuming it also breaks the refinement: the
summary then answers an event the abstract service has not read.

## 4. What is proved

TLAPS proves these for every value of the constants, assuming only
`BoundsAssumption`: the bounds are positive naturals and `NoKey # RelayKey`.

**`TimestampsProofs.GroupedIsReference`.** For all `n >= 1` and `m >= 1`,
`GroupedTimestamps(n, m) = RefTimestamps(n, m)`. The argument runs as follows:

1. The padded length is the least multiple of `m` that is at least `n`
   (`PadLenFacts`).
2. So there are `ceil(n/m)` groups (`GroupCount`, via `DivUnique`).
3. Each group's first padded index is `(g-1)*m`, and its last is the clamped
   `(g-1)*m+m-1` (`GroupBounds`, `BlockInside`).

`MCTimestampsProofs.TimestampsReferenceHolds` lifts this to the run's
invariant.

**`WorkerProofs`.** The invariants of `worker_core` are not inductive by
themselves. For example, `TypeOK` alone does not keep `pos` below
`MaxFrames + 1`. `IInv` strengthens them with:

- `next <= Len(msgs) + 1`;
- `KeyFromReply`: the key is only ever the one a `registered` reply that was
  already read carried;
- `BatchInHand`: the batch in hand is a frame_batch with data, read after that
  reply, and later than every delivered summary;
- `DownloadsSoFar`: the decoded positions are increasing and below `pos`, and
  after the loop every uuid has been tried;
- `SummaryInHand`: the summary awaiting the POST is exactly what `Infer` built.

TLC checked `IInv` as an invariant of the `worker_core` instance before it was
proved.

`InitIInv` and `NextIInv` establish `Init => IInv` and
`IInv /\ [Next]_vars => IInv'`. `NextIInv` has one step per action, and under
each a step per conjunct the action can disturb. It rests on these lemmas:

- `CrashIInv`: the exception branches;
- `RelaySendIInv`: the relay appends to `msgs`;
- `MonotoneNextHistory` and `MonotoneNextKey`: reading further keeps the
  history and the key justified;
- `BatchMsgFields`, `FrameBatchIsBatchMsg` and `ResultFields`.

From `IInv` the module proves:

- `TypeCorrect`: `Spec => []TypeOK`;
- `ResultsFaithful`: `Spec => []DeliveredResultsFaithful`;
- `ResultsInOrder`: `Spec => []DeliveredInBatchOrder`;
- `KeyGuardHolds`: `Spec => []BatchOnlyWithKey`.

`NextIInv`'s `FetchFrame` case cites `IncreasingAppend`: appending a value
above every element keeps a sequence increasing.

**`MCTimestampsProofs.SegmentBoundIffDuration`.** This is the violation of
`timestamps_outside_segment`, stated for every frame count `n >= 1`, merge
size `m >= 1` and duration `d >= 0`. `WithinSegment(n, m, d)`, every patch
timestamp lying in `[0, d]` with the derived fps, holds exactly when `d > 0` or
`n = 1`. The proof has three cases:

- `d > 0` and `n > 1`: the fps is `(n-1)/d`. `TimestampsProofs.TimestampsBounded`
  says no group timestamp exceeds `2*(n-1)` half periods, the instant of the
  last frame. It follows from `GroupedIsReference`: each group's first index is
  at most `n-1` (`BlockStart`), and its last index is clamped to `n-1`.
  `MulMonotone` scales the bound by `d`.
- `n = 1`: every timestamp is 0.
- `d = 0` and `n > 1`: the fallback fps is 2.0.
  `LastTimestampReachesLastFrame` says the last group is stamped at least at
  `n-1` half periods, because `ceil(n/m)*m >= n` clamps its last index to
  `n-1`. That is past a segment of length 0.

So the run's counterexample is not an artefact of its bounds: every batch of
two or more frames with duration 0 leaves the segment.

**`BatchServiceProofs.RefinesBatchService`.** It proves
`Spec => BS!SafeSpec`, the abstract specification without its fairness. It has
two parts:

- `InitRefines`: `Init => BS!Init`.
- `StepRefines`: `IInv /\ ConnInv /\ [Next]_vars => [BS!Next]_BS!avars`, with
  one case per action. The lemmas `StopStep`, `CrashStep`, `ReadStep`,
  `StutterStep`, `OutViewAppend` and `EmitDelivers` carry the shared parts.

The step needs facts beyond `IInv`:

- `ConnInv` (`ConnInvHolds`: the socket is open only while `run()` is live).
  Without it, the relay's close could be taken for the connection opening.
- From `IInv`, the facts that make a stored `Emit` a legal `Deliver`:
  - the summary answers a frame_batch already read;
  - that event is later than every stored one;
  - its count lies within the event's frames.

**Only model-checked:**

- The liveness properties (`ClosedConnectionEndsSession`,
  `MessagesEventuallyConsumed`) and the fairness part of
  `ImplementsBatchService`. They need fairness and ENABLED, which the proof
  system cannot handle.
- The violations of `batch_errors_fatal`, `registration_not_fatal` and
  `timestamps_misaligned`. Each is a trace that TLC finds; no theorem states it.

## 5. Not modelled

- **Inference, tokenisation and the model library.** They are reduced to
  "returns or raises".
- **The text of the prompt and logging.** No property is about wording. The
  preamble is modelled by what it prints (`Timestamps.Describe`): the two
  tenths it names, or nothing. It is not carried in `Worker`, because it only
  enters the prompt. No property is checked of it, because a reference for
  `"{:.1f}"` would only restate the same rounding. The one decision of the
  code, the `start_time > 0` test, is what spec.md 4.3 asks for.
- **Ill-typed event payloads.** A `data` that is neither missing nor an object
  raises out of `run()`. The model's messages do not produce it. It is a
  batch-level error, unlike `ReceiveMalformed`, so `BatchErrorsNonFatal`
  would forbid it. Modelling it needs a third shape of the data field.
- **`load_model` and `main`.** They only construct the worker. Whether the model
  is loaded is the constant `ModelLoaded`.
- **`test_video_input.py`.** It prints token counts and has no worker state.
- **The relay's own code.** It is not in this repository. Its behaviour is
  taken from spec.md sections 5 and 6.

## 6. Plan for the next iterations

1. **A variant run with `ModelLoaded = FALSE`.** This is the shipped `main()`,
   where `load_model` is commented out. Every batch there ends the session at
   `Infer`.
2. **Ill-typed payloads.** Add a frame_batch whose `data` is not an object, as
   a crash branch of `ReceiveBatch`.
3. **Concurrent fetch.** spec.md sections 4.4 and 5 allow concurrent per-frame
   fetches if the request order is restored. A variant `FetchFrame` that
   completes in any order would have to be shown to refine the same
   `BatchService`.
