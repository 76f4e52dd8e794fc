---------------------------- MODULE BatchService ----------------------------
(***************************************************************************)
(* What a frame_batch worker promises the relay, stated without the       *)
(* worker's stages: the relay opens a connection, sends events on it and  *)
(* closes it; the worker reads the events one at a time, in order, and    *)
(* answers some of the frame_batch events it has read with a summary that *)
(* names the event and a frame count no larger than the event's.  It     *)
(* answers each event at most once and in the order the events were sent, *)
(* and it may stop at any time (a crash) but must stop once the relay has *)
(* closed and every event has been read.  Worker implements this         *)
(* specification under the mapping given in Worker.tla (BS).               *)
(***************************************************************************)
EXTENDS Naturals, Sequences

CONSTANTS
    MaxMsgs,    \* bound on the events the relay sends
    MaxFrames,  \* bound on the frames of one event
    Events      \* what the relay may send: records with a type field

VARIABLES
    msgs,    \* every event sent so far
    conn,    \* "none" before the connection opens, then "open", "closed"
    read,    \* how many events the worker has consumed
    out,     \* the answers accepted by the relay, oldest first
    alive    \* the worker has not stopped

avars == <<msgs, conn, read, out, alive>>

(* An event the worker is meant to answer: a frame_batch carrying frames. *)
Answerable(e) == msgs[e].type = "frame_batch" /\ msgs[e].hasData

Answer == [batch: 1..MaxMsgs, count: 1..MaxFrames]

Init ==
    /\ msgs = <<>>
    /\ conn = "none"
    /\ read = 0
    /\ out = <<>>
    /\ alive = TRUE

Open ==
    /\ alive
    /\ conn = "none"
    /\ conn' = "open"
    /\ UNCHANGED <<msgs, read, out, alive>>

Send(m) ==
    /\ conn = "open"
    /\ Len(msgs) < MaxMsgs
    /\ msgs' = Append(msgs, m)
    /\ UNCHANGED <<conn, read, out, alive>>

Close ==
    /\ conn = "open"
    /\ conn' = "closed"
    /\ UNCHANGED <<msgs, read, out, alive>>

Read ==
    /\ alive
    /\ read < Len(msgs)
    /\ read' = read + 1
    /\ UNCHANGED <<msgs, conn, out, alive>>

(* Answer event e, already read and later than every event answered so   *)
(* far, with a summary of c of its frames.                                 *)
Deliver(e, c) ==
    /\ alive
    /\ e \in 1..read
    /\ Answerable(e)
    /\ c \in 1..msgs[e].frames
    /\ \A i \in 1..Len(out) : out[i].batch < e
    /\ out' = Append(out, [batch |-> e, count |-> c])
    /\ UNCHANGED <<msgs, conn, read, alive>>

Stop ==
    /\ alive
    /\ alive' = FALSE
    /\ conn' = "closed"
    /\ UNCHANGED <<msgs, read, out>>

(* The relay has closed and nothing it sent is left unread. *)
Drained == conn = "closed" /\ read = Len(msgs)

Next ==
    \/ Open \/ (\E m \in Events : Send(m)) \/ Close \/ Read
    \/ (\E e \in 1..MaxMsgs, c \in 1..MaxFrames : Deliver(e, c))
    \/ Stop

SafeSpec == Init /\ [][Next]_avars

(* The worker keeps reading while there is something to read, and stops  *)
(* once the relay has closed and every event has been read.                *)
Spec == SafeSpec /\ WF_avars(Read) /\ WF_avars(Stop /\ Drained)

=============================================================================
