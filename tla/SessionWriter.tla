----------------------------- MODULE SessionWriter -----------------------------
(***************************************************************************)
(* The recording pipeline of one session, session_writer.rs of             *)
(* crates/mcptracer-proxy: pumps that forward a frame first and record it  *)
(* second, the lock-free byte budget and the bounded channel between them  *)
(* and the storage writer thread, the writer's reorder buffer, batching    *)
(* and final accounting, and the database rows they leave behind.          *)
(*                                                                         *)
(* Every shared-memory access another thread can observe is a step of its  *)
(* own; work that is local to one thread (parsing, sorting, redacting) is  *)
(* merged into the step next to it.                                        *)
(***************************************************************************)
EXTENDS RedactionContext, Sequences, FiniteSetsExt

CONSTANTS
    Pumps,              \* the tasks that record frames of the session
    DirectionOf,        \* the direction each pump relays
    Payloads,           \* what frames may carry: records, see Frame
    MaxFrames,          \* bound: frames read in one behaviour
    ChannelCapacity,    \* sync_channel(4096)
    MaxBytes,           \* STORAGE_QUEUE_MAX_BYTES
    BatchSize,          \* STORAGE_WRITE_BATCH_MESSAGES
    ReorderMax,         \* STORAGE_REORDER_MAX_MESSAGES
    RedactorActive,     \* a policy other than "none"
    CancelMidForward,   \* a pump may be dropped after its bytes were handed over
    StoreFaults,        \* the SQLite statements that may fail
    CrashPossible       \* the process may be killed

ASSUME WriterAssumption ==
    /\ DirectionOf \in [Pumps -> Direction]
    /\ Payloads \subseteq [json: BOOLEAN, bytes: Nat, shape: Shapes,
                           id: {NoId} \cup {p.id : p \in Payloads}]
    /\ MaxFrames \in Nat
    /\ ChannelCapacity \in Nat \ {0}
    /\ MaxBytes \in Nat
    /\ BatchSize \in Nat \ {0}
    /\ ReorderMax \in Nat \ {0}
    /\ RedactorActive \in BOOLEAN
    /\ CancelMidForward \in BOOLEAN
    /\ StoreFaults \subseteq {"batch", "dropped", "close"}
    /\ CrashPossible \in BOOLEAN

VARIABLES
    nextStamp,      \* the shared sequence counter
    pc,             \* where each pump is in drain_frames
    frame,          \* the frame each pump holds
    seen,           \* the budget value its compare-exchange expects
    queuedBytes,    \* StorageQueueBudget.queued_bytes
    dropped,        \* the shared dropped_messages counter
    channel,        \* the bounded channel to the writer
    wpc,            \* where the writer thread is
    taken,          \* events collected in this iteration
    closing,        \* the Close event has been collected
    closeDropped,   \* the count it carried
    pending,        \* the reorder buffer
    messages,       \* released records not yet written
    spent,          \* records whose write was attempted, reservation still held
    nextSeq,        \* next_seq
    failed,         \* failed_message_records
    failure,        \* first_failure is set
    reported,       \* context_loss_reported
    tracker,        \* redaction_context
    rows,           \* the committed message rows of the session
    dbDropped,      \* sessions.dropped_messages
    dbClosed,       \* sessions.ended_at is set
    finisher,       \* run() and finish_storage_writer
    crashed,        \* the process is gone
    forwarded       \* history: the JSON and non-JSON frames peers received whole

pumpVars   == <<nextStamp, pc, frame, seen, forwarded>>
bufferVars == <<pending, messages, spent, nextSeq, reported, tracker>>
writerVars == <<wpc, taken, closing, closeDropped, failed, failure>>
dbVars     == <<rows, dbDropped, dbClosed>>
vars == <<pumpVars, queuedBytes, dropped, channel, writerVars, bufferVars,
          dbVars, finisher, crashed>>

Ids    == {NoId} \cup {p.id : p \in Payloads}
Frame  == [seq: Nat, dir: Direction, json: BOOLEAN, bytes: Nat, shape: Shapes, id: Ids]
Record == [msg: Frame, context: Context]
Event  == [kind: {"message"}, msg: Frame] \cup [kind: {"close"}, dropped: Nat]
Tracker == [pending: SUBSET (Direction \X Ids), previous: Int, lost: BOOLEAN]

NoFrame == [seq |-> 0, dir |-> "c2s", json |-> FALSE, bytes |-> 0,
            shape |-> "unmatched", id |-> NoId]

Recorded == {r.msg : r \in rows}

Init ==
    /\ nextStamp = 0
    /\ pc = [p \in Pumps |-> "idle"]
    /\ frame = [p \in Pumps |-> NoFrame]
    /\ seen = [p \in Pumps |-> 0]
    /\ queuedBytes = 0 /\ dropped = 0 /\ channel = <<>>
    /\ wpc = "recv" /\ taken = 0 /\ closing = FALSE /\ closeDropped = 0
    /\ pending = {} /\ messages = {} /\ spent = {}
    /\ nextSeq = 0 /\ failed = 0 /\ failure = FALSE /\ reported = FALSE
    /\ tracker = EmptyTracker
    /\ rows = {} /\ dbDropped = 0 /\ dbClosed = FALSE
    /\ finisher = "pumping" /\ crashed = FALSE
    /\ forwarded = {}

-------------------------------------------------------------------------------
(* The pumps: drain_frames, record_frame, try_record.                        *)

\* A complete frame within the size cap was parsed; the sequence is reserved
\* before the bytes are written to the other side.
ReadFrame(p) ==
    /\ pc[p] = "idle" /\ finisher = "pumping"
    /\ nextStamp < MaxFrames
    /\ \E payload \in Payloads :
         frame' = [frame EXCEPT ![p] =
                     [seq |-> nextStamp, dir |-> DirectionOf[p], json |-> payload.json,
                      bytes |-> payload.bytes, shape |-> payload.shape, id |-> payload.id]]
    /\ nextStamp' = nextStamp + 1
    /\ pc' = [pc EXCEPT ![p] = "forward"]
    /\ UNCHANGED <<seen, forwarded, queuedBytes, dropped, channel, writerVars,
                   bufferVars, dbVars, finisher, crashed>>

\* End of input, a read or parse error, a frame over MAX_FRAME_BYTES.
PumpEnds(p) ==
    /\ pc[p] = "idle"
    /\ pc' = [pc EXCEPT ![p] = "ended"]
    /\ UNCHANGED <<nextStamp, frame, seen, forwarded, queuedBytes, dropped, channel,
                   writerVars, bufferVars, dbVars, finisher, crashed>>

\* A frame that is not JSON cannot be stored: it is counted like any other loss.
UncountedForward(p) == dropped
ForwardCounted(p)   == dropped + IF frame[p].json THEN 0 ELSE 1

\* write_all and flush succeeded; a JSON frame goes on to be recorded.
Forward(p) ==
    /\ pc[p] = "forward" /\ finisher = "pumping"
    /\ forwarded' = forwarded \cup {frame[p]}
    /\ dropped' = ForwardCounted(p)
    /\ pc' = [pc EXCEPT ![p] = IF frame[p].json THEN "load" ELSE "idle"]
    /\ UNCHANGED <<nextStamp, frame, seen, queuedBytes, channel, writerVars,
                   bufferVars, dbVars, finisher, crashed>>

\* The peer is gone: the stamp is spent, the pump returns an error.
ForwardFails(p) ==
    /\ pc[p] = "forward" /\ finisher = "pumping"
    /\ pc' = [pc EXCEPT ![p] = "ended"]
    /\ UNCHANGED <<nextStamp, frame, seen, forwarded, queuedBytes, dropped, channel,
                   writerVars, bufferVars, dbVars, finisher, crashed>>

\* No reservation: the record is dropped and counted.
Refuse(p) ==
    /\ dropped' = dropped + 1
    /\ pc' = [pc EXCEPT ![p] = "idle"]
    /\ UNCHANGED <<seen, queuedBytes>>

\* try_reserve before its loop.
LoadBudget(p) ==
    /\ pc[p] = "load"
    /\ \/ frame[p].bytes > MaxBytes /\ Refuse(p)
       \/ /\ frame[p].bytes <= MaxBytes
          /\ seen' = [seen EXCEPT ![p] = queuedBytes]
          /\ pc' = [pc EXCEPT ![p] = "cas"]
          /\ UNCHANGED <<queuedBytes, dropped>>
    /\ UNCHANGED <<nextStamp, frame, forwarded, channel, writerVars, bufferVars,
                   dbVars, finisher, crashed>>

\* One turn of its loop: refuse, reserve, or retry with the value observed.
Reserve(p) ==
    /\ queuedBytes = seen[p]
    /\ queuedBytes' = queuedBytes + frame[p].bytes
    /\ pc' = [pc EXCEPT ![p] = "send"]
    /\ UNCHANGED <<seen, dropped>>

CasBudget(p) ==
    /\ pc[p] = "cas"
    /\ \/ seen[p] > MaxBytes - frame[p].bytes /\ Refuse(p)
       \/ seen[p] <= MaxBytes - frame[p].bytes /\ Reserve(p)
       \/ /\ seen[p] <= MaxBytes - frame[p].bytes
          /\ queuedBytes # seen[p]
          /\ seen' = [seen EXCEPT ![p] = queuedBytes]
          /\ UNCHANGED <<pc, queuedBytes, dropped>>
    /\ UNCHANGED <<nextStamp, frame, forwarded, channel, writerVars, bufferVars,
                   dbVars, finisher, crashed>>

ChannelHasRoom == Len(channel) < ChannelCapacity

\* On Full the event comes back, is counted, and its reservation is dropped.
FullKeepsBytes(p) == dropped' = dropped + 1 /\ UNCHANGED queuedBytes
SendFull(p) ==
    /\ dropped' = dropped + 1
    /\ queuedBytes' = queuedBytes - frame[p].bytes

\* try_send.
TrySend(p) ==
    /\ pc[p] = "send"
    /\ \/ /\ ChannelHasRoom
          /\ channel' = Append(channel, [kind |-> "message", msg |-> frame[p]])
          /\ UNCHANGED <<queuedBytes, dropped>>
       \/ ~ChannelHasRoom /\ SendFull(p) /\ UNCHANGED channel
    /\ pc' = [pc EXCEPT ![p] = "idle"]
    /\ UNCHANGED <<nextStamp, frame, seen, forwarded, writerVars, bufferVars, dbVars,
                   finisher, crashed>>

-------------------------------------------------------------------------------
(* The finisher: coordinate_pumps returns, then finish_storage_writer.       *)

\* Frames a cancelled pump may have delivered whole: tokio's Stdout hands the
\* bytes to a blocking thread before flush() is awaited, a pipe does not.
InHandover ==
    IF CancelMidForward
    THEN {frame[p] : p \in {q \in Pumps : pc[q] = "forward" /\ DirectionOf[q] = "s2c"}}
    ELSE {}

\* coordinate_pumps drops both pump futures; recording has no await in it, so
\* no pump is dropped between forwarding and recording.
StopPumps ==
    /\ finisher = "pumping"
    /\ \A p \in Pumps : pc[p] \in {"idle", "forward", "ended"}
    /\ \E delivered \in SUBSET InHandover : forwarded' = forwarded \cup delivered
    /\ pc' = [p \in Pumps |-> "ended"]
    /\ finisher' = "send"
    /\ UNCHANGED <<nextStamp, frame, seen, queuedBytes, dropped, channel, writerVars,
                   bufferVars, dbVars, crashed>>

\* A blocking send: it waits for room.
SendClose ==
    /\ finisher = "send"
    /\ ChannelHasRoom
    /\ channel' = Append(channel, [kind |-> "close", dropped |-> dropped])
    /\ finisher' = "wait"
    /\ UNCHANGED <<pumpVars, queuedBytes, dropped, writerVars, bufferVars, dbVars,
                   crashed>>

AwaitResult ==
    /\ finisher = "wait" /\ wpc = "done"
    /\ finisher' = IF failure THEN "failed" ELSE "ok"
    /\ UNCHANGED <<pumpVars, queuedBytes, dropped, channel, writerVars, bufferVars,
                   dbVars, crashed>>

-------------------------------------------------------------------------------
(* The storage writer thread.                                                *)

\* collect_storage_event for the head of the channel, and the insertion of the
\* record into the reorder buffer.
Collect ==
    /\ channel # <<>>
    /\ channel' = Tail(channel)
    /\ LET event == Head(channel) IN
         \/ /\ event.kind = "message"
            /\ pending' = pending \cup {event.msg}
            /\ UNCHANGED <<closing, closeDropped>>
         \/ /\ event.kind = "close"
            /\ closing' = TRUE /\ closeDropped' = event.dropped
            /\ UNCHANGED pending

CollectFrame ==
    /\ UNCHANGED <<pumpVars, queuedBytes, dropped, failed, failure, messages, spent,
                   nextSeq, reported, tracker, dbVars, finisher, crashed>>

RecvFirst ==
    /\ wpc = "recv"
    /\ Collect
    /\ taken' = 1
    /\ wpc' = "collect"
    /\ CollectFrame

RecvMore ==
    /\ wpc = "collect" /\ ~closing /\ taken < BatchSize
    /\ Collect
    /\ taken' = taken + 1
    /\ UNCHANGED wpc
    /\ CollectFrame

StopCollecting ==
    /\ wpc = "collect"
    /\ closing \/ taken >= BatchSize \/ channel = <<>>
    /\ wpc' = "release" /\ taken' = 0
    /\ UNCHANGED <<pumpVars, queuedBytes, dropped, channel, closing, closeDropped,
                   failed, failure, bufferVars, dbVars, finisher, crashed>>

Earliest(m) == m \in pending /\ \A other \in pending : m.seq <= other.seq
Pressure    == Cardinality(pending) >= ReorderMax

\* Only the head leaves: in sequence, or because nothing more can be waited for.
ReleasableEarly(m) == Earliest(m)
Releasable(m)      == Earliest(m) /\ (m.seq <= nextSeq \/ closing \/ Pressure)

\* Context lost to pressure or to the tracker's own bound is counted once.
ForgetsPressure(m) == ~reported /\ RedactorActive /\ ObserveTracker(tracker, m).lost
LosesContext(m) ==
    /\ ~reported
    /\ \/ m.seq > nextSeq /\ Pressure
       \/ RedactorActive /\ ObserveTracker(tracker, m).lost

\* One record leaves the reorder buffer and its redaction context is derived.
ReleaseNext ==
    /\ wpc = "release"
    /\ \E m \in pending :
         /\ Releasable(m)
         /\ pending' = pending \ {m}
         /\ messages' = messages \cup {[msg |-> m, context |-> ObserveContext(tracker, m)]}
         /\ nextSeq' = IF m.seq + 1 > nextSeq THEN m.seq + 1 ELSE nextSeq
         /\ tracker' = ObserveTracker(tracker, m)
         /\ failed' = IF LosesContext(m) THEN failed + 1 ELSE failed
         /\ failure' = (failure \/ LosesContext(m))
         /\ reported' = (reported \/ LosesContext(m))
    /\ UNCHANGED <<pumpVars, queuedBytes, dropped, channel, wpc, taken, closing,
                   closeDropped, spent, dbVars, finisher, crashed>>

NeverClosing == "recv"
AfterBatch   == IF closing THEN "account" ELSE "recv"

StopReleasing ==
    /\ wpc = "release"
    /\ \A m \in pending : ~Releasable(m)
    /\ wpc' = IF messages = {} THEN AfterBatch ELSE "write"
    /\ UNCHANGED <<pumpVars, queuedBytes, dropped, channel, taken, closing,
                   closeDropped, failed, failure, bufferVars, dbVars, finisher, crashed>>

\* The next write_messages transaction: the BatchSize lowest records.
Chunk == {r \in messages : Cardinality({q \in messages : q.msg.seq < r.msg.seq}) < BatchSize}

ChunkTried ==
    /\ wpc = "write" /\ messages # {}
    /\ messages' = messages \ Chunk
    /\ spent' = spent \cup Chunk
    /\ wpc' = IF messages' = {} THEN "free" ELSE "write"
    /\ UNCHANGED <<pumpVars, queuedBytes, dropped, channel, taken, closing,
                   closeDropped, pending, nextSeq, reported, tracker, dbDropped,
                   dbClosed, finisher, crashed>>

CommitChunk ==
    /\ ChunkTried
    /\ rows' = rows \cup Chunk
    /\ UNCHANGED <<failed, failure>>

\* The transaction rolls back: none of its records is stored, all are counted.
CountChunk == failed + Cardinality(Chunk)

ChunkFails ==
    /\ "batch" \in StoreFaults
    /\ ChunkTried
    /\ failed' = CountChunk /\ failure' = TRUE
    /\ UNCHANGED rows

\* drop(messages): each QueueReservation returns its bytes.
FreeReservation ==
    /\ wpc = "free"
    /\ \E r \in spent :
         /\ \A q \in spent : r.msg.seq <= q.msg.seq
         /\ spent' = spent \ {r}
         /\ queuedBytes' = queuedBytes - r.msg.bytes
    /\ wpc' = IF spent' = {} THEN AfterBatch ELSE "free"
    /\ UNCHANGED <<pumpVars, dropped, channel, taken, closing, closeDropped, failed,
                   failure, pending, messages, nextSeq, reported, tracker, dbVars,
                   finisher, crashed>>

ForgetsFailed == closeDropped
TotalDropped  == closeDropped + failed

\* A loss fails the command even when it could be written down.
KeepsFailure   == failure
AccountFailure == failure \/ TotalDropped > 0

\* increment_dropped_messages, only when there is something to add.
AccountDrops ==
    /\ wpc = "account"
    /\ \/ dbDropped' = dbDropped + TotalDropped
       \/ "dropped" \in StoreFaults /\ TotalDropped > 0 /\ UNCHANGED dbDropped
    /\ failure' = AccountFailure
    /\ wpc' = "close"
    /\ UNCHANGED <<pumpVars, queuedBytes, dropped, channel, taken, closing,
                   closeDropped, failed, bufferVars, rows, dbClosed, finisher, crashed>>

\* close_session, whatever became of the accounting; then the result is sent.
CloseSession ==
    /\ wpc = "close"
    /\ \/ dbClosed' = TRUE /\ UNCHANGED failure
       \/ "close" \in StoreFaults /\ failure' = TRUE /\ UNCHANGED dbClosed
    /\ wpc' = "done"
    /\ UNCHANGED <<pumpVars, queuedBytes, dropped, channel, taken, closing,
                   closeDropped, failed, bufferVars, rows, dbDropped, finisher, crashed>>

-------------------------------------------------------------------------------
(* The process is killed: only the database survives.                        *)
Crash ==
    /\ CrashPossible
    /\ crashed' = TRUE
    /\ UNCHANGED <<pumpVars, queuedBytes, dropped, channel, writerVars, bufferVars,
                   dbVars, finisher>>

PumpStep(p) ==
    \/ ReadFrame(p) \/ PumpEnds(p) \/ Forward(p) \/ ForwardFails(p)
    \/ LoadBudget(p) \/ CasBudget(p) \/ TrySend(p)

FinisherStep == SendClose \/ AwaitResult

WriterStep ==
    \/ RecvFirst \/ RecvMore \/ StopCollecting
    \/ ReleaseNext \/ StopReleasing
    \/ CommitChunk \/ ChunkFails \/ FreeReservation
    \/ AccountDrops \/ CloseSession

Finished == crashed \/ finisher \in {"ok", "failed"}

Next ==
    \/ /\ ~crashed
       /\ \/ \E p \in Pumps : PumpStep(p)
          \/ StopPumps
          \/ FinisherStep
          \/ WriterStep
          \/ Crash
    \/ Finished /\ UNCHANGED vars

Spec == Init /\ [][Next]_vars

\* The writer thread and the finishing task are scheduled; a pump that has
\* forwarded a frame records it without awaiting anything.  Peers owe nothing.
FairSpec ==
    /\ Spec
    /\ WF_vars(~crashed /\ WriterStep)
    /\ WF_vars(~crashed /\ FinisherStep)

-------------------------------------------------------------------------------
(* Properties.                                                               *)

TypeOK ==
    /\ nextStamp \in Nat
    /\ pc \in [Pumps -> {"idle", "forward", "load", "cas", "send", "ended"}]
    /\ frame \in [Pumps -> Frame]
    /\ seen \in [Pumps -> Int]
    /\ queuedBytes \in Int /\ dropped \in Nat
    /\ channel \in Seq(Event) /\ Len(channel) <= ChannelCapacity
    /\ wpc \in {"recv", "collect", "release", "write", "free", "account", "close", "done"}
    /\ taken \in 0..BatchSize /\ closing \in BOOLEAN /\ closeDropped \in Nat
    /\ pending \in SUBSET Frame
    /\ messages \in SUBSET Record /\ spent \in SUBSET Record
    /\ nextSeq \in Nat /\ failed \in Nat
    /\ failure \in BOOLEAN /\ reported \in BOOLEAN
    /\ tracker \in Tracker
    /\ rows \in SUBSET Record
    /\ dbDropped \in Nat /\ dbClosed \in BOOLEAN
    /\ finisher \in {"pumping", "send", "wait", "ok", "failed"}
    /\ crashed \in BOOLEAN
    /\ forwarded \in SUBSET Frame

\* The parts of assess_capture that depend on the recorder: a session that is
\* closed, has rows and reports no loss is accepted as evidence.
CountsAsComplete == dbClosed /\ dbDropped = 0 /\ rows # {}

\* Records whose byte reservation is still owned by something.
Reserved ==
    {frame[p] : p \in {q \in Pumps : pc[q] = "send"}}
      \cup {channel[i].msg : i \in {j \in DOMAIN channel : channel[j].kind = "message"}}
      \cup pending
      \cup {r.msg : r \in messages \cup spent}

\* The lock-free counter is at every moment the sum of the live reservations:
\* no path of try_record, the channel or the writer leaks one or returns it twice.
BudgetExact == queuedBytes = MapThenSumSet(LAMBDA m : m.bytes, Reserved)

\* The bound STORAGE_QUEUE_MAX_BYTES on reserved bytes holds under every
\* interleaving of pumps and writer on the lock-free counter.
BudgetBounded == queuedBytes <= MaxBytes

\* A session the health check accepts holds every frame a peer received,
\* whatever was refused, full, late, rolled back or cut off by a crash.
HealthyIsComplete == CountsAsComplete => forwarded \subseteq Recorded

\* finish_storage_writer returns Ok only for a closed session without a loss,
\* even when the statements that should have said so failed.
CleanExitIsComplete ==
    finisher = "ok" => dbClosed /\ dbDropped = 0 /\ forwarded \subseteq Recorded

\* The tracker a reader has before the row with sequence n, when it observes the
\* stored rows in order as append_redaction_issues and mtrace export do.
ReaderTracker ==
    LET before[n \in 0..MaxFrames] ==
          IF n = 0 THEN EmptyTracker
          ELSE IF \E m \in Recorded : m.seq = n - 1
               THEN ObserveTracker(before[n - 1], CHOOSE m \in Recorded : m.seq = n - 1)
               ELSE before[n - 1]
    IN before

\* The schema exemption the writer granted each row is the one every reader of
\* an accepted session derives again from the rows alone.
ContextAgreement ==
    CountsAsComplete =>
        \A r \in rows : r.context = ObserveContext(ReaderTracker[r.msg.seq], r.msg)

\* Rows are committed in capture order until the writer has noted a loss.
InOrderUntilLoss ==
    [][\A r \in rows' \ rows : (\E q \in rows : q.msg.seq > r.msg.seq) => failure]_vars

\* Once forwarding has stopped, the session is finalized or its failure is
\* reported: neither the full channel nor the reorder buffer can hold it up.
FinishTerminates == finisher = "send" ~> Finished

Abstract == INSTANCE CaptureLog
    WITH relayed <- forwarded, log <- Recorded,
         declared <- dbDropped > 0, closed <- dbClosed

\* The pipeline implements the promise of CaptureLog.
ImplementsCaptureLog == Abstract!LogSpec
=============================================================================
