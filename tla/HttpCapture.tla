------------------------------ MODULE HttpCapture ------------------------------
(***************************************************************************)
(* One POST exchange that `mcptracer record-http` forwards and records in  *)
(* a session of its own: the handler, the request task                     *)
(* (forward_request_body), the response tap in the body stream, the        *)
(* response task (capture_response_body), and the lease they share, whose  *)
(* last clone leads to finalization.  HttpRegistry has many exchanges and  *)
(* abstracts this module to LoseMessage, TapMarks, TapCounts, DropLease.   *)
(*                                                                         *)
(* A body is a number of chunks; ends are the response chunks with which a *)
(* message is complete (the last one of a JSON body, the blank line after  *)
(* each SSE event).                                                        *)
(***************************************************************************)
EXTENDS Naturals, FiniteSets

CONSTANTS
    Kinds,               \* response content types: "json", "sse", "other"
    RequestChunks,       \* chunks in the request body
    ResponseChunks,      \* chunks in the response body
    RequestCapacity,     \* REQUEST_FORWARD_CHANNEL_CAPACITY
    ResponseCapacity     \* RESPONSE_CAPTURE_CHANNEL_CAPACITY

ASSUME CaptureAssumption ==
    /\ Kinds \subseteq {"json", "sse", "other"}
    /\ RequestChunks \in Nat \ {0} /\ ResponseChunks \in Nat \ {0}
    /\ RequestCapacity \in Nat \ {0} /\ ResponseCapacity \in Nat \ {0}

VARIABLES
    kind, ends, sized,      \* of the response: type, message ends, declared length
    requestSized,           \* the request declares its length
    handler,                \* sending, returned, failed, cancelled
    request,                \* the request task: spawned, forwarding, recording, done
    requestRead,            \* chunks it queued for the upstream
    requestTaken,           \* chunks the upstream took
    receiver,               \* reqwest still holds the other end of that queue
    client,                 \* the client is connected
    tap,                    \* none, idle, marking, closing, closed
    observed,               \* chunks the body stream got from the upstream
    relayed,                \* chunks it passed on to the client
    broken,                 \* the upstream body ended in an error
    overflowed,             \* the tap's flag
    sent, taken,            \* chunks put into, and taken from, the capture queue
    response,               \* the response task: none, running, done
    nextSeq, requestSeq,    \* the session's sequence counter; the request's number
    dropped,                \* dropped_messages
    stored,                 \* records handed to the storage writer
    final, published,       \* the session is finalized; the count it was closed with
    answeredBlind,          \* history: the response came before any request chunk left
    outrun                  \* history: finalized between the tap's flag and its count

shapeVars    == <<kind, ends, sized, requestSized>>
requestVars  == <<request, requestRead, requestTaken, requestSeq>>
responseVars == <<tap, observed, relayed, broken, overflowed, sent, taken, response>>
sessionVars  == <<final, published, outrun>>
vars == <<shapeVars, handler, receiver, client, requestVars, responseVars, nextSeq, dropped,
          stored, sessionVars, answeredBlind>>

Init ==
    /\ kind \in Kinds
    /\ ends \in IF kind = "json" THEN {{ResponseChunks}} ELSE SUBSET (1..ResponseChunks)
    /\ sized \in BOOLEAN /\ requestSized \in BOOLEAN
    /\ handler = "sending" /\ receiver = TRUE /\ client = TRUE
    /\ request = "spawned" /\ requestRead = 0 /\ requestTaken = 0 /\ requestSeq = 0
    /\ tap = "none" /\ observed = 0 /\ relayed = 0 /\ broken = FALSE /\ overflowed = FALSE
    /\ sent = 0 /\ taken = 0 /\ response = "none"
    /\ nextSeq = 0 /\ dropped = 0 /\ stored = {}
    /\ final = FALSE /\ published = 0 /\ outrun = FALSE /\ answeredBlind = FALSE

\* record_message_at: the pipeline takes the record, or the loss is counted
\* (undecodable, no budget, queue full; see SessionWriter).
Record(message) ==
    \/ stored' = stored \cup {message} /\ UNCHANGED dropped
    \/ dropped' = dropped + 1 /\ UNCHANGED stored

-------------------------------------------------------------------------------
(* The request task.                                                         *)

\* The sequence number is taken before a byte can reach the upstream.
RequestStart ==
    /\ request = "spawned"
    /\ request' = "forwarding"
    /\ requestSeq' = nextSeq /\ nextSeq' = nextSeq + 1
    /\ UNCHANGED <<shapeVars, handler, receiver, client, requestRead, requestTaken,
                   responseVars, dropped, stored, sessionVars, answeredBlind>>

\* A chunk from the client is queued; the last declared one ends the loop.
RequestChunk ==
    /\ request = "forwarding" /\ client /\ receiver
    /\ requestRead < RequestChunks /\ requestRead - requestTaken < RequestCapacity
    /\ requestRead' = requestRead + 1
    /\ request' = IF requestSized /\ requestRead' = RequestChunks THEN "recording" ELSE request
    /\ UNCHANGED <<shapeVars, handler, receiver, client, requestTaken, requestSeq,
                   responseVars, nextSeq, dropped, stored, sessionVars, answeredBlind>>

RequestEof ==
    /\ request = "forwarding" /\ client /\ ~requestSized /\ requestRead = RequestChunks
    /\ request' = "recording"
    /\ UNCHANGED <<shapeVars, handler, receiver, client, requestRead, requestTaken,
                   requestSeq, responseVars, nextSeq, dropped, stored, sessionVars,
                   answeredBlind>>

\* The client's body fails, or the upstream closed its end, which is noticed even
\* while the client sends nothing.
OnlyClientFailure == ~client
ForwardingFails   == ~client \/ ~receiver

RequestLost ==
    /\ request = "forwarding" /\ ForwardingFails
    /\ request' = "done" /\ dropped' = dropped + 1
    /\ UNCHANGED <<shapeVars, handler, receiver, client, requestRead, requestTaken,
                   requestSeq, responseVars, nextSeq, stored, sessionVars, answeredBlind>>

RequestNumber == requestSeq

RequestRecorded ==
    /\ request = "recording"
    /\ request' = "done"
    /\ Record([dir |-> "c2s", upto |-> requestRead, seq |-> RequestNumber])
    /\ UNCHANGED <<shapeVars, handler, receiver, client, requestRead, requestTaken,
                   requestSeq, responseVars, nextSeq, sessionVars, answeredBlind>>

-------------------------------------------------------------------------------
(* The upstream server and reqwest, and the client.                          *)

UpstreamTakes ==
    /\ receiver /\ requestTaken < requestRead
    /\ requestTaken' = requestTaken + 1
    /\ UNCHANGED <<shapeVars, handler, receiver, client, request, requestRead, requestSeq,
                   responseVars, nextSeq, dropped, stored, sessionVars, answeredBlind>>

\* Once the upstream has answered or failed, or the exchange is gone.
ReceiverCloses ==
    /\ receiver /\ handler # "sending"
    /\ receiver' = FALSE
    /\ UNCHANGED <<shapeVars, handler, client, requestVars, responseVars, nextSeq, dropped,
                   stored, sessionVars, answeredBlind>>

ClientLeaves ==
    /\ client
    /\ client' = FALSE
    /\ UNCHANGED <<shapeVars, handler, receiver, requestVars, responseVars, nextSeq,
                   dropped, stored, sessionVars, answeredBlind>>

-------------------------------------------------------------------------------
(* The handler.                                                              *)

\* The response arrives: the task is spawned, the tap is built, and the handler's
\* own clone of the lease goes with it.
Respond ==
    /\ handler = "sending"
    /\ handler' = "returned" /\ tap' = "idle"
    /\ response' = IF kind = "other" THEN "none" ELSE "running"
    /\ answeredBlind' = (requestTaken = 0)
    /\ UNCHANGED <<shapeVars, receiver, client, requestVars, observed, relayed, broken,
                   overflowed, sent, taken, nextSeq, dropped, stored, sessionVars>>

\* 502 to the client.
UpstreamFails ==
    /\ handler = "sending"
    /\ handler' = "failed" /\ receiver' = FALSE
    /\ UNCHANGED <<shapeVars, client, requestVars, responseVars, nextSeq, dropped, stored,
                   sessionVars, answeredBlind>>

HandlerCancelled ==
    /\ handler = "sending" /\ ~client
    /\ handler' = "cancelled" /\ receiver' = FALSE
    /\ UNCHANGED <<shapeVars, client, requestVars, responseVars, nextSeq, dropped, stored,
                   sessionVars, answeredBlind>>

-------------------------------------------------------------------------------
(* The response stream and its tap.                                          *)

\* Neither the flag nor the count exists without a capture.
Captured == kind # "other"

CaptureHasRoom == sent - taken < ResponseCapacity

\* observe: the chunk fits into the capture queue, or is not wanted any more.
ObserveChunk ==
    /\ tap = "idle" /\ ~broken /\ observed < ResponseChunks
    /\ ~Captured \/ overflowed \/ CaptureHasRoom
    /\ observed' = observed + 1 /\ relayed' = observed + 1
    /\ sent' = IF Captured /\ ~overflowed THEN sent + 1 ELSE sent
    /\ UNCHANGED <<shapeVars, handler, receiver, client, requestVars, tap, broken,
                   overflowed, taken, response, nextSeq, dropped, stored, sessionVars,
                   answeredBlind>>

\* mark_incomplete sets its flag first and counts in a second step; the chunk that
\* did not fit is passed on after that.
ObserveOverflow ==
    /\ tap = "idle" /\ ~broken /\ observed < ResponseChunks
    /\ Captured /\ ~overflowed /\ ~CaptureHasRoom
    /\ observed' = observed + 1
    /\ overflowed' = TRUE /\ tap' = "marking"
    /\ UNCHANGED <<shapeVars, handler, receiver, client, requestVars, relayed, broken, sent,
                   taken, response, nextSeq, dropped, stored, sessionVars, answeredBlind>>

ObserveError ==
    /\ tap = "idle" /\ ~broken /\ observed < ResponseChunks
    /\ broken' = TRUE
    /\ overflowed' = Captured
    /\ tap' = IF Captured /\ ~overflowed THEN "marking" ELSE tap
    /\ UNCHANGED <<shapeVars, handler, receiver, client, requestVars, observed, relayed,
                   sent, taken, response, nextSeq, dropped, stored, sessionVars,
                   answeredBlind>>

TapCounts ==
    /\ tap \in {"marking", "closing"}
    /\ dropped' = dropped + 1
    /\ tap' = IF tap = "marking" THEN "idle" ELSE "closed"
    /\ relayed' = observed
    /\ UNCHANGED <<shapeVars, handler, receiver, client, requestVars, observed, broken,
                   overflowed, sent, taken, response, nextSeq, stored, sessionVars,
                   answeredBlind>>

\* The stream is dropped: after its end, after an error, once the declared length
\* is reached, or because the client left.
Eof == observed = ResponseChunks /\ ~broken

\* Only a poll past the last chunk tells an undeclared length from a cut; an SSE
\* stream without a length has no end to miss.
MarksDeclared(complete) == Captured /\ ~overflowed /\ ~complete /\ sized
MarksCut(complete)      == Captured /\ ~overflowed /\ ~complete /\ (kind = "json" \/ sized)

DropTap(complete) ==
    /\ tap = "idle"
    /\ IF MarksCut(complete)
       THEN tap' = "closing" /\ overflowed' = TRUE
       ELSE tap' = "closed" /\ UNCHANGED overflowed
    /\ UNCHANGED <<shapeVars, handler, receiver, client, requestVars, observed, relayed,
                   broken, sent, taken, response, nextSeq, dropped, stored, sessionVars,
                   answeredBlind>>

AnyEnding == ~client \/ broken \/ (sized /\ Eof)

StreamEnds ==
    \/ Eof /\ DropTap(TRUE)
    \/ AnyEnding /\ DropTap(sized /\ Eof)

-------------------------------------------------------------------------------
(* The response task.                                                        *)

\* An SSE task gives up as soon as it sees the flag; a JSON task reads on.
TaskTakesChunk ==
    /\ response = "running" /\ taken < sent
    /\ \/ /\ kind = "sse" /\ overflowed
          /\ response' = "done"
          /\ UNCHANGED <<taken, nextSeq, dropped, stored>>
       \/ /\ ~(kind = "sse" /\ overflowed)
          /\ taken' = taken + 1
          /\ IF kind = "sse" /\ taken' \in ends
             THEN /\ Record([dir |-> "s2c", upto |-> taken', seq |-> nextSeq])
                  /\ nextSeq' = nextSeq + 1
             ELSE UNCHANGED <<nextSeq, dropped, stored>>
          /\ UNCHANGED response
    /\ UNCHANGED <<shapeVars, handler, receiver, client, requestVars, tap, observed, relayed,
                   broken, overflowed, sent, sessionVars, answeredBlind>>

\* The queue is closed and empty: a JSON body is recorded, a partial SSE event is
\* counted, both only if nothing was marked.
RecordsBody == taken > 0 /\ ~overflowed

TaskEnds ==
    /\ response = "running" /\ taken = sent /\ tap = "closed"
    /\ response' = "done"
    /\ \/ /\ kind = "json" /\ RecordsBody
          /\ Record([dir |-> "s2c", upto |-> taken, seq |-> nextSeq])
          /\ nextSeq' = nextSeq + 1
       \/ /\ kind = "sse" /\ ~overflowed /\ taken > 0 /\ taken \notin ends
          /\ dropped' = dropped + 1
          /\ UNCHANGED <<nextSeq, stored>>
       \/ /\ ~(kind = "json" /\ RecordsBody)
          /\ ~(kind = "sse" /\ ~overflowed /\ taken > 0 /\ taken \notin ends)
          /\ UNCHANGED <<nextSeq, dropped, stored>>
    /\ UNCHANGED <<shapeVars, handler, receiver, client, requestVars, tap, observed, relayed,
                   broken, overflowed, sent, taken, sessionVars, answeredBlind>>

-------------------------------------------------------------------------------
(* The lease.                                                                *)

\* No task, handler or uncaptured body holds a clone; the tap holds none.
ForgetsResponse == request = "done" /\ handler # "sending"
LeaseFree ==
    /\ request = "done" /\ handler # "sending"
    /\ response # "running"
    /\ kind = "other" /\ handler = "returned" => tap = "closed"

\* release_exchange removes the provisional entry, finalize_session_entry reads
\* the loss count and closes the session with it.
Finalize ==
    /\ ~final /\ LeaseFree
    /\ final' = TRUE /\ published' = dropped
    /\ outrun' = (tap \in {"marking", "closing"})
    /\ UNCHANGED <<shapeVars, handler, receiver, client, requestVars, responseVars, nextSeq,
                   dropped, stored, answeredBlind>>

-------------------------------------------------------------------------------
RequestTask  == RequestStart \/ RequestEof \/ RequestLost \/ RequestRecorded
ResponseTask == TaskTakesChunk \/ TaskEnds
Stream       == TapCounts \/ StreamEnds
Peers        == RequestChunk \/ UpstreamTakes \/ ClientLeaves \/ Respond \/ UpstreamFails
                  \/ ObserveChunk \/ ObserveOverflow \/ ObserveError

Next ==
    \/ RequestTask \/ ResponseTask \/ Stream \/ Peers \/ HandlerCancelled
    \/ ReceiverCloses \/ Finalize
    \/ final /\ UNCHANGED vars

Spec == Init /\ [][Next]_vars

\* The proxy's own tasks run.  The client owes no chunk and no end of input, the
\* upstream no answer and no reading.
FairSpec ==
    /\ Spec
    /\ WF_vars(RequestStart \/ RequestLost \/ RequestRecorded)
    /\ WF_vars(ResponseTask) /\ WF_vars(Stream) /\ WF_vars(Finalize)

-------------------------------------------------------------------------------
(* Properties.                                                               *)

TypeOK ==
    /\ kind \in Kinds /\ ends \in SUBSET (1..ResponseChunks)
    /\ sized \in BOOLEAN /\ requestSized \in BOOLEAN
    /\ handler \in {"sending", "returned", "failed", "cancelled"}
    /\ request \in {"spawned", "forwarding", "recording", "done"}
    /\ requestRead \in 0..RequestChunks /\ requestTaken \in 0..requestRead
    /\ requestSeq \in Nat
    /\ receiver \in BOOLEAN /\ client \in BOOLEAN
    /\ tap \in {"none", "idle", "marking", "closing", "closed"}
    /\ observed \in 0..ResponseChunks /\ relayed \in 0..observed
    /\ broken \in BOOLEAN /\ overflowed \in BOOLEAN
    /\ sent \in 0..observed /\ taken \in 0..sent
    /\ sent - taken <= ResponseCapacity /\ requestRead - requestTaken <= RequestCapacity
    /\ response \in {"none", "running", "done"}
    /\ nextSeq \in Nat /\ dropped \in Nat
    /\ stored \in SUBSET [dir : {"c2s", "s2c"}, upto : Nat, seq : Nat]
    /\ final \in BOOLEAN /\ published \in Nat
    /\ outrun \in BOOLEAN /\ answeredBlind \in BOOLEAN

Holds(dir, upto) == \E m \in stored : m.dir = dir /\ m.upto = upto

\* Every whole message that passed the proxy is stored.
CaptureComplete ==
    /\ requestTaken = RequestChunks => Holds("c2s", RequestChunks)
    /\ Captured => \A n \in ends : relayed >= n => Holds("s2c", n)

\* transport-http.md:179 says that loss is marked before the capture channel is
\* closed: a session closed without a loss holds every message that passed.
AcceptedIsComplete == final /\ published = 0 => CaptureComplete

\* The one way around AcceptedIsComplete is an SSE task that sees the tap's flag
\* before the tap has counted: any other order of client, upstream, tasks, tap and
\* lease keeps accepted sessions complete.
CompleteUnlessOutrun ==
    final /\ published = 0 => CaptureComplete \/ (outrun /\ kind = "sse")

\* What two tasks store of one exchange is what was said, in the order it was
\* said: a response cut by the upstream, the client or a full queue is never
\* stored as a whole one, and the request precedes its response in the capture
\* order, unless the upstream answered before it had read anything.
FaithfulRecords ==
    /\ \A m \in stored : m.dir = "s2c" => m.upto \in ends
    /\ answeredBlind \/ \A m, n \in stored : m.dir = "c2s" /\ n.dir = "s2c" => m.seq < n.seq

\* An exchange that is over on the upstream's side and on the stream's gives back
\* its permit, however long the client keeps its request open.
PermitComesBack ==
    ~receiver /\ (handler \in {"failed", "cancelled"} \/ tap = "closed") ~> final
=============================================================================
