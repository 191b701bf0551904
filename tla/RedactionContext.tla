---------------------------- MODULE RedactionContext ----------------------------
(***************************************************************************)
(* RedactionContextTracker of crates/mcptracer-redact/src/context.rs.      *)
(*                                                                         *)
(* A tools/list response may keep schema keywords that the redactor would  *)
(* otherwise mask.  The tracker decides, message by message, whether a     *)
(* payload is such a response.  It is shared by the storage writer (which  *)
(* masks) and by session_health and mtrace export (which re-derive the     *)
(* decision from the stored rows), so both must agree.                     *)
(*                                                                         *)
(* A message is a record with the fields                                   *)
(*   seq   its capture sequence number                                     *)
(*   dir   the stored direction                                            *)
(*   shape what observe() reads of the JSON-RPC envelope, one of Shapes    *)
(*   id    the JSON-RPC id, or NoId when it is neither string nor number   *)
(***************************************************************************)
EXTENDS Integers, FiniteSets

CONSTANTS
    NoId,         \* no usable "id" member
    LongIds,      \* ids whose encoding exceeds MAX_TRACKED_ID_BYTES
    MaxPending    \* MAX_PENDING_LIST_REQUESTS

ASSUME MaxPendingAssumption == MaxPending \in Nat

Direction == {"c2s", "s2c"}

\* What observe() tells apart of a payload: a well-formed tools/list request,
\* any other payload with a "method", a successful result, anything else
\* without a method (an error, an ambiguous or a malformed response).
Shapes == {"list", "method", "result", "unmatched"}

Context == {"Runtime", "ToolListResponse"}

NoSeq == -1    \* previous_seq: None

EmptyTracker == [pending |-> {}, previous |-> NoSeq, lost |-> FALSE]

\* Requests still pending when the message with this seq is looked at: a gap
\* in the sequence forgets all of them.
PendingAt(tracker, seq) ==
    IF tracker.previous # NoSeq /\ seq # tracker.previous + 1
    THEN {} ELSE tracker.pending

\* The direction a reply to a message sent in dir travels.
Opposite(dir) == IF dir = "c2s" THEN "s2c" ELSE "c2s"

\* Messages whose id is looked up; any other leaves the requests alone.
Tracked(m) == m.dir \in Direction /\ m.id # NoId /\ m.id \notin LongIds

\* A new request from the same side drops an older one with its id first.
OthersPending(tracker, m) == PendingAt(tracker, m.seq) \ {<<Opposite(m.dir), m.id>>}

\* A tools/list request that cannot be remembered.
Unrecorded(tracker, m) ==
    /\ m.dir \in Direction /\ m.shape = "list" /\ m.id # NoId
    /\ m.id \in LongIds \/ Cardinality(OthersPending(tracker, m)) >= MaxPending

PendingAfter(tracker, m) ==
    IF m.dir \notin Direction THEN {}
    ELSE IF ~Tracked(m) THEN PendingAt(tracker, m.seq)
    ELSE IF m.shape \notin {"list", "method"} THEN PendingAt(tracker, m.seq) \ {<<m.dir, m.id>>}
    ELSE IF m.shape = "method" \/ Unrecorded(tracker, m) THEN OthersPending(tracker, m)
    ELSE OthersPending(tracker, m) \cup {<<Opposite(m.dir), m.id>>}

\* observe(): the tracker after message m.
ObserveTracker(tracker, m) ==
    [pending  |-> PendingAfter(tracker, m),
     previous |-> m.seq,
     lost     |-> (tracker.lost \/ Unrecorded(tracker, m))]

\* observe(): the context it returns for message m.
ObserveContext(tracker, m) ==
    IF /\ Tracked(m) /\ m.shape = "result"
       /\ <<m.dir, m.id>> \in PendingAt(tracker, m.seq)
    THEN "ToolListResponse" ELSE "Runtime"
=============================================================================
